---------------------------- MODULE AddressSpace ----------------------------
(***************************************************************************)
(* What the dynamic paging API promises (kernel/paging.h): a map from      *)
(* addresses to pages with permissions, in which an operation changes the  *)
(* address it was called for and no other.  Map never replaces a mapping   *)
(* and protect keeps the page.                                             *)
(***************************************************************************)
CONSTANTS Address, Absent

VARIABLES
  mapping,  \* what each address of the window is mapped to, or Absent
  target    \* the address of the operation under way

SpaceInit == mapping = [va \in Address |-> Absent]

(* mapping[va] holds the one entry of a mapped address.                    *)
pages(entries) == {e.page : e \in entries}

Map(va) == mapping[va] = Absent

Unmap(va) == mapping'[va] = Absent

Protect(va) == pages(mapping'[va]) = pages(mapping[va])

SpaceNext ==
  \E va \in Address :
    /\ va = target'
    /\ \A other \in Address \ {va} : mapping'[other] = mapping[other]
    /\ Map(va) \/ Unmap(va) \/ Protect(va)

SpaceSpec == SpaceInit /\ [][SpaceNext]_mapping
=============================================================================
