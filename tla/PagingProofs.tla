---------------------------- MODULE PagingProofs ----------------------------
(***************************************************************************)
(* Proofs about kernel/paging.c, module Paging.                            *)
(*                                                                         *)
(* The inductive invariant gives every table a depth (0 for the root, 3    *)
(* for the tables of leaf entries) and the indices on the way to it.  No   *)
(* variable holds them: the invariant says that they exist, and the proofs *)
(* name them depth and route.                                              *)
(***************************************************************************)
EXTENDS Paging, PMMProofs, SequenceTheorems

Entries == [page : Pages, flags : SUBSET {"W", "X"}]

(* The first n indices of two addresses or routes agree.                   *)
Agree(x, y, n) == \A j \in 1 .. n : x[j] = y[j]

(* Table t lies on the walk of va.                                         *)
On(t, va, depth, route) == Agree(route[t], va, depth[t])

(* Table c is the one that entry i of table t leads to.                    *)
IsChild(c, t, i, depth, route) ==
  /\ depth[c] = depth[t] + 1
  /\ Agree(route[c], route[t], depth[t])
  /\ route[c][depth[c]] = i

(* The tables of the memory m form a tree: a table is known by its depth   *)
(* and its route, and every link leads one level down.                     *)
Rooted(m, root, depth, route) ==
  /\ DOMAIN m \subseteq Pages
  /\ depth \in [Pages -> 0 .. 3] /\ route \in [Pages -> [1 .. 3 -> Nat]]
  /\ root \in DOMAIN m /\ depth[root] = 0

Unique(m, depth, route) ==
  \A t, u \in DOMAIN m : depth[t] = depth[u] /\ Agree(route[t], route[u], depth[t]) => t = u

LinksDown(m, depth, route) ==
  \A t \in DOMAIN m : depth[t] < 3 =>
    \A i \in DOMAIN m[t] :
      /\ m[t][i] = link(m[t][i].page)
      /\ m[t][i].page \in DOMAIN m
      /\ IsChild(m[t][i].page, t, i, depth, route)

Shape(m, root, depth, route) ==
  Rooted(m, root, depth, route) /\ Unique(m, depth, route) /\ LinksDown(m, depth, route)

(* Every table but the root and those in Loose has a link to it; those in  *)
(* Loose have none and are empty.                                          *)
Attached(m, root, depth, route, Loose) ==
  /\ Loose \subseteq DOMAIN m \ {root}
  /\ \A t \in Loose : DOMAIN m[t] = {}
  /\ \A t \in DOMAIN m : depth[t] < 3 => \A i \in DOMAIN m[t] : m[t][i].page \notin Loose
  /\ \A c \in DOMAIN m \ (Loose \cup {root}) :
       \E t \in DOMAIN m : \E i \in DOMAIN m[t] : IsChild(c, t, i, depth, route)

-----------------------------------------------------------------------------
(* Two tables of one depth on the walk of one address are the same.        *)
LEMMA OneTable ==
  ASSUME NEW m, NEW root, NEW depth, NEW route, Shape(m, root, depth, route),
         NEW t \in DOMAIN m, NEW u \in DOMAIN m, NEW va,
         depth[t] = depth[u], On(t, va, depth, route), On(u, va, depth, route)
  PROVE  t = u
BY DEF Shape, Rooted, Unique, LinksDown, On, Agree

(* The root is the only table of depth 0, and lies on every walk.          *)
LEMMA RootOnly ==
  ASSUME NEW m, NEW root, NEW depth, NEW route, Shape(m, root, depth, route), NEW t \in DOMAIN m
  PROVE  /\ depth[t] = 0 <=> t = root
         /\ depth[t] \in 0 .. 3
         /\ \A va : On(root, va, depth, route)
BY DEF Shape, Rooted, Unique, LinksDown, On, Agree

(* A link leads to the only table it can lead to.                          *)
LEMMA LinkedChild ==
  ASSUME NEW m, NEW root, NEW depth, NEW route, Shape(m, root, depth, route),
         NEW t \in DOMAIN m, NEW i \in DOMAIN m[t], NEW c \in DOMAIN m,
         IsChild(c, t, i, depth, route)
  PROVE  m[t][i] = link(c) /\ depth[t] < 3
<1>1. depth[t] < 3 /\ depth[c] \in 0 .. 3 /\ depth[t] \in 0 .. 3
  BY DEF Shape, Rooted, Unique, LinksDown, IsChild
<1>2. m[t][i].page \in DOMAIN m /\ IsChild(m[t][i].page, t, i, depth, route)
  BY <1>1 DEF Shape, Rooted, Unique, LinksDown
<1>3. Agree(route[c], route[m[t][i].page], depth[c])
  BY <1>1, <1>2 DEF IsChild, Agree
<1>4. c = m[t][i].page
  BY <1>2, <1>3 DEF Shape, Rooted, Unique, LinksDown, IsChild
<1>. QED
  BY <1>1, <1>4 DEF Shape, Rooted, Unique, LinksDown

(* The table one level above a table, on the same walk, holds its link.    *)
LEMMA ParentHolds ==
  ASSUME NEW m, NEW root, NEW depth, NEW route, NEW Loose,
         Shape(m, root, depth, route), Attached(m, root, depth, route, Loose),
         NEW c \in DOMAIN m \ Loose, NEW t \in DOMAIN m, NEW va,
         depth[c] = depth[t] + 1, On(c, va, depth, route), On(t, va, depth, route)
  PROVE  va[depth[c]] \in DOMAIN m[t] /\ m[t][va[depth[c]]] = link(c)
<1>1. depth[t] \in 0 .. 3 /\ depth[c] \in 1 .. 3 /\ c # root
  BY DEF Shape, Rooted, Unique, LinksDown
<1>2. PICK u \in DOMAIN m : \E i \in DOMAIN m[u] : IsChild(c, u, i, depth, route)
  BY <1>1 DEF Attached
<1>3. PICK i \in DOMAIN m[u] : IsChild(c, u, i, depth, route)
  BY <1>2
<1>4. depth[u] = depth[t] /\ depth[u] \in 0 .. 3
  BY <1>1, <1>3 DEF IsChild, Shape, Rooted, Unique, LinksDown
<1>5. On(u, va, depth, route)
  BY <1>1, <1>3, <1>4 DEF IsChild, On, Agree
<1>6. u = t
  BY <1>4, <1>5, OneTable
<1>7. i = va[depth[c]]
  BY <1>1, <1>3 DEF IsChild, On, Agree
<1>. QED
  BY <1>3, <1>6, <1>7, LinkedChild

(* A link leads to a table on the walks that reach it.                     *)
LEMMA ChildOn ==
  ASSUME NEW m, NEW root, NEW depth, NEW route, Shape(m, root, depth, route),
         NEW t \in DOMAIN m, depth[t] < 3, NEW va, On(t, va, depth, route),
         va[depth[t] + 1] \in DOMAIN m[t]
  PROVE  LET c == m[t][va[depth[t] + 1]].page
         IN  /\ c \in DOMAIN m /\ depth[c] = depth[t] + 1 /\ On(c, va, depth, route)
             /\ m[t][va[depth[t] + 1]] = link(c)
<1>. DEFINE c == m[t][va[depth[t] + 1]].page
<1>1. /\ c \in DOMAIN m /\ IsChild(c, t, va[depth[t] + 1], depth, route)
      /\ m[t][va[depth[t] + 1]] = link(c)
  BY DEF Shape, Rooted, Unique, LinksDown
<1>2. depth[t] \in 0 .. 3
  BY DEF Shape, Rooted, Unique, LinksDown
<1>3. On(c, va, depth, route)
  BY <1>1, <1>2 DEF IsChild, On, Agree
<1>. QED
  BY <1>1, <1>3 DEF IsChild

-----------------------------------------------------------------------------
(* A store to leaf entries leaves the tree as it is.                       *)
LEMMA LeafStore ==
  ASSUME NEW m, NEW m2, NEW root, NEW depth, NEW route,
         Shape(m, root, depth, route), Attached(m, root, depth, route, {}),
         DOMAIN m2 = DOMAIN m,
         \A t \in DOMAIN m : depth[t] < 3 =>
           DOMAIN m2[t] = DOMAIN m[t] /\ \A i \in DOMAIN m[t] : m2[t][i] = m[t][i]
  PROVE  Shape(m2, root, depth, route) /\ Attached(m2, root, depth, route, {})
<1>1. Shape(m2, root, depth, route)
  BY DEF Shape, Rooted, Unique, LinksDown
<1>2. ASSUME NEW c \in DOMAIN m \ {root}
      PROVE  \E t \in DOMAIN m2 : \E i \in DOMAIN m2[t] : IsChild(c, t, i, depth, route)
  <2>1. PICK t \in DOMAIN m : \E i \in DOMAIN m[t] : IsChild(c, t, i, depth, route)
    BY DEF Attached
  <2>2. depth[t] < 3
    BY <2>1, LinkedChild
  <2>. QED
    BY <2>1, <2>2
<1>3. root \in DOMAIN m
  BY DEF Shape, Rooted, Unique, LinksDown
<1>. QED
  BY <1>1, <1>2, <1>3 DEF Attached

(* The memory with the page added by new_table, and its depth and route.   *)
Added(m, t, i, page) == put([m EXCEPT ![t] = put(@, i, link(page))], page, EmptyTable)
DepthWith(depth, t, page) == [depth EXCEPT ![page] = depth[t] + 1]
RouteWith(depth, route, t, i, page) == [route EXCEPT ![page] = [route[t] EXCEPT ![depth[t] + 1] = i]]

(* The memory m2 has the new table page below entry i of table t.          *)
Grown(m, m2, t, i, page, depth, route, depth2, route2) ==
  /\ t \in DOMAIN m /\ page \notin DOMAIN m /\ i \notin DOMAIN m[t]
  /\ DOMAIN m2 = DOMAIN m \cup {page} /\ DOMAIN m2[page] = {}
  /\ DOMAIN m2[t] = DOMAIN m[t] \cup {i}
  /\ \A u \in DOMAIN m \ {t} : m2[u] = m[u]
  /\ \A u \in DOMAIN m : depth2[u] = depth[u] /\ route2[u] = route[u]
  /\ IsChild(page, t, i, depth2, route2)

(* The page added by new_table becomes the table of a free entry.          *)
LEMMA Grow ==
  ASSUME NEW m, NEW root, NEW depth, NEW route, NEW t \in DOMAIN m, NEW i \in Nat, NEW page \in Pages,
         Shape(m, root, depth, route), Attached(m, root, depth, route, {}),
         depth[t] < 3, i \notin DOMAIN m[t], page \notin DOMAIN m
  PROVE  LET m2 == Added(m, t, i, page)
             depth2 == DepthWith(depth, t, page)
             route2 == RouteWith(depth, route, t, i, page)
         IN  /\ Shape(m2, root, depth2, route2) /\ Attached(m2, root, depth2, route2, {})
             /\ Grown(m, m2, t, i, page, depth, route, depth2, route2)
             /\ m2[t] = put(m[t], i, link(page))
<1>0. PICK m2, depth2, route2 : /\ m2 = Added(m, t, i, page)
                                /\ depth2 = DepthWith(depth, t, page)
                                /\ route2 = RouteWith(depth, route, t, i, page)
  OBVIOUS
<1>1. /\ DOMAIN m2 = DOMAIN m \cup {page}
      /\ DOMAIN m2[page] = {} /\ m2[t] = put(m[t], i, link(page))
      /\ \A u \in DOMAIN m \ {t} : m2[u] = m[u]
  BY <1>0 DEF put, EmptyTable, Added
<1>2. /\ depth \in [Pages -> 0 .. 3] /\ route \in [Pages -> [1 .. 3 -> Nat]]
      /\ root \in DOMAIN m /\ depth[root] = 0 /\ DOMAIN m \subseteq Pages
      /\ depth[t] \in 0 .. 2
  BY DEF Shape, Rooted, Unique, LinksDown
<1>3. /\ depth2 \in [Pages -> 0 .. 3] /\ route2 \in [Pages -> [1 .. 3 -> Nat]]
      /\ \A u \in DOMAIN m : depth2[u] = depth[u] /\ route2[u] = route[u]
      /\ depth2[page] = depth[t] + 1 /\ route2[page] = [route[t] EXCEPT ![depth[t] + 1] = i]
  BY <1>0, <1>2 DEF DepthWith, RouteWith
<1>4. IsChild(page, t, i, depth2, route2)
  BY <1>2, <1>3 DEF IsChild, Agree
<1>5. ASSUME NEW u \in DOMAIN m, depth2[u] = depth2[page],
             Agree(route2[u], route2[page], depth2[u])
      PROVE  FALSE
  <2>1. u # root
    BY <1>2, <1>3, <1>5
  <2>2. PICK v \in DOMAIN m : \E k \in DOMAIN m[v] : IsChild(u, v, k, depth, route)
    BY <2>1 DEF Attached
  <2>3. PICK k \in DOMAIN m[v] : IsChild(u, v, k, depth, route)
    BY <2>2
  <2>4. depth[v] = depth[t] /\ depth[v] \in 0 .. 2
    BY <1>2, <1>3, <1>5, <2>3 DEF IsChild
  <2>5. Agree(route[v], route[t], depth[t])
    BY <1>2, <1>3, <1>5, <2>3, <2>4 DEF IsChild, Agree
  <2>6. v = t
    BY <2>4, <2>5 DEF Shape, Rooted, Unique, LinksDown
  <2>7. k = i
    BY <1>2, <1>3, <1>5, <2>3, <2>4 DEF IsChild, Agree
  <2>. QED
    BY <2>6, <2>7
<1>6. ASSUME NEW u \in DOMAIN m2, NEW v \in DOMAIN m2, depth2[u] = depth2[v],
             Agree(route2[u], route2[v], depth2[u])
      PROVE  u = v
  <2>1. CASE u \in DOMAIN m /\ v \in DOMAIN m
    BY <1>3, <1>6, <2>1 DEF Shape, Rooted, Unique, LinksDown
  <2>2. CASE u = page /\ v \in DOMAIN m
    <3>1. Agree(route2[v], route2[page], depth2[v])
      BY <1>6, <2>2 DEF Agree
    <3>. QED
      BY <1>5, <1>6, <2>2, <3>1
  <2>3. CASE v = page /\ u \in DOMAIN m
    BY <1>5, <1>6, <2>3
  <2>. QED
    BY <1>1, <2>1, <2>2, <2>3
<1>7. ASSUME NEW u \in DOMAIN m, NEW k \in DOMAIN m[u], depth[u] < 3
      PROVE  /\ m[u][k] = link(m[u][k].page) /\ m[u][k].page \in DOMAIN m
             /\ IsChild(m[u][k].page, u, k, depth2, route2)
  <2>1. /\ m[u][k] = link(m[u][k].page) /\ m[u][k].page \in DOMAIN m
        /\ IsChild(m[u][k].page, u, k, depth, route)
    BY <1>7 DEF Shape, Rooted, Unique, LinksDown
  <2>. QED
    BY <1>3, <2>1 DEF IsChild
<1>8. ASSUME NEW u \in DOMAIN m2, NEW k \in DOMAIN m2[u], depth2[u] < 3
      PROVE  /\ m2[u][k] = link(m2[u][k].page) /\ m2[u][k].page \in DOMAIN m2
             /\ IsChild(m2[u][k].page, u, k, depth2, route2)
  <2>1. u \in DOMAIN m
    BY <1>1
  <2>2. CASE u = t /\ k = i
    BY <1>1, <1>4, <2>2 DEF put, link, entry
  <2>3. CASE ~(u = t /\ k = i)
    <3>1. k \in DOMAIN m[u] /\ m2[u][k] = m[u][k]
      BY <1>1, <2>1, <2>3 DEF put
    <3>2. depth[u] < 3
      BY <1>3, <1>8, <2>1
    <3>3. /\ m[u][k] = link(m[u][k].page) /\ m[u][k].page \in DOMAIN m
          /\ IsChild(m[u][k].page, u, k, depth2, route2)
      BY <1>7, <2>1, <3>1, <3>2
    <3>. QED
      BY <1>1, <3>1, <3>3
  <2>. QED
    BY <2>2, <2>3
<1>9. Shape(m2, root, depth2, route2)
  <2>1. Rooted(m2, root, depth2, route2)
    BY <1>1, <1>2, <1>3 DEF Rooted
  <2>2. Unique(m2, depth2, route2)
    BY <1>6 DEF Unique
  <2>3. LinksDown(m2, depth2, route2)
    BY <1>8 DEF LinksDown
  <2>. QED
    BY <2>1, <2>2, <2>3 DEF Shape
<1>10. ASSUME NEW c \in DOMAIN m2 \ {root}
       PROVE  \E u \in DOMAIN m2 : \E k \in DOMAIN m2[u] : IsChild(c, u, k, depth2, route2)
  <2>1. CASE c = page
    <3>1. i \in DOMAIN m2[t]
      BY <1>1 DEF put
    <3>. QED
      BY <1>1, <1>4, <2>1, <3>1
  <2>2. CASE c \in DOMAIN m
    <3>1. PICK u \in DOMAIN m : \E k \in DOMAIN m[u] : IsChild(c, u, k, depth, route)
      BY <2>2 DEF Attached
    <3>2. PICK k \in DOMAIN m[u] : IsChild(c, u, k, depth, route)
      BY <3>1
    <3>3. k \in DOMAIN m2[u]
      BY <1>1 DEF put
    <3>4. IsChild(c, u, k, depth2, route2)
      BY <1>3, <2>2, <3>2 DEF IsChild
    <3>. QED
      BY <1>1, <3>3, <3>4
  <2>. QED
    BY <1>1, <2>1, <2>2
<1>11. Attached(m2, root, depth2, route2, {})
  BY <1>1, <1>2, <1>3, <1>10 DEF Attached
<1>12. DOMAIN m2[t] = DOMAIN m[t] \cup {i}
  BY <1>1 DEF put
<1>13. Grown(m, m2, t, i, page, depth, route, depth2, route2)
  BY <1>1, <1>3, <1>4, <1>12 DEF Grown
<1>. QED
  BY <1>0, <1>1, <1>9, <1>11, <1>13

(* The two ways to store an entry.                                         *)
WithEntry(m, t, i, e) == [m EXCEPT ![t] = put(@, i, e)]
WithoutEntry(m, t, i) == [m EXCEPT ![t] = drop(@, i)]

(* Clearing the link to an empty table makes it loose.                     *)
LEMMA Unlink ==
  ASSUME NEW m, NEW root, NEW depth, NEW route,
         NEW t \in DOMAIN m, NEW i \in DOMAIN m[t],
         Shape(m, root, depth, route), Attached(m, root, depth, route, {}),
         depth[t] < 3, DOMAIN m[m[t][i].page] = {}
  PROVE  LET m2 == WithoutEntry(m, t, i)
             c  == m[t][i].page
         IN  /\ Shape(m2, root, depth, route) /\ Attached(m2, root, depth, route, {c})
             /\ DOMAIN m2 = DOMAIN m /\ DOMAIN m2[t] = DOMAIN m[t] \ {i}
             /\ \A k \in DOMAIN m[t] \ {i} : m2[t][k] = m[t][k]
             /\ \A u \in DOMAIN m \ {t} : m2[u] = m[u]
<1>0. PICK m2, c : m2 = WithoutEntry(m, t, i) /\ c = m[t][i].page
  OBVIOUS
<1>1. /\ DOMAIN m2 = DOMAIN m /\ m2[t] = drop(m[t], i)
      /\ \A u \in DOMAIN m \ {t} : m2[u] = m[u]
  BY <1>0 DEF WithoutEntry
<1>2. DOMAIN m2[t] = DOMAIN m[t] \ {i} /\ \A k \in DOMAIN m[t] \ {i} : m2[t][k] = m[t][k]
  BY <1>1 DEF drop, Restrict
<1>3. c \in DOMAIN m /\ IsChild(c, t, i, depth, route)
  BY <1>0 DEF Shape, Rooted, Unique, LinksDown
<1>4. c # root /\ c # t
  BY <1>3 DEF Shape, Rooted, Unique, LinksDown, IsChild
<1>5. Shape(m2, root, depth, route)
  BY <1>1, <1>2 DEF Shape, Rooted, Unique, LinksDown
<1>6. DOMAIN m2[c] = {}
  BY <1>0, <1>1, <1>3, <1>4
<1>7. ASSUME NEW u \in DOMAIN m2, NEW k \in DOMAIN m2[u], depth[u] < 3, m2[u][k].page = c
      PROVE  FALSE
  <2>1. u \in DOMAIN m /\ k \in DOMAIN m[u] /\ m[u][k].page = c
    BY <1>1, <1>2, <1>7
  <2>2. IsChild(c, u, k, depth, route)
    BY <1>7, <2>1 DEF Shape, Rooted, Unique, LinksDown
  <2>3. depth[u] = depth[t] /\ Agree(route[u], route[t], depth[u]) /\ k = i
    <3>1. depth[u] \in 0 .. 2 /\ depth[t] \in 0 .. 2
      BY <1>7, <2>1 DEF Shape, Rooted, Unique, LinksDown
    <3>. QED
      BY <1>3, <2>2, <3>1 DEF IsChild, Agree
  <2>4. u = t
    BY <2>1, <2>3 DEF Shape, Rooted, Unique, LinksDown
  <2>. QED
    BY <1>2, <1>7, <2>3, <2>4
<1>8. ASSUME NEW b \in DOMAIN m2 \ {c, root}
      PROVE  \E u \in DOMAIN m2 : \E k \in DOMAIN m2[u] : IsChild(b, u, k, depth, route)
  <2>1. PICK u \in DOMAIN m : \E k \in DOMAIN m[u] : IsChild(b, u, k, depth, route)
    BY <1>1 DEF Attached
  <2>2. PICK k \in DOMAIN m[u] : IsChild(b, u, k, depth, route)
    BY <2>1
  <2>3. m[u][k] = link(b)
    BY <1>1, <2>2, LinkedChild
  <2>4. ~(u = t /\ k = i)
    BY <1>0, <2>3 DEF link, entry
  <2>5. k \in DOMAIN m2[u]
    BY <1>1, <1>2, <2>4
  <2>. QED
    BY <1>1, <2>2, <2>5
<1>9. Attached(m2, root, depth, route, {c})
  BY <1>1, <1>3, <1>4, <1>6, <1>7, <1>8 DEF Attached
<1>. QED
  BY <1>0, <1>1, <1>2, <1>5, <1>9

(* The memory without the tables in Loose.                                 *)
Released(m, Loose) == Restrict(m, DOMAIN m \ Loose)

(* What is left when the loose tables are released: a tree.                *)
TreeWithout(m, m2, root, depth, route, Loose) ==
  /\ Shape(m2, root, depth, route) /\ Attached(m2, root, depth, route, {})
  /\ DOMAIN m2 = DOMAIN m \ Loose /\ \A u \in DOMAIN m \ Loose : m2[u] = m[u]

(* Releasing the loose tables leaves a tree.                               *)
LEMMA Release ==
  ASSUME NEW m, NEW root, NEW depth, NEW route, NEW Loose,
         Shape(m, root, depth, route), Attached(m, root, depth, route, Loose)
  PROVE  TreeWithout(m, Released(m, Loose), root, depth, route, Loose)
<1>0. PICK m2 : m2 = Released(m, Loose)
  OBVIOUS
<1>1. DOMAIN m2 = DOMAIN m \ Loose /\ \A u \in DOMAIN m \ Loose : m2[u] = m[u]
  BY <1>0 DEF Restrict, Released
<1>2. Loose \subseteq DOMAIN m \ {root} /\ \A b \in Loose : DOMAIN m[b] = {}
  BY DEF Attached
<1>3. Shape(m2, root, depth, route)
  <2>1. \A u \in DOMAIN m2 : depth[u] < 3 => \A k \in DOMAIN m2[u] :
          /\ m2[u][k] = link(m2[u][k].page) /\ m2[u][k].page \in DOMAIN m2
          /\ IsChild(m2[u][k].page, u, k, depth, route)
    <3>1. \A u \in DOMAIN m2 : depth[u] < 3 => \A k \in DOMAIN m2[u] : m[u][k].page \notin Loose
      BY <1>1 DEF Attached
    <3>2. \A u \in DOMAIN m2 : depth[u] < 3 => \A k \in DOMAIN m2[u] :
            /\ m[u][k] = link(m[u][k].page) /\ m[u][k].page \in DOMAIN m
            /\ IsChild(m[u][k].page, u, k, depth, route)
      <4>1. \A u \in DOMAIN m : depth[u] < 3 => \A k \in DOMAIN m[u] :
              /\ m[u][k] = link(m[u][k].page) /\ m[u][k].page \in DOMAIN m
              /\ IsChild(m[u][k].page, u, k, depth, route)
        BY Zenon DEF Shape, Rooted, Unique, LinksDown
      <4>. QED
        BY <1>1, <4>1
    <3>. SUFFICES ASSUME NEW u \in DOMAIN m2, depth[u] < 3, NEW k \in DOMAIN m2[u]
                  PROVE  /\ m2[u][k] = link(m2[u][k].page) /\ m2[u][k].page \in DOMAIN m2
                         /\ IsChild(m2[u][k].page, u, k, depth, route)
      OBVIOUS
    <3>3. m2[u] = m[u] /\ u \in DOMAIN m
      BY <1>1
    <3>. QED
      BY <1>1, <3>1, <3>2, <3>3
  <2>2. /\ DOMAIN m2 \subseteq Pages /\ root \in DOMAIN m2 /\ depth[root] = 0
        /\ depth \in [Pages -> 0 .. 3] /\ route \in [Pages -> [1 .. 3 -> Nat]]
    BY <1>1, <1>2 DEF Shape, Rooted, Unique, LinksDown
  <2>3. \A t, u \in DOMAIN m2 :
          depth[t] = depth[u] /\ Agree(route[t], route[u], depth[t]) => t = u
    BY <1>1 DEF Shape, Rooted, Unique, LinksDown
  <2>. QED
    BY <2>1, <2>2, <2>3 DEF Shape, Rooted, Unique, LinksDown
<1>4. ASSUME NEW b \in DOMAIN m2 \ {root}
      PROVE  \E u \in DOMAIN m2 : \E k \in DOMAIN m2[u] : IsChild(b, u, k, depth, route)
  <2>1. PICK u \in DOMAIN m : \E k \in DOMAIN m[u] : IsChild(b, u, k, depth, route)
    BY <1>1 DEF Attached
  <2>. QED
    BY <1>1, <1>2, <2>1
<1>5. Attached(m2, root, depth, route, {})
  BY <1>1, <1>2, <1>3, <1>4 DEF Attached, Shape, Rooted
<1>. QED
  BY <1>0, <1>1, <1>3, <1>5 DEF TreeWithout

-----------------------------------------------------------------------------
(* The entries found by one level of a walk in the memory m, and by all    *)
(* four: leaf without the variables.                                       *)
Step(m, entries, index) ==
  {m[e.page][index] : e \in {f \in entries : index \in DOMAIN m[f.page]}}

Walk(m, root, va) ==
  LET first  == Step(m, {link(root)}, va[1])
      second == Step(m, first, va[2])
      third  == Step(m, second, va[3])
  IN  <<first, second, third, Step(m, third, va[4])>>

(* The tables of one depth on the walk of va.                              *)
TablesOn(m, depth, route, n, va) == {t \in DOMAIN m : depth[t] = n /\ On(t, va, depth, route)}

(* The links a walk of va has found at depth n.                            *)
Reached(m, depth, route, Loose, n, va) ==
  {link(t) : t \in TablesOn(m, depth, route, n, va) \ Loose}

(* The entry of va in the table of leaf entries on its walk.               *)
LeafEntry(m, depth, route, va) ==
  {m[t][va[4]] : t \in {u \in TablesOn(m, depth, route, 3, va) : va[4] \in DOMAIN m[u]}}

(* One level of a walk, from a table to its child.                         *)
LEMMA WalkStep ==
  ASSUME NEW m, NEW root, NEW depth, NEW route, NEW Loose, NEW va, NEW n \in 0 .. 2,
         Shape(m, root, depth, route), Attached(m, root, depth, route, Loose)
  PROVE  Step(m, Reached(m, depth, route, Loose, n, va), va[n + 1])
           = Reached(m, depth, route, Loose, n + 1, va)
<1>. DEFINE E == Reached(m, depth, route, Loose, n, va)
<1>1. ASSUME NEW x \in Step(m, E, va[n + 1])
      PROVE  x \in Reached(m, depth, route, Loose, n + 1, va)
  <2>1. PICK e \in E : va[n + 1] \in DOMAIN m[e.page] /\ x = m[e.page][va[n + 1]]
    BY DEF Step
  <2>2. PICK t \in TablesOn(m, depth, route, n, va) \ Loose : e = link(t)
    BY DEF Reached
  <2>3. e.page = t
    BY <2>2 DEF link, entry
  <2>4. t \in DOMAIN m /\ depth[t] = n /\ On(t, va, depth, route)
    BY <2>2 DEF TablesOn
  <2>5. LET c == x.page IN
        c \in DOMAIN m /\ depth[c] = n + 1 /\ On(c, va, depth, route) /\ x = link(c)
    BY <2>1, <2>3, <2>4, ChildOn
  <2>6. x.page \notin Loose
    BY <2>1, <2>3, <2>4 DEF Attached
  <2>. QED
    BY <2>5, <2>6 DEF TablesOn, Reached
<1>2. ASSUME NEW c \in TablesOn(m, depth, route, n + 1, va) \ Loose
      PROVE  link(c) \in Step(m, E, va[n + 1])
  <2>1. c \in DOMAIN m /\ depth[c] = n + 1 /\ On(c, va, depth, route) /\ c \notin Loose
    BY DEF TablesOn
  <2>2. c # root
    BY <2>1 DEF Shape, Rooted, Unique, LinksDown
  <2>3. PICK u \in DOMAIN m : \E i \in DOMAIN m[u] : IsChild(c, u, i, depth, route)
    BY <2>1, <2>2 DEF Attached
  <2>4. PICK i \in DOMAIN m[u] : IsChild(c, u, i, depth, route)
    BY <2>3
  <2>5. depth[u] = n /\ On(u, va, depth, route) /\ i = va[n + 1]
    <3>1. depth[u] \in 0 .. 3
      BY DEF Shape, Rooted, Unique, LinksDown
    <3>2. depth[u] = n
      BY <2>1, <2>4, <3>1 DEF IsChild
    <3>. QED
      BY <2>1, <2>4, <3>2 DEF IsChild, On, Agree
  <2>6. m[u][i] = link(c)
    BY <2>1, <2>4, LinkedChild
  <2>7. u \notin Loose
    BY <2>4 DEF Attached
  <2>8. link(u) \in E /\ link(u).page = u
    BY <2>5, <2>7 DEF TablesOn, Reached, link, entry
  <2>. QED
    BY <2>4, <2>5, <2>6, <2>8 DEF Step
<1>3. Reached(m, depth, route, Loose, n + 1, va) \subseteq Step(m, E, va[n + 1])
  <2>. HIDE DEF E
  <2>. QED
    BY <1>2 DEF Reached
<1>. HIDE DEF E
<1>4. Step(m, E, va[n + 1]) \subseteq Reached(m, depth, route, Loose, n + 1, va)
  BY <1>1
<1>. QED
  BY <1>3, <1>4 DEF E

(* What a walk finds at each level.                                        *)
LEMMA WalkFinds ==
  ASSUME NEW m, NEW root, NEW depth, NEW route, NEW Loose, NEW va,
         Shape(m, root, depth, route), Attached(m, root, depth, route, Loose)
  PROVE  /\ \A n \in 1 .. 3 :
              Walk(m, root, va)[n] = Reached(m, depth, route, Loose, n, va)
         /\ Walk(m, root, va)[4] = LeafEntry(m, depth, route, va)
<1>. DEFINE T(n) == Reached(m, depth, route, Loose, n, va)
<1>1. {link(root)} = T(0)
  <2>1. TablesOn(m, depth, route, 0, va) \ Loose = {root}
    BY RootOnly DEF TablesOn, Shape, Rooted, Unique, LinksDown, Attached
  <2>. QED
    BY <2>1 DEF Reached
<1>2. Step(m, T(0), va[1]) = T(1) /\ Step(m, T(1), va[2]) = T(2) /\ Step(m, T(2), va[3]) = T(3)
  <2>1. ASSUME NEW n \in 0 .. 2
        PROVE  Step(m, T(n), va[n + 1]) = T(n + 1)
    BY WalkStep
  <2>. HIDE DEF T
  <2>2. 0 \in 0 .. 2 /\ 1 \in 0 .. 2 /\ 2 \in 0 .. 2 /\ 0 + 1 = 1 /\ 1 + 1 = 2 /\ 2 + 1 = 3
    OBVIOUS
  <2>. QED
    BY <2>1, <2>2
<1>3. Step(m, T(3), va[4]) = LeafEntry(m, depth, route, va)
  <2>1. ASSUME NEW x \in Step(m, T(3), va[4])
        PROVE  x \in LeafEntry(m, depth, route, va)
    <3>1. PICK e \in T(3) : va[4] \in DOMAIN m[e.page] /\ x = m[e.page][va[4]]
      BY DEF Step
    <3>2. PICK t \in TablesOn(m, depth, route, 3, va) \ Loose : e = link(t)
      BY DEF Reached
    <3>. QED
      BY <3>1, <3>2 DEF LeafEntry, link, entry
  <2>2. ASSUME NEW x \in LeafEntry(m, depth, route, va)
        PROVE  x \in Step(m, T(3), va[4])
    <3>1. PICK t \in TablesOn(m, depth, route, 3, va) : va[4] \in DOMAIN m[t] /\ x = m[t][va[4]]
      BY DEF LeafEntry
    <3>2. t \notin Loose
      BY <3>1 DEF Attached
    <3>3. link(t) \in T(3) /\ link(t).page = t
      BY <3>2 DEF Reached, link, entry
    <3>. HIDE DEF T
    <3>. QED
      BY <3>1, <3>3 DEF Step
  <2>. QED
    BY <2>1, <2>2
<1>. HIDE DEF T
<1>4. Walk(m, root, va) = <<T(1), T(2), T(3), LeafEntry(m, depth, route, va)>>
  BY <1>1, <1>2, <1>3 DEF Walk
<1>5. \A n \in 1 .. 3 : Walk(m, root, va)[n] = T(n)
  BY <1>4
<1>. QED
  BY <1>4, <1>5 DEF T
-----------------------------------------------------------------------------
(* The inductive invariant.                                                *)

Made     == [table : Pages, index : Nat, child : Pages]
BuildOp  == [va : Seq(Nat), level : 1 .. 4, table : Pages, created : Seq(Made),
             todo : Seq(Pages \cup {NotWriteBack})]
MapOp    == [va : Windows, level : 1 .. 4, table : Pages, created : Seq(Made), page : Pages,
             flags : SUBSET {"W", "X"}]
UnmapOp  == [va : Windows, level : 0 .. 3, tables : [0 .. 3 -> Pages]]

Bare      == {"boot", "root", "failed"}
Building  == {"map_boot_ram", "map_page", "verify"}
Mapping   == {"map", "roll_back", "roll_back_invalidate", "roll_back_release"}
Unmapping == {"unmap_invalidate", "reclaim", "reclaim_invalidate", "reclaim_release"}
Running   == {"idle", "invalidate"} \cup Mapping \cup Unmapping

(* Who holds which page: PagesHaveOneOwner, and the tables of table_pages  *)
(* are the ones in memory.                                                 *)
Ownership ==
  /\ table_pages \in Seq(Pages) /\ IsInjective(table_pages) /\ Len(table_pages) <= MAX_TABLES
  /\ DOMAIN mem = Range(table_pages) /\ (table_pages = <<>> => mem = <<>>)
  /\ owned \subseteq Pages
  /\ allocated = Range(table_pages) \cup owned
  /\ Range(table_pages) \cap owned = {}

EntriesOK(m) == \A t \in DOMAIN m : \A i \in DOMAIN m[t] : m[t][i] \in Entries

(* What each stage of paging_init has and has not done yet.                *)
Stages ==
  /\ pc \in Bare \cup {"discard"} \cup Building \cup Running
  /\ active \in BOOLEAN /\ (active <=> pc \in Running)
  /\ paging_root \in Pages
  /\ ready <=> pc # "boot"
  /\ ready => boot_info \in BootInfos /\ valid_map_ranges(boot_info)
  /\ ready => eligible = mark_usable_pages(boot_info) \ reserve_boot_regions(boot_info)
  /\ pc \in Bare => table_pages = <<>>
  /\ ~active => owned = {} /\ cached = NothingCached

(* The table that an operation has unlinked and not yet released.          *)
Detached ==
  CASE pc \in {"roll_back_invalidate", "roll_back_release"} -> {Last(op.created).child}
    [] pc \in {"reclaim_invalidate", "reclaim_release"} -> {op.tables[op.level]}
    [] OTHER -> {}

(* The loops of map_page and paging_map have reached op.table.             *)
AtTable(depth, route) ==
  /\ op.table \in DOMAIN mem /\ depth[op.table] = op.level - 1
  /\ On(op.table, op.va, depth, route)

(* A table that a paging_map has made, on the walk of its address.         *)
MadeAt(made, m, va, depth, route) ==
  /\ made.table \in DOMAIN m /\ made.child \in DOMAIN m
  /\ depth[made.child] = depth[made.table] + 1
  /\ On(made.table, va, depth, route) /\ On(made.child, va, depth, route)
  /\ made.index = va[depth[made.child]]

(* The next one is one level down, and this one holds at most its link.    *)
MadeAbove(made, next, m, va, depth) ==
  /\ depth[next.child] = depth[made.child] + 1
  /\ DOMAIN m[made.child] \subseteq {va[depth[made.child] + 1]}

(* The table above the first one has an entry of its own.                  *)
MadeFirst(made, m, depth) ==
  depth[made.table] = 0 \/ \E i \in DOMAIN m[made.table] : i # made.index

(* The tables that a paging_map has made, one below the other; the last    *)
(* one is empty.                                                           *)
Chain(s, m, va, depth, route) ==
  /\ \A k \in 1 .. Len(s) : MadeAt(s[k], m, va, depth, route)
  /\ \A k \in 1 .. Len(s) : k < Len(s) => MadeAbove(s[k], s[k + 1], m, va, depth)
  /\ s # <<>> => DOMAIN m[s[Len(s)].child] = {} /\ MadeFirst(s[1], m, depth)

MadeChain(depth, route) == Chain(op.created, mem, op.va, depth, route)

OpOK(depth, route) ==
  /\ pc = "map_page" =>
       /\ op \in BuildOp /\ op.todo # <<>> /\ Head(op.todo) \in Pages
       /\ op.va = identity(Head(op.todo))
       /\ AtTable(depth, route)
  /\ pc \in Mapping => op \in MapOp /\ op.page \in owned /\ MadeChain(depth, route)
  /\ pc = "map" =>
       /\ AtTable(depth, route)
       /\ op.created # <<>> => Last(op.created).child = op.table
  /\ pc \in {"roll_back_invalidate", "roll_back_release"} => op.created # <<>>
  /\ pc \in Unmapping =>
       /\ op \in UnmapOp
       /\ \A l \in 0 .. op.level : /\ op.tables[l] \in DOMAIN mem /\ depth[op.tables[l]] = l
                                   /\ On(op.tables[l], op.va, depth, route)
  /\ pc \in {"reclaim_invalidate", "reclaim_release"} => op.level > 0
  /\ pc = "invalidate" => op.va \in Windows

(* What the CPU has cached: a pointer to a table that lies where the walk  *)
(* found it and is not being released, or a leaf entry that is still there *)
(* or about to be invalidated.                                             *)
CacheOK(depth, route) ==
  LET n == Len(cached.prefix) IN
  /\ cached.prefix \in Seq(Nat) /\ n <= 4
  /\ n > 0 => \E va \in Windows : cached.prefix = SubSeq(va, 1, n)
  /\ n \in 1 .. 3 =>
       /\ cached.page \in DOMAIN mem /\ depth[cached.page] = n
       /\ On(cached.page, cached.prefix, depth, route)
       /\ cached.flags = {"W", "X"}
       /\ pc \in {"roll_back_release", "reclaim_release"} => cached.page \notin Detached
  /\ n = 4 =>
       \/ pc \in {"invalidate", "unmap_invalidate"} /\ cached.prefix = op.va
       \/ LeafEntry(mem, depth, route, cached.prefix) = {entry(cached.page, cached.flags)}

(* The leaf entries of the window: pages of the callers, at addresses of   *)
(* the window.                                                             *)
WindowOK(depth, route) ==
  /\ \A t \in DOMAIN mem : depth[t] = 3 /\ route[t][1] = DYNAMIC =>
       \A i \in DOMAIN mem[t] :
         /\ mem[t][i].page \in owned
         /\ \E va \in Windows : On(t, va, depth, route) /\ va[4] = i
  /\ ~active => \A t \in DOMAIN mem : depth[t] > 0 => route[t][1] = 0

(* The tables an operation may leave empty until it has finished.          *)
Children(s) == {s[k].child : k \in 1 .. Len(s)}
PathTables(tables, level) == {tables[l] : l \in 0 .. level}

Pending ==
  CASE pc \in Mapping -> Children(op.created)
    [] pc \in Unmapping -> PathTables(op.tables, op.level)
    [] OTHER -> {}

(* Every other table of the window holds something.                        *)
NoneEmpty(depth, route) ==
  \A t \in DOMAIN mem \ Pending :
    depth[t] > 0 /\ route[t][1] = DYNAMIC => DOMAIN mem[t] # {}

(* The pages map_boot_ram visits.                                          *)
Visited == Range(boot_ram(boot_info))

(* The entry of an identity-mapped page.                                   *)
Found(depth, route, page) == LeafEntry(mem, depth, route, identity(page))

(* The identity map: what is mapped while paging_init goes through the     *)
(* boot RAM, and after it has removed the guards.                          *)
IdentityOK(depth, route) ==
  /\ \A page \in Pages : Found(depth, route, page) # {} =>
       Found(depth, route, page) = {entry(page, identity_flags(page))} /\ page \in Visited
  /\ pc = "map_page" => /\ Range(op.todo) \subseteq Visited
                        /\ \A page \in Visited \ Range(op.todo) :
                             page \in Pages /\ Found(depth, route, page) # {}
  /\ pc = "verify" => \A page \in Visited : page \in Pages /\ Found(depth, route, page) # {}
  /\ active => /\ Visited \subseteq Pages
               /\ \A page \in Visited \ guards(boot_info) : Found(depth, route, page) # {}
               /\ \A page \in guards(boot_info) : page \in Pages /\ Found(depth, route, page) = {}

Tree(depth, route) ==
  /\ Shape(mem, paging_root, depth, route)
  /\ Attached(mem, paging_root, depth, route, Detached)
  /\ OpOK(depth, route)
  /\ CacheOK(depth, route)
  /\ WindowOK(depth, route)
  /\ NoneEmpty(depth, route)
  /\ IdentityOK(depth, route)

PagingInv ==
  /\ PmmInv /\ Ownership /\ EntriesOK(mem) /\ Stages
  /\ pc \in Building \cup Running => \E depth, route : Tree(depth, route)
-----------------------------------------------------------------------------
(* The page allocator as paging.c uses it.                                 *)

(* pmm_alloc hands out a page that nobody holds.                           *)
LEMMA AllocFresh ==
  ASSUME PmmInv, NEW page \in Pages, pmm_alloc(page)
  PROVE  /\ PmmInv' /\ page \notin allocated /\ allocated' = allocated \cup {page}
         /\ UNCHANGED <<eligible, ready, boot_info>>
<1>1. page \notin allocated
  BY DEF pmm_alloc, alloc_finds, first_free, is_free
<1>. QED
  BY <1>1, AllocStep DEF pmm_alloc

(* pmm_free takes an allocated page back.                                  *)
LEMMA FreeHeld ==
  ASSUME PmmInv, ready, NEW page \in allocated, pmm_free(page * PMM_PAGE_SIZE)
  PROVE  /\ PmmInv' /\ allocated' = allocated \ {page}
         /\ UNCHANGED <<eligible, ready, boot_info>>
<1>1. page \in Pages /\ page \in eligible /\ PMM_PAGE_SIZE \in Nat \ {0} /\ PAGE_COUNT \in Nat
  BY PmmAssumption DEF PmmInv, PmmTypeOK, PagesAccounted
<1>2. page \in Nat /\ page + 1 <= PAGE_COUNT
  BY <1>1 DEF Pages
<1>. DEFINE s == PMM_PAGE_SIZE
            address == page * s
<1>. HIDE DEF s
<1>3. s \in Nat \ {0} /\ PMM_LIMIT = PAGE_COUNT * s /\ PMM_LIMIT + s <= UINT64_MAX /\ UINT64_MAX \in Nat
  BY <1>1, PmmAssumption DEF s, PMM_LIMIT
<1>4. address \in Nat /\ address \div s = page /\ address % s = 0
  BY <1>2, <1>3, SMTT(20)
<1>5. address < PMM_LIMIT /\ PMM_LIMIT \in Nat
  <2>1. (page + 1) * s <= PAGE_COUNT * s /\ (page + 1) * s = address + s /\ PAGE_COUNT * s \in Int
    BY <1>1, <1>2, <1>3, PageOrder
  <2>. HIDE DEF address
  <2>. QED
    BY <1>3, <1>4, <2>1
<1>. HIDE DEF address
<1>6. address \in U64
  BY <1>3, <1>4, <1>5 DEF U64
<1>7. pmm_free(address)
  BY DEF address, s
<1>8. PmmInv'
  BY <1>6, <1>7, FreeStep
<1>9. address \div PMM_PAGE_SIZE = page /\ address % PMM_PAGE_SIZE = 0
  BY <1>4 DEF s
<1>10. frees(address)
  BY <1>1, <1>5, <1>9 DEF frees
<1>. QED
  BY <1>7, <1>8, <1>9, <1>10 DEF pmm_free

-----------------------------------------------------------------------------
(* table_pages as a set of pages.                                          *)

(* new_table appends a page that was not there.                            *)
LEMMA AppendTable ==
  ASSUME NEW s \in Seq(Pages), IsInjective(s), NEW page \in Pages \ Range(s),
         NEW s2, s2 = Append(s, page)
  PROVE  /\ s2 \in Seq(Pages) /\ IsInjective(s2) /\ Len(s2) = Len(s) + 1 /\ s2 # <<>>
         /\ Range(s2) = Range(s) \cup {page}
<1>1. /\ s2 \in Seq(Pages) /\ Len(s2) = Len(s) + 1 /\ Len(s) \in Nat /\ s2 # <<>>
      /\ \A i \in 1 .. Len(s) : s2[i] = s[i]
      /\ s2[Len(s) + 1] = page
      /\ DOMAIN s = 1 .. Len(s) /\ DOMAIN s2 = 1 .. Len(s) + 1
  BY AppendProperties, LenProperties
<1>2. IsInjective(s2)
  BY <1>1 DEF IsInjective, Range
<1>3. Range(s2) = Range(s) \cup {page}
  BY <1>1 DEF Range
<1>. QED
  BY <1>1, <1>2, <1>3

(* The loop of discard_page_tables removes the last page.                  *)
LEMMA RemoveLast ==
  ASSUME NEW S, NEW s \in Seq(S), s # <<>>, NEW s2, s2 = Front(s), NEW n \in Nat, n = Len(s)
  PROVE  /\ n \in Nat \ {0} /\ s2 \in Seq(S) /\ Len(s2) = n - 1
         /\ DOMAIN s = 1 .. n /\ DOMAIN s2 = 1 .. n - 1
         /\ \A i \in 1 .. n - 1 : s2[i] = s[i]
         /\ Last(s) = s[n] /\ s[n] \in S
<1>1. n \in Nat \ {0} /\ DOMAIN s = 1 .. n /\ \A i \in 1 .. n : s[i] \in S
  BY EmptySeq, LenProperties, ElementOfSeq
<1>2. s2 = SubSeq(s, 1, n - 1)
  BY DEF Front
<1>3. \A i \in 1 .. n - 1 : s[i] \in S
  BY <1>1
<1>4. /\ s2 \in Seq(S) /\ Len(s2) = (IF 1 <= n - 1 THEN (n - 1) - 1 + 1 ELSE 0)
      /\ \A i \in 1 .. (n - 1) - 1 + 1 : s2[i] = s[1 + i - 1]
  BY <1>1, <1>2, <1>3, SubSeqProperties
<1>5. Len(s2) = n - 1
  BY <1>1, <1>4
<1>6. \A i \in 1 .. n - 1 : s2[i] = s[i]
  <2>1. \A i \in 1 .. n - 1 : 1 + i - 1 = i /\ (n - 1) - 1 + 1 = n - 1
    BY <1>1
  <2>. QED
    BY <1>1, <1>4, <2>1
<1>7. DOMAIN s2 = 1 .. n - 1
  BY <1>4, <1>5, LenProperties
<1>. QED
  BY <1>1, <1>4, <1>5, <1>6, <1>7 DEF Last

(* The first m places of r are those of s, with place n moved to place i.  *)
Moved(s, n, i, r, m) == \A j \in 1 .. m : r[j] = IF j = i THEN s[n] ELSE s[j]

(* Removing one place of a list without repetitions removes its page, when *)
(* the last page takes that place.                                         *)
LEMMA Compact ==
  ASSUME NEW n \in Nat \ {0}, NEW s, NEW s2, NEW i \in 1 .. n,
         DOMAIN s = 1 .. n, DOMAIN s2 = 1 .. n - 1, IsInjective(s), Moved(s, n, i, s2, n - 1)
  PROVE  IsInjective(s2) /\ Range(s2) = Range(s) \ {s[i]}
<1>1. IsInjective(s2)
  BY DEF IsInjective, Moved
<1>2. ASSUME NEW j \in 1 .. n - 1
      PROVE  s2[j] \in Range(s) \ {s[i]}
  BY DEF IsInjective, Range, Moved
<1>3. ASSUME NEW j \in 1 .. n, s[j] # s[i]
      PROVE  s[j] \in Range(s2)
  <2>1. CASE j = n
    <3>1. i \in 1 .. n - 1 /\ s2[i] = s[j]
      BY <1>3, <2>1 DEF Moved
    <3>. QED
      BY <3>1 DEF Range
  <2>2. CASE j # n
    <3>1. j \in 1 .. n - 1 /\ s2[j] = s[j]
      BY <1>3, <2>2 DEF Moved
    <3>. QED
      BY <3>1 DEF Range
  <2>. QED
    BY <2>1, <2>2
<1>4. Range(s2) \subseteq Range(s) \ {s[i]}
  BY <1>2 DEF Range
<1>5. Range(s) \ {s[i]} \subseteq Range(s2)
  <2>. SUFFICES ASSUME NEW x \in Range(s) \ {s[i]}
                PROVE  x \in Range(s2)
    OBVIOUS
  <2>1. PICK j \in 1 .. n : x = s[j]
    BY DEF Range
  <2>. QED
    BY <1>3, <2>1
<1>. QED
  BY <1>1, <1>4, <1>5

(* release_table moves the last page to the place of the released one.     *)
LEMMA RemoveTable ==
  ASSUME NEW s \in Seq(Pages), IsInjective(s), NEW i \in DOMAIN s
  PROVE  LET s2 == Front([s EXCEPT ![i] = Last(s)])
         IN  /\ s2 \in Seq(Pages) /\ IsInjective(s2) /\ Len(s2) = Len(s) - 1
             /\ Range(s2) = Range(s) \ {s[i]}
<1>1. PICK n \in Nat : n = Len(s)
  BY LenProperties
<1>2. DOMAIN s = 1 .. n
  BY <1>1, LenProperties
<1>3. n \in Nat \ {0} /\ i \in 1 .. n /\ n \in 1 .. n
  BY <1>2
<1>4. s[n] \in Pages
  BY <1>1, <1>3, ElementOfSeq
<1>5. PICK r : r = [s EXCEPT ![i] = s[n]]
  OBVIOUS
<1>6. PICK s2 : s2 = Front(r)
  OBVIOUS
<1>7. r \in Seq(Pages) /\ n = Len(r) /\ Moved(s, n, i, r, n)
  BY <1>1, <1>3, <1>4, <1>5, ExceptSeq DEF Moved
<1>8. r # <<>>
  BY <1>3, <1>7, EmptySeq
<1>9. /\ s2 \in Seq(Pages) /\ Len(s2) = n - 1 /\ DOMAIN s2 = 1 .. n - 1
      /\ \A j \in 1 .. n - 1 : s2[j] = r[j]
  BY <1>6, <1>7, <1>8, RemoveLast
<1>10. Moved(s, n, i, s2, n - 1)
  <2>1. \A j \in 1 .. n - 1 : j \in 1 .. n
    OBVIOUS
  <2>. QED
    BY <1>7, <1>9, <2>1 DEF Moved
<1>11. IsInjective(s2) /\ Range(s2) = Range(s) \ {s[i]}
  BY <1>2, <1>3, <1>9, <1>10, Compact
<1>12. s2 = Front([s EXCEPT ![i] = Last(s)])
  BY <1>1, <1>5, <1>6 DEF Last
<1>. QED
  BY <1>1, <1>9, <1>11, <1>12

(* The same for the last page.                                             *)
LEMMA RemoveLastTable ==
  ASSUME NEW s \in Seq(Pages), IsInjective(s), s # <<>>, NEW s2, s2 = Front(s)
  PROVE  /\ s2 \in Seq(Pages) /\ IsInjective(s2) /\ Len(s2) = Len(s) - 1
         /\ Range(s2) = Range(s) \ {Last(s)} /\ Last(s) \in Range(s)
<1>1. PICK n \in Nat : n = Len(s)
  BY LenProperties
<1>2. /\ n \in Nat \ {0} /\ s2 \in Seq(Pages) /\ Len(s2) = n - 1
      /\ DOMAIN s = 1 .. n /\ DOMAIN s2 = 1 .. n - 1
      /\ \A i \in 1 .. n - 1 : s2[i] = s[i]
      /\ Last(s) = s[n]
  BY <1>1, RemoveLast
<1>3. n \in 1 .. n /\ Moved(s, n, n, s2, n - 1)
  BY <1>2 DEF Moved
<1>4. IsInjective(s2) /\ Range(s2) = Range(s) \ {s[n]}
  BY <1>2, <1>3, Compact
<1>. QED
  BY <1>1, <1>2, <1>3, <1>4 DEF Range
-----------------------------------------------------------------------------
(* What a step carries over.                                               *)

(* Two memories hold the same leaf entries in the same places.             *)
LeavesIn(m, depth, route, m2, depth2, route2) ==
  \A t \in DOMAIN m : depth[t] = 3 /\ DOMAIN m[t] # {} =>
    t \in DOMAIN m2 /\ depth2[t] = 3 /\ route2[t] = route[t] /\ m2[t] = m[t]

SameLeaves(m, depth, route, m2, depth2, route2) ==
  /\ LeavesIn(m, depth, route, m2, depth2, route2)
  /\ LeavesIn(m2, depth2, route2, m, depth, route)

(* One half of SameEntries.                                                *)
LEMMA EntriesIn ==
  ASSUME NEW m, NEW depth, NEW route, NEW m2, NEW depth2, NEW route2, NEW va,
         LeavesIn(m, depth, route, m2, depth2, route2)
  PROVE  LeafEntry(m, depth, route, va) \subseteq LeafEntry(m2, depth2, route2, va)
<1>. SUFFICES ASSUME NEW x \in LeafEntry(m, depth, route, va)
              PROVE  x \in LeafEntry(m2, depth2, route2, va)
  OBVIOUS
<1>1. PICK t \in TablesOn(m, depth, route, 3, va) : va[4] \in DOMAIN m[t] /\ x = m[t][va[4]]
  BY DEF LeafEntry
<1>2. t \in DOMAIN m2 /\ depth2[t] = 3 /\ route2[t] = route[t] /\ m2[t] = m[t]
  BY <1>1 DEF TablesOn, LeavesIn
<1>3. t \in TablesOn(m2, depth2, route2, 3, va)
  BY <1>1, <1>2 DEF TablesOn, On
<1>. QED
  BY <1>1, <1>2, <1>3 DEF LeafEntry

(* Then every walk ends at the same entry.                                 *)
LEMMA SameEntries ==
  ASSUME NEW m, NEW depth, NEW route, NEW m2, NEW depth2, NEW route2,
         SameLeaves(m, depth, route, m2, depth2, route2)
  PROVE  \A va : LeafEntry(m2, depth2, route2, va) = LeafEntry(m, depth, route, va)
BY EntriesIn DEF SameLeaves

(* The walk of the model is the walk of this module.                       *)
LEMMA WalkIs ==
  ASSUME NEW va
  PROVE  /\ walk(va) = Walk(mem, paging_root, va)
         /\ leaf(va) = Walk(mem, paging_root, va)[4]
<1>1. /\ pml4e(va) = Step(mem, {link(paging_root)}, va[1])
      /\ pdpte(va) = Step(mem, pml4e(va), va[2])
      /\ pde(va) = Step(mem, pdpte(va), va[3])
      /\ leaf(va) = Step(mem, pde(va), va[4])
  BY Zenon DEF pml4e, pdpte, pde, leaf, below, Step
<1>2. walk(va) = Walk(mem, paging_root, va)
  BY <1>1, Zenon DEF walk, Walk
<1>3. leaf(va) = walk(va)[4]
  BY DEF walk
<1>. QED
  BY <1>2, <1>3

(* What a query finds.                                                     *)
LEMMA LeafFound ==
  ASSUME NEW depth, NEW route, Tree(depth, route), NEW va
  PROVE  leaf(va) = LeafEntry(mem, depth, route, va)
<1>1. Shape(mem, paging_root, depth, route) /\ Attached(mem, paging_root, depth, route, Detached)
  BY DEF Tree
<1>2. Walk(mem, paging_root, va)[4] = LeafEntry(mem, depth, route, va)
  BY <1>1, WalkFinds
<1>. QED
  BY <1>2, WalkIs

(* The same after a step.                                                  *)
LEMMA WalkWillBe ==
  ASSUME NEW va
  PROVE  leaf(va)' = Walk(mem', paging_root', va)[4]
<1>1. /\ pml4e(va)' = Step(mem', {link(paging_root')}, va[1])
      /\ pdpte(va)' = Step(mem', pml4e(va)', va[2])
      /\ pde(va)' = Step(mem', pdpte(va)', va[3])
      /\ leaf(va)' = Step(mem', pde(va)', va[4])
  BY Zenon DEF pml4e, pdpte, pde, leaf, below, Step
<1>2. Walk(mem', paging_root', va)
        = <<pml4e(va)', pdpte(va)', pde(va)', leaf(va)'>>
  BY <1>1, Zenon DEF Walk
<1>. QED
  BY <1>2

(* What a query will find.                                                 *)
LEMMA LeafWillBe ==
  ASSUME NEW depth, NEW route, Tree(depth, route)', NEW va
  PROVE  leaf(va)' = LeafEntry(mem', depth, route, va)
<1>1. /\ Shape(mem', paging_root', depth, route)
      /\ Attached(mem', paging_root', depth, route, Detached')
  BY DEF Tree
<1>2. Walk(mem', paging_root', va)[4] = LeafEntry(mem', depth, route, va)
  BY <1>1, WalkFinds
<1>. QED
  BY <1>2, WalkWillBe

(* A step that no query of an address of the window notices, and one that  *)
(* at most the queries of one address notice.                              *)
Unseen == \A va \in Windows : leaf(va)' = leaf(va)
SeenAt(va) == \A other \in Windows \ {va} : leaf(other)' = leaf(other)

(* A step that changes links only.                                         *)
LEMMA LinksUnseen ==
  ASSUME NEW depth, NEW route, NEW depth2, NEW route2, Tree(depth, route), Tree(depth2, route2)',
         SameLeaves(mem, depth, route, mem', depth2, route2)
  PROVE  Unseen
<1>1. \A va : LeafEntry(mem', depth2, route2, va) = LeafEntry(mem, depth, route, va)
  BY SameEntries
<1>2. \A va : leaf(va) = LeafEntry(mem, depth, route, va)
  BY LeafFound
<1>3. \A va : leaf(va)' = LeafEntry(mem', depth2, route2, va)
  BY LeafWillBe
<1>. QED
  BY <1>1, <1>2, <1>3 DEF Unseen

(* A step that changes no table.                                           *)
LEMMA NoStoreUnseen ==
  ASSUME mem' = mem, paging_root' = paging_root
  PROVE  Unseen
<1>1. \A va : leaf(va)' = Walk(mem', paging_root', va)[4] /\ leaf(va) = Walk(mem, paging_root, va)[4]
  BY WalkIs, WalkWillBe
<1>. QED
  BY <1>1 DEF Unseen

(* Ghosts that agree on the tables in use.                                 *)
Extends(m, depth, route, m2, depth2, route2) ==
  /\ DOMAIN m \subseteq DOMAIN m2
  /\ \A t \in DOMAIN m : depth2[t] = depth[t] /\ route2[t] = route[t]

(* The cache when tables are added or unlinked.                            *)
LEMMA CacheKept ==
  ASSUME NEW depth, NEW route, NEW depth2, NEW route2,
         CacheOK(depth, route), cached' = cached,
         Extends(mem, depth, route, mem', depth2, route2),
         SameLeaves(mem, depth, route, mem', depth2, route2),
         pc \notin {"invalidate", "unmap_invalidate"},
         pc' \notin {"roll_back_release", "reclaim_release"}
  PROVE  CacheOK(depth2, route2)'
<1>1. \A va : LeafEntry(mem', depth2, route2, va) = LeafEntry(mem, depth, route, va)
  BY SameEntries
<1>. DEFINE n == Len(cached.prefix)
<1>2. n \in 1 .. 3 => /\ cached.page \in DOMAIN mem' /\ depth2[cached.page] = n
                      /\ On(cached.page, cached.prefix, depth2, route2)
                      /\ cached.flags = {"W", "X"}
  BY DEF CacheOK, Extends, On
<1>3. n = 4 => LeafEntry(mem', depth2, route2, cached.prefix) = {entry(cached.page, cached.flags)}
  BY <1>1 DEF CacheOK
<1>. QED
  BY <1>2, <1>3 DEF CacheOK

(* The window when no leaf entry changes.                                  *)
LEMMA WindowKept ==
  ASSUME NEW depth, NEW route, NEW depth2, NEW route2,
         WindowOK(depth, route), SameLeaves(mem, depth, route, mem', depth2, route2),
         owned \subseteq owned',
         active' \/ \A t \in DOMAIN mem' : depth2[t] > 0 => route2[t][1] = 0
  PROVE  WindowOK(depth2, route2)'
<1>1. ASSUME NEW t \in DOMAIN mem', depth2[t] = 3, route2[t][1] = DYNAMIC, NEW i \in DOMAIN mem'[t]
      PROVE  /\ mem'[t][i].page \in owned'
             /\ \E va \in Windows : On(t, va, depth2, route2) /\ va[4] = i
  <2>1. t \in DOMAIN mem /\ depth[t] = 3 /\ route2[t] = route[t] /\ mem'[t] = mem[t]
    BY <1>1 DEF SameLeaves, LeavesIn
  <2>2. /\ mem[t][i].page \in owned
        /\ \E va \in Windows : On(t, va, depth, route) /\ va[4] = i
    BY <1>1, <2>1 DEF WindowOK
  <2>3. depth2[t] = depth[t]
    BY <1>1, <2>1
  <2>. QED
    BY <2>1, <2>2, <2>3 DEF On
<1>2. ~active' => \A t \in DOMAIN mem' : depth2[t] > 0 => route2[t][1] = 0
  OBVIOUS
<1>. QED
  BY <1>1, <1>2 DEF WindowOK

(* The identity map when no leaf entry changes.                            *)
LEMMA IdentityKept ==
  ASSUME NEW depth, NEW route, NEW depth2, NEW route2,
         IdentityOK(depth, route), SameLeaves(mem, depth, route, mem', depth2, route2),
         boot_info' = boot_info, active' = active,
         pc' = "map_page" => pc = "map_page" /\ op'.todo = op.todo,
         pc' = "verify" => pc = "verify"
  PROVE  IdentityOK(depth2, route2)'
<1>1. \A page : Found(depth2, route2, page)' = Found(depth, route, page)
  BY SameEntries DEF Found
<1>2. Visited' = Visited /\ guards(boot_info)' = guards(boot_info)
  BY DEF Visited
<1>. HIDE DEF Found, Visited, guards
<1>. QED
  BY <1>1, <1>2 DEF IdentityOK
-----------------------------------------------------------------------------
(* new_table and release_table.                                            *)

(* A page that new_table takes was nobody's, and one owner has it after.   *)
LEMMA NewTable ==
  ASSUME PmmInv, Ownership, NEW page \in Pages, new_table(page),
         DOMAIN mem' = DOMAIN mem \cup {page}, owned' = owned
  PROVE  /\ PmmInv' /\ Ownership' /\ page \notin DOMAIN mem /\ page \notin owned
         /\ UNCHANGED <<eligible, ready, boot_info>>
<1>1. /\ PmmInv' /\ page \notin allocated /\ allocated' = allocated \cup {page}
      /\ UNCHANGED <<eligible, ready, boot_info>>
  BY AllocFresh DEF new_table
<1>2. page \notin Range(table_pages) /\ page \notin owned /\ table_pages \in Seq(Pages)
  BY <1>1 DEF Ownership
<1>3. /\ table_pages' \in Seq(Pages) /\ IsInjective(table_pages')
      /\ Len(table_pages') = Len(table_pages) + 1 /\ table_pages' # <<>>
      /\ Range(table_pages') = Range(table_pages) \cup {page}
  BY <1>2, AppendTable DEF Ownership, new_table
<1>4. Len(table_pages) \in Nat /\ MAX_TABLES \in Nat
  BY <1>2, LenProperties, PagingAssumption
<1>5. Len(table_pages') <= MAX_TABLES
  BY <1>3, <1>4 DEF Ownership, new_table
<1>. QED
  BY <1>1, <1>2, <1>3, <1>5 DEF Ownership

(* The place of a table in table_pages.                                    *)
LEMMA ReleasedPages ==
  ASSUME Ownership, NEW page \in DOMAIN mem, release_table(page)
  PROVE  /\ table_pages' \in Seq(Pages) /\ IsInjective(table_pages')
         /\ Len(table_pages') = Len(table_pages) - 1
         /\ Range(table_pages') = Range(table_pages) \ {page}
<1>. DEFINE i == CHOOSE k \in DOMAIN table_pages : table_pages[k] = page
<1>1. \E k \in DOMAIN table_pages : table_pages[k] = page
  BY DEF Ownership, Range
<1>2. i \in DOMAIN table_pages /\ table_pages[i] = page
  BY <1>1
<1>3. table_pages' = Front([table_pages EXCEPT ![i] = Last(table_pages)])
  BY DEF release_table
<1>. HIDE DEF i
<1>. QED
  BY <1>2, <1>3, RemoveTable DEF Ownership

(* release_table gives one table page back and forgets its table.          *)
LEMMA ReleaseTable ==
  ASSUME PmmInv, ready, Ownership, NEW page \in DOMAIN mem, release_table(page), owned' = owned
  PROVE  /\ PmmInv' /\ Ownership'
         /\ mem' = Released(mem, {page})
         /\ UNCHANGED <<eligible, ready, boot_info>>
<1>1. page \in allocated /\ page \in Pages /\ page \notin owned
  BY DEF Ownership, PmmInv, PmmTypeOK
<1>2. /\ PmmInv' /\ allocated' = allocated \ {page} /\ UNCHANGED <<eligible, ready, boot_info>>
  BY <1>1, FreeHeld DEF release_table
<1>3. /\ table_pages' \in Seq(Pages) /\ IsInjective(table_pages')
      /\ Len(table_pages') = Len(table_pages) - 1
      /\ Range(table_pages') = Range(table_pages) \ {page}
  BY ReleasedPages
<1>4. mem' = Released(mem, {page})
  BY DEF release_table, Released
<1>5. DOMAIN mem' = DOMAIN mem \ {page}
  BY <1>4 DEF Restrict, Released
<1>6. Len(table_pages') <= MAX_TABLES
  BY <1>3, LenProperties, PagingAssumption DEF Ownership
<1>7. table_pages' = <<>> => mem' = <<>>
  <2>1. table_pages' = <<>> => DOMAIN mem' = {}
    BY <1>3, <1>5 DEF Ownership, Range
  <2>. QED
    BY <1>4, <2>1 DEF Restrict, Released
<1>8. allocated' = Range(table_pages') \cup owned' /\ Range(table_pages') \cap owned' = {}
  BY <1>1, <1>2, <1>3 DEF Ownership
<1>. QED
  BY <1>2, <1>3, <1>4, <1>5, <1>6, <1>7, <1>8 DEF Ownership

(* Nothing changes for the allocator and its pages.                        *)
LEMMA OwnershipKept ==
  ASSUME PmmInv, Ownership, UNCHANGED <<pmmVars, table_pages, owned>>,
         DOMAIN mem' = DOMAIN mem, table_pages = <<>> => mem' = mem
  PROVE  PmmInv' /\ Ownership' /\ UNCHANGED <<eligible, ready, boot_info>>
<1>1. PmmInv'
  BY DEF PmmInv, PmmTypeOK, PagesAccounted, CursorBelowFree, UntouchedBeforeInit, pmmVars
<1>2. Ownership'
  BY DEF Ownership, pmmVars
<1>. QED
  BY <1>1, <1>2 DEF pmmVars

(* A step inside one stage of paging_init or of the running kernel.        *)
LEMMA StagesKept ==
  ASSUME Stages, UNCHANGED <<eligible, ready, boot_info, active, paging_root>>,
         pc' \in {"discard"} \cup Building \cup Running, pc # "boot",
         pc \in Running <=> pc' \in Running,
         ~active => UNCHANGED <<owned, cached>>
  PROVE  Stages'
<1>1. pc' \notin Bare /\ pc' # "boot"
  BY DEF Bare, Building, Running, Mapping, Unmapping
<1>. QED
  BY <1>1 DEF Stages

-----------------------------------------------------------------------------
(* The loops of map_page and paging_map.                                   *)

(* The local variables of map_page and paging_map as they change.          *)
Down(o, level, table) == [o EXCEPT !.level = level, !.table = table]
DownNew(o, level, table, created) == [o EXCEPT !.level = level, !.table = table, !.created = created]
Undone(o, created) == [o EXCEPT !.created = created]
Up(o, level) == [o EXCEPT !.level = level]

(* map_page goes one level down.                                           *)
LEMMA BuildDown ==
  ASSUME NEW o \in BuildOp, NEW level \in 1 .. 4, NEW table \in Pages
  PROVE  LET p == Down(o, level, table)
         IN  /\ p \in BuildOp
             /\ p.va = o.va /\ p.level = level /\ p.table = table /\ p.created = o.created
             /\ p.todo = o.todo
BY DEF BuildOp, Down

(* paging_map goes one level down.                                         *)
LEMMA MapDown ==
  ASSUME NEW o \in MapOp, NEW level \in 1 .. 4, NEW table \in Pages
  PROVE  LET p == Down(o, level, table)
         IN  /\ p \in MapOp
             /\ p.va = o.va /\ p.level = level /\ p.table = table /\ p.created = o.created
             /\ p.page = o.page /\ p.flags = o.flags
BY DEF MapOp, Down

(* map_page goes down through a table it just made.                        *)
LEMMA BuildDownNew ==
  ASSUME NEW o \in BuildOp, NEW level \in 1 .. 4, NEW table \in Pages, NEW created \in Seq(Made)
  PROVE  LET p == DownNew(o, level, table, created)
         IN  /\ p \in BuildOp
             /\ p.va = o.va /\ p.level = level /\ p.table = table /\ p.created = created
             /\ p.todo = o.todo
BY DEF BuildOp, DownNew

(* paging_map goes down through a table it just made.                      *)
LEMMA MapDownNew ==
  ASSUME NEW o \in MapOp, NEW level \in 1 .. 4, NEW table \in Pages, NEW created \in Seq(Made)
  PROVE  LET p == DownNew(o, level, table, created)
         IN  /\ p \in MapOp
             /\ p.va = o.va /\ p.level = level /\ p.table = table /\ p.created = created
             /\ p.page = o.page /\ p.flags = o.flags
BY DEF MapOp, DownNew

(* The roll-back of paging_map forgets the last table it made.             *)
LEMMA MapUndone ==
  ASSUME NEW o \in MapOp, NEW created \in Seq(Made)
  PROVE  LET p == Undone(o, created)
         IN  /\ p \in MapOp
             /\ p.va = o.va /\ p.level = o.level /\ p.table = o.table /\ p.created = created
             /\ p.page = o.page /\ p.flags = o.flags
BY DEF MapOp, Undone

(* The reclaim loop of paging_unmap goes one level up.                     *)
LEMMA UnmapUp ==
  ASSUME NEW o \in UnmapOp, NEW level \in 0 .. 3
  PROVE  LET p == Up(o, level)
         IN  p \in UnmapOp /\ p.va = o.va /\ p.level = level /\ p.tables = o.tables
BY DEF UnmapOp, Up

(* The operation, but for its level and table, is where it was.            *)
LEMMA DownOp ==
  ASSUME NEW label \in {"map_page", "map"}, NEW c \in Pages, op.level \in 1 .. 3,
         label = "map_page" => op \in BuildOp,
         label = "map" => op \in MapOp,
         op' = Down(op, op.level + 1, c)
  PROVE  /\ label = "map_page" => op' \in BuildOp /\ op'.todo = op.todo
         /\ label = "map" => op' \in MapOp /\ op'.created = op.created /\ op'.page = op.page
         /\ op'.va = op.va /\ op'.level = op.level + 1 /\ op'.table = c
<1>1. op.level + 1 \in 1 .. 4
  OBVIOUS
<1>2. CASE label = "map_page"
  BY <1>1, <1>2, BuildDown
<1>3. CASE label = "map"
  BY <1>1, <1>3, MapDown
<1>. QED
  BY <1>2, <1>3

(* The table a paging_map made last: it is empty.                          *)
LEMMA LastMade ==
  ASSUME NEW s \in Seq(Made), s # <<>>, NEW m, NEW va, NEW depth, NEW route,
         Chain(s, m, va, depth, route)
  PROVE  /\ Last(s) \in Made /\ MadeAt(Last(s), m, va, depth, route)
         /\ DOMAIN m[Last(s).child] = {}
<1>1. Len(s) \in Nat \ {0} /\ Len(s) \in 1 .. Len(s)
  BY EmptySeq, LenProperties
<1>2. Last(s) = s[Len(s)]
  BY DEF Last
<1>3. s[Len(s)] \in Made
  BY <1>1, ElementOfSeq
<1>. QED
  BY <1>1, <1>2, <1>3 DEF Chain

(* One level down through a table that is there.                           *)
LEMMA DescendStep ==
  ASSUME PagingInv, NEW label \in {"map_page", "map"}, descend(label)
  PROVE  PagingInv'
<1>0. PICK c : c = mem[op.table][op.va[op.level]].page
  OBVIOUS
<1>1. /\ pc = label /\ pc' = label /\ op.level < 4
      /\ op.va[op.level] \in DOMAIN mem[op.table]
      /\ op' = Down(op, op.level + 1, c)
      /\ UNCHANGED <<pmmVars, table_pages, mem, paging_root, active, cached, owned>>
  BY <1>0 DEF descend, Down
<1>2. /\ PmmInv' /\ Ownership' /\ UNCHANGED <<eligible, ready, boot_info>>
  BY <1>1, OwnershipKept DEF PagingInv
<1>3. label \in Building \cup Running /\ label \notin Unmapping /\ label # "boot"
  BY DEF Building, Running, Mapping, Unmapping
<1>4. Stages' /\ EntriesOK(mem')
  BY <1>1, <1>2, <1>3, StagesKept DEF PagingInv
<1>5. PICK depth, route : Tree(depth, route)
  BY <1>1, <1>3 DEF PagingInv
<1>6. Detached = {} /\ Detached' = {}
  BY <1>1 DEF Detached
<1>7. /\ Shape(mem, paging_root, depth, route) /\ AtTable(depth, route)
      /\ op.level \in 1 .. 3
      /\ label = "map_page" => op \in BuildOp
      /\ label = "map" => op \in MapOp
  BY <1>1, <1>5 DEF Tree, OpOK, BuildOp, MapOp, Mapping
<1>8. c \in DOMAIN mem /\ depth[c] = op.level /\ On(c, op.va, depth, route)
  <2>1. op.table \in DOMAIN mem /\ depth[op.table] = op.level - 1 /\ On(op.table, op.va, depth, route)
    BY <1>7 DEF AtTable
  <2>2. depth[op.table] + 1 = op.level /\ depth[op.table] < 3
    BY <1>7, <2>1
  <2>. QED
    BY <1>0, <1>1, <1>7, <2>1, <2>2, ChildOn
<1>9. c \in Pages
  BY <1>7, <1>8 DEF Shape, Rooted
<1>10. /\ label = "map_page" => op' \in BuildOp /\ op'.todo = op.todo
       /\ label = "map" => op' \in MapOp /\ op'.created = op.created /\ op'.page = op.page
       /\ op'.va = op.va /\ op'.level = op.level + 1 /\ op'.table = c
  BY <1>1, <1>7, <1>9, DownOp
<1>11. AtTable(depth, route)'
  BY <1>1, <1>7, <1>8, <1>10 DEF AtTable
<1>12. OpOK(depth, route)'
  <2>1. CASE label = "map_page"
    BY <1>1, <1>5, <1>10, <1>11, <2>1 DEF Tree, OpOK, Mapping, Unmapping
  <2>2. CASE label = "map"
    <3>1. op.page \in owned /\ MadeChain(depth, route)
      BY <1>1, <1>5, <2>2 DEF Tree, OpOK, Mapping
    <3>2. MadeChain(depth, route)'
      BY <1>1, <1>10, <2>2, <3>1 DEF MadeChain
    <3>3. op.created = <<>>
      <4>1. op.created # <<>> => Last(op.created).child = op.table
        BY <1>1, <1>5, <2>2 DEF Tree, OpOK
      <4>2. op.created \in Seq(Made)
        BY <1>7, <2>2 DEF MapOp
      <4>. QED
        BY <1>1, <3>1, <4>1, <4>2, LastMade DEF MadeChain
    <3>. QED
      BY <1>1, <1>5, <1>10, <1>11, <2>2, <3>1, <3>2, <3>3 DEF Tree, OpOK, Mapping, Unmapping
  <2>. QED
    BY <2>1, <2>2
<1>13. Extends(mem, depth, route, mem', depth, route) /\ SameLeaves(mem, depth, route, mem', depth, route)
  BY <1>1 DEF Extends, SameLeaves, LeavesIn
<1>14. CacheOK(depth, route)'
  BY <1>1, <1>5, <1>13, CacheKept DEF Tree
<1>15. WindowOK(depth, route)'
  BY <1>1, <1>5 DEF Tree, WindowOK
<1>16. NoneEmpty(depth, route)'
  <2>1. Pending' = Pending
    BY <1>1, <1>3, <1>10 DEF Pending, Mapping
  <2>. QED
    BY <1>1, <1>5, <2>1 DEF Tree, NoneEmpty
<1>17. IdentityOK(depth, route)'
  BY <1>1, <1>2, <1>5, <1>10, <1>13, IdentityKept DEF Tree
<1>18. Tree(depth, route)'
  BY <1>1, <1>5, <1>6, <1>12, <1>14, <1>15, <1>16, <1>17 DEF Tree
<1>. QED
  BY <1>2, <1>4, <1>18 DEF PagingInv
-----------------------------------------------------------------------------
(* Index paths.                                                            *)

(* Dividing by the number of entries of a table.                           *)
LEMMA QuotientBound ==
  ASSUME NEW x \in Nat, NEW d \in Nat \ {0}, NEW k \in Nat, x < k * d
  PROVE  x \div d \in Nat /\ x \div d < k
<1>1. x \div d \in Nat /\ (x \div d) * d <= x
  BY SMTT(20)
<1>2. x \div d >= k => (x \div d) * d >= k * d
  BY <1>1, SMTT(20)
<1>3. (x \div d) * d \in Nat /\ k * d \in Nat
  BY <1>1, SMTT(20)
<1>. QED
  BY <1>1, <1>2, <1>3

(* A quotient and a remainder determine the dividend.                      *)
LEMMA SameQuotient ==
  ASSUME NEW x \in Nat, NEW y \in Nat, NEW d \in Nat \ {0}, x \div d = y \div d, x % d = y % d
  PROVE  x = y
<1>1. x = (x \div d) * d + (x % d) /\ y = (y \div d) * d + (y % d)
  BY SMTT(20)
<1>. QED
  BY <1>1

(* The indices of an identity-mapped page; they determine the page.        *)
LEMMA IdentityIndices ==
  ASSUME NEW page \in Pages
  PROVE  /\ identity(page) \in Seq(Nat) /\ Len(identity(page)) = 4
         /\ \A j \in 1 .. 4 : identity(page)[j] \in Nat
         /\ identity(page)[1] = 0
<1>. DEFINE d == TABLE_ENTRIES
            a == page \div d
            b == a \div d
            c == b \div d
<1>1. d \in Nat \ {0} /\ page \in Nat /\ page < d * d * d
  BY PagingAssumption, PmmAssumption DEF Pages
<1>2. identity(page) = <<c, b % d, a % d, page % d>>
  BY DEF identity
<1>. HIDE DEF d
<1>3. d * d * d \in Nat /\ d * d \in Nat
  BY <1>1, SMTT(20)
<1>4. a \in Nat /\ a < d * d
  BY <1>1, <1>3, QuotientBound
<1>. HIDE DEF a
<1>5. b \in Nat /\ b < d
  BY <1>1, <1>4, QuotientBound DEF b
<1>. HIDE DEF b
<1>6. b < 1 * d
  BY <1>1, <1>5
<1>7. c \in Nat /\ c < 1
  BY <1>1, <1>5, <1>6, QuotientBound DEF c
<1>. HIDE DEF c
<1>8. b % d \in Nat /\ a % d \in Nat /\ page % d \in Nat
  BY <1>1, <1>4, <1>5, SMTT(20)
<1>. QED
  BY <1>2, <1>7, <1>8

(* Two pages with the same four identity indices are one page.             *)
LEMMA IdentityInjective ==
  ASSUME NEW p \in Pages, NEW q \in Pages, Agree(identity(p), identity(q), 4)
  PROVE  p = q
<1>. DEFINE d == TABLE_ENTRIES
            Q(x) == x \div d
<1>1. d \in Nat \ {0} /\ p \in Nat /\ q \in Nat
  BY PagingAssumption, PmmAssumption DEF Pages
<1>2. \A x \in Nat : Q(x) \in Nat
  BY <1>1, SMTT(20)
<1>3. /\ identity(p) = <<Q(Q(Q(p))), Q(Q(p)) % d, Q(p) % d, p % d>>
      /\ identity(q) = <<Q(Q(Q(q))), Q(Q(q)) % d, Q(q) % d, q % d>>
  BY DEF identity
<1>4. /\ identity(p)[1] = identity(q)[1] /\ identity(p)[2] = identity(q)[2]
      /\ identity(p)[3] = identity(q)[3] /\ identity(p)[4] = identity(q)[4]
  BY DEF Agree
<1>. DEFINE R(x) == x % d
<1>5. /\ Q(Q(Q(p))) = Q(Q(Q(q))) /\ R(Q(Q(p))) = R(Q(Q(q))) /\ R(Q(p)) = R(Q(q)) /\ R(p) = R(q)
  <2>. HIDE DEF Q
  <2>. QED
    BY <1>3, <1>4
<1>6. \A x, y \in Nat : Q(x) = Q(y) /\ R(x) = R(y) => x = y
  BY <1>1, SameQuotient
<1>7. Q(p) \in Nat /\ Q(q) \in Nat /\ Q(Q(p)) \in Nat /\ Q(Q(q)) \in Nat
  <2>. HIDE DEF Q
  <2>. QED
    BY <1>1, <1>2
<1>. HIDE DEF Q, R, d
<1>8. Q(Q(p)) = Q(Q(q))
  BY <1>5, <1>6, <1>7
<1>9. Q(p) = Q(q)
  BY <1>5, <1>6, <1>7, <1>8
<1>. QED
  BY <1>1, <1>5, <1>6, <1>9

(* The indices of an address of the window.                                *)
LEMMA WindowIndices ==
  ASSUME NEW va \in Windows
  PROVE  /\ va \in Seq(Nat) /\ Len(va) = 4 /\ DOMAIN va = 1 .. 4
         /\ \A j \in 1 .. 4 : va[j] \in Nat
         /\ va[1] = DYNAMIC
<1>1. va \in Seq(Nat) /\ Len(va) = 4 /\ va[1] = DYNAMIC
  BY PagingAssumption
<1>2. DOMAIN va = 1 .. 4
  BY <1>1, LenProperties
<1>. QED
  BY <1>1, <1>2, ElementOfSeq
(* Nothing but the new table and the link to it is new.                    *)
LEMMA GrownLeaves ==
  ASSUME NEW m, NEW m2, NEW t, NEW i, NEW page, NEW depth, NEW route, NEW depth2, NEW route2,
         Grown(m, m2, t, i, page, depth, route, depth2, route2), depth[t] < 3
  PROVE  /\ Extends(m, depth, route, m2, depth2, route2)
         /\ SameLeaves(m, depth, route, m2, depth2, route2)
<1>1. Extends(m, depth, route, m2, depth2, route2)
  BY DEF Grown, Extends
<1>2. LeavesIn(m, depth, route, m2, depth2, route2)
  BY DEF Grown, LeavesIn
<1>3. LeavesIn(m2, depth2, route2, m, depth, route)
  BY DEF Grown, LeavesIn
<1>. QED
  BY <1>1, <1>2, <1>3 DEF SameLeaves

(* The new table lies on the walk, one level down.                         *)
LEMMA GrownOn ==
  ASSUME NEW m, NEW m2, NEW t, NEW i, NEW page, NEW depth, NEW route, NEW depth2, NEW route2,
         Grown(m, m2, t, i, page, depth, route, depth2, route2),
         NEW va, On(t, va, depth, route), depth[t] \in 0 .. 2, i = va[depth[t] + 1]
  PROVE  /\ page \in DOMAIN m2 /\ depth2[page] = depth[t] + 1 /\ On(page, va, depth2, route2)
         /\ route2[page][1] = va[1]
<1>1. /\ page \in DOMAIN m2 /\ IsChild(page, t, i, depth2, route2)
      /\ depth2[t] = depth[t] /\ On(t, va, depth2, route2)
  BY DEF Grown, On
<1>2. depth2[page] = depth[t] + 1
  BY <1>1 DEF IsChild
<1>3. On(page, va, depth2, route2)
  BY <1>1, <1>2 DEF IsChild, On, Agree
<1>4. route2[page][1] = va[1]
  BY <1>2, <1>3 DEF On, Agree
<1>. QED
  BY <1>1, <1>2, <1>3, <1>4

(* The tables made so far, with the new one below the last.                *)
LEMMA GrownChain ==
  ASSUME NEW m, NEW m2, NEW depth, NEW route, NEW depth2, NEW route2, NEW va,
         NEW s \in Seq(Made), NEW made \in Made,
         Grown(m, m2, made.table, made.index, made.child, depth, route, depth2, route2),
         On(made.table, va, depth, route), depth[made.table] \in 0 .. 2,
         made.index = va[depth[made.table] + 1],
         Chain(s, m, va, depth, route),
         s # <<>> => Last(s).child = made.table,
         s = <<>> => depth[made.table] = 0 \/ DOMAIN m[made.table] # {}
  PROVE  Chain(Append(s, made), m2, va, depth2, route2)
<1>0. PICK t, i, page, s2 : t = made.table /\ i = made.index /\ page = made.child /\ s2 = Append(s, made)
  OBVIOUS
<1>a. /\ Grown(m, m2, t, i, page, depth, route, depth2, route2)
      /\ On(t, va, depth, route) /\ depth[t] \in 0 .. 2 /\ i = va[depth[t] + 1]
      /\ s # <<>> => Last(s).child = t
      /\ s = <<>> => depth[t] = 0 \/ DOMAIN m[t] # {}
  BY <1>0
<1>1. PICK n \in Nat : n = Len(s)
  BY LenProperties
<1>2. Len(s2) = n + 1 /\ s2[n + 1] = made /\ s2 # <<>>
  BY <1>0, <1>1, AppendProperties
<1>3. ASSUME NEW k \in 1 .. n
      PROVE  s2[k] = s[k]
  BY <1>0, <1>1, AppendProperties
<1>4. /\ page \in DOMAIN m2 /\ depth2[page] = depth[t] + 1 /\ On(page, va, depth2, route2)
      /\ t \in DOMAIN m2 /\ depth2[t] = depth[t] /\ On(t, va, depth2, route2)
  <2>1. /\ page \in DOMAIN m2 /\ depth2[page] = depth[t] + 1 /\ On(page, va, depth2, route2)
    BY <1>a, GrownOn
  <2>2. t \in DOMAIN m2 /\ depth2[t] = depth[t] /\ On(t, va, depth2, route2)
    BY <1>a DEF Grown, On
  <2>. QED
    BY <2>1, <2>2
<1>5. ASSUME NEW u \in DOMAIN m
      PROVE  /\ u \in DOMAIN m2 /\ depth2[u] = depth[u]
             /\ On(u, va, depth, route) => On(u, va, depth2, route2)
             /\ DOMAIN m[u] \subseteq DOMAIN m2[u]
             /\ DOMAIN m2[u] \subseteq DOMAIN m[u] \cup {va[depth[u] + 1]}
  BY <1>a DEF Grown, On
<1>6. ASSUME NEW k \in 1 .. n
      PROVE  MadeAt(s[k], m, va, depth, route) /\ MadeAt(s[k], m2, va, depth2, route2)
  <2>1. MadeAt(s[k], m, va, depth, route)
    BY <1>1 DEF Chain
  <2>. QED
    BY <1>5, <2>1 DEF MadeAt
<1>7. ASSUME NEW k \in 1 .. n
      PROVE  DOMAIN m2[s[k].child] \subseteq {va[depth2[s[k].child] + 1]}
  <2>1. DOMAIN m[s[k].child] \subseteq {va[depth[s[k].child] + 1]}
    <3>1. CASE k = n
      BY <1>1, <3>1, EmptySeq DEF Chain
    <3>2. CASE k < n
      BY <1>1, <3>2 DEF Chain, MadeAbove
    <3>3. k = n \/ k < n
      OBVIOUS
    <3>. QED
      BY <3>1, <3>2, <3>3
  <2>2. s[k].child \in DOMAIN m
    BY <1>6 DEF MadeAt
  <2>. QED
    BY <1>5, <2>1, <2>2
<1>8. ASSUME NEW k \in 1 .. n + 1
      PROVE  MadeAt(s2[k], m2, va, depth2, route2)
  <2>1. CASE k = n + 1
    BY <1>0, <1>a, <1>2, <1>4, <2>1 DEF MadeAt
  <2>2. CASE k \in 1 .. n
    BY <1>3, <1>6, <2>2
  <2>3. k = n + 1 \/ k \in 1 .. n
    OBVIOUS
  <2>. QED
    BY <2>1, <2>2, <2>3
<1>9. ASSUME NEW k \in 1 .. n
      PROVE  MadeAbove(s2[k], s2[k + 1], m2, va, depth2)
  <2>1. CASE k = n
    <3>1. s # <<>> /\ Last(s) = s[k]
      BY <1>1, <2>1, EmptySeq DEF Last
    <3>2. s2[k] = s[k] /\ s[k].child = t /\ s2[k + 1] = made
      BY <1>a, <1>2, <1>3, <2>1, <3>1
    <3>. QED
      BY <1>0, <1>4, <1>7, <3>2 DEF MadeAbove
  <2>2. CASE k < n
    <3>0. k + 1 \in 1 .. n
      BY <2>2
    <3>1. s2[k] = s[k] /\ s2[k + 1] = s[k + 1] /\ k + 1 \in 1 .. n
      BY <1>3, <3>0
    <3>2. depth[s[k + 1].child] = depth[s[k].child] + 1
      BY <1>1, <2>2 DEF Chain, MadeAbove
    <3>3. s[k + 1].child \in DOMAIN m /\ s[k].child \in DOMAIN m
      BY <1>6, <3>1 DEF MadeAt
    <3>. QED
      BY <1>5, <1>7, <3>1, <3>2, <3>3 DEF MadeAbove
  <2>3. k = n \/ k < n
    OBVIOUS
  <2>. QED
    BY <2>1, <2>2, <2>3
<1>10. MadeFirst(s2[1], m2, depth2)
  <2>1. CASE n = 0
    <3>1. s = <<>> /\ s2[1] = made
      <4>1. s = <<>>
        BY <1>1, <2>1, EmptySeq
      <4>2. n + 1 = 1
        BY <2>1
      <4>. QED
        BY <1>2, <4>1, <4>2
    <3>. QED
      BY <1>0, <1>a, <1>4, <1>5, <3>1 DEF MadeFirst, Grown
  <2>2. CASE n # 0
    <3>1. s # <<>> /\ 1 \in 1 .. n
      BY <1>1, <2>2, EmptySeq
    <3>2. MadeFirst(s[1], m, depth) /\ s[1].table \in DOMAIN m /\ s2[1] = s[1]
      BY <1>3, <1>6, <3>1 DEF Chain, MadeAt
    <3>. QED
      BY <1>5, <3>2 DEF MadeFirst
  <2>. QED
    BY <2>1, <2>2
<1>11. DOMAIN m2[made.child] = {}
  BY <1>0, <1>a DEF Grown
<1>12. \A k \in 1 .. n + 1 : k < n + 1 => k \in 1 .. n
  OBVIOUS
<1>. QED
  BY <1>0, <1>2, <1>8, <1>9, <1>10, <1>11, <1>12 DEF Chain
(* The operation after a new table.                                        *)
LEMMA DownNewOp ==
  ASSUME NEW label \in {"map_page", "map"}, NEW c \in Pages, op.level \in 1 .. 3,
         label = "map_page" => op \in BuildOp,
         label = "map" => op \in MapOp,
         NEW created \in Seq(Made), op' = DownNew(op, op.level + 1, c, created)
  PROVE  /\ label = "map_page" => op' \in BuildOp /\ op'.todo = op.todo
         /\ label = "map" => op' \in MapOp /\ op'.page = op.page
         /\ op'.va = op.va /\ op'.level = op.level + 1 /\ op'.table = c
         /\ op'.created = created
<1>1. op.level + 1 \in 1 .. 4
  OBVIOUS
<1>2. CASE label = "map_page"
  BY <1>1, <1>2, BuildDownNew
<1>3. CASE label = "map"
  BY <1>1, <1>3, MapDownNew
<1>. QED
  BY <1>2, <1>3

(* One level down through a new table.                                     *)
LEMMA AddTableStep ==
  ASSUME PagingInv, NEW label \in {"map_page", "map"}, add_table(label)
  PROVE  PagingInv' /\ Unseen
<1>0. PICK t, i : t = op.table /\ i = op.va[op.level]
  OBVIOUS
<1>1. PICK page \in Pages :
        /\ new_table(page)
        /\ mem' = put([mem EXCEPT ![op.table] = put(@, op.va[op.level], link(page))], page, EmptyTable)
        /\ op' = [op EXCEPT !.level = @ + 1, !.table = page,
                           !.created = Append(@, [table |-> op.table, index |-> op.va[op.level], child |-> page])]
  BY Zenon DEF add_table
<1>2. /\ pc = label /\ pc' = label /\ op.level < 4
      /\ i \notin DOMAIN mem[t]
      /\ UNCHANGED <<paging_root, active, cached, owned>>
  BY <1>0 DEF add_table
<1>a. mem' = Added(mem, t, i, page)
  BY <1>0, <1>1 DEF Added
<1>b. op' = DownNew(op, op.level + 1, page, Append(op.created, [table |-> t, index |-> i, child |-> page]))
  BY <1>0, <1>1 DEF DownNew
<1>3. label \in Building \cup Running /\ label \notin Unmapping /\ label # "boot"
  BY DEF Building, Running, Mapping, Unmapping
<1>4. PICK depth, route : Tree(depth, route)
  BY <1>2, <1>3 DEF PagingInv
<1>5. Detached = {} /\ Detached' = {}
  BY <1>2 DEF Detached
<1>6. /\ Shape(mem, paging_root, depth, route) /\ Attached(mem, paging_root, depth, route, {})
      /\ op.level \in 1 .. 3
      /\ label = "map_page" => op \in BuildOp /\ Head(op.todo) \in Pages /\ op.va = identity(Head(op.todo))
      /\ label = "map" => op \in MapOp
  BY <1>2, <1>4, <1>5 DEF Tree, OpOK, BuildOp, MapOp, Mapping
<1>7. t \in DOMAIN mem /\ t \in Pages /\ depth[t] = op.level - 1 /\ On(t, op.va, depth, route)
  BY <1>0, <1>2, <1>4 DEF Tree, OpOK, AtTable, Shape, Rooted
<1>8. i \in Nat /\ (label = "map_page" => op.va[1] = 0) /\ (label = "map" => op.va \in Windows)
  <2>1. CASE label = "map_page"
    <3>1. PICK q \in Pages : op.va = identity(q)
      BY <1>6, <2>1
    <3>2. \A j \in 1 .. 4 : identity(q)[j] \in Nat /\ identity(q)[1] = 0
      BY IdentityIndices
    <3>3. op.va[op.level] \in Nat
      BY <1>6, <3>1, <3>2
    <3>. QED
      BY <1>0, <2>1, <3>1, <3>2, <3>3
  <2>2. CASE label = "map"
    <3>1. op.va \in Windows
      BY <1>6, <2>2 DEF MapOp
    <3>2. \A j \in 1 .. 4 : op.va[j] \in Nat
      BY <3>1, WindowIndices
    <3>3. op.va[op.level] \in Nat
      BY <1>6, <3>2
    <3>. QED
      BY <1>0, <2>2, <3>1, <3>3
  <2>. QED
    BY <2>1, <2>2
<1>9. PICK depth2, route2 :
        depth2 = DepthWith(depth, t, page) /\ route2 = RouteWith(depth, route, t, i, page)
  OBVIOUS
<1>10. DOMAIN mem' = DOMAIN mem \cup {page}
  BY <1>a DEF put, Added
<1>11. /\ PmmInv' /\ Ownership' /\ page \notin DOMAIN mem
       /\ UNCHANGED <<eligible, ready, boot_info>>
  BY <1>1, <1>2, <1>10, NewTable DEF PagingInv
<1>12. Stages'
  BY <1>2, <1>3, <1>11, StagesKept DEF PagingInv
<1>13. depth[t] < 3
  BY <1>6, <1>7
<1>14. /\ Shape(mem', paging_root, depth2, route2) /\ Attached(mem', paging_root, depth2, route2, {})
       /\ Grown(mem, mem', t, i, page, depth, route, depth2, route2)
       /\ mem'[t] = put(mem[t], i, link(page))
  BY <1>a, <1>2, <1>6, <1>7, <1>8, <1>9, <1>11, <1>13, Grow
<1>15. /\ DOMAIN mem'[t] = DOMAIN mem[t] \cup {i}
       /\ DOMAIN mem'[page] = {}
       /\ \A u \in DOMAIN mem \ {t} : mem'[u] = mem[u]
       /\ \A u \in DOMAIN mem : depth2[u] = depth[u] /\ route2[u] = route[u]
  BY <1>14 DEF Grown
<1>17. EntriesOK(mem')
  <2>1. link(page) \in Entries
    BY DEF link, entry, Entries
  <2>2. \A u \in DOMAIN mem : \A k \in DOMAIN mem[u] : mem[u][k] \in Entries
    BY DEF PagingInv, EntriesOK
  <2>3. \A k \in DOMAIN mem'[t] : mem'[t][k] \in Entries
    BY <1>7, <1>14, <2>1, <2>2 DEF put
  <2>. QED
    BY <1>10, <1>15, <2>2, <2>3 DEF EntriesOK
<1>18. /\ Extends(mem, depth, route, mem', depth2, route2)
       /\ SameLeaves(mem, depth, route, mem', depth2, route2)
  BY <1>13, <1>14, GrownLeaves
<1>19. /\ page \in DOMAIN mem' /\ depth2[page] = op.level /\ On(page, op.va, depth2, route2)
       /\ route2[page][1] = op.va[1]
  <2>1. depth[t] \in 0 .. 2 /\ depth[t] + 1 = op.level
    BY <1>6, <1>7
  <2>. QED
    BY <1>0, <1>7, <1>14, <2>1, GrownOn
<1>20. PICK made \in Made : made = [table |-> t, index |-> i, child |-> page]
  BY <1>7, <1>8 DEF Made
<1>21. /\ label = "map_page" => op' \in BuildOp /\ op'.todo = op.todo
       /\ label = "map" => op' \in MapOp /\ op'.page = op.page
       /\ op'.va = op.va /\ op'.level = op.level + 1 /\ op'.table = page
       /\ op.created \in Seq(Made) /\ op'.created = Append(op.created, made)
  <2>1. op.created \in Seq(Made)
    BY <1>6 DEF BuildOp, MapOp
  <2>2. PICK created \in Seq(Made) : created = Append(op.created, made)
    BY <2>1, AppendProperties
  <2>3. op' = DownNew(op, op.level + 1, page, created)
    BY <1>b, <1>20, <2>2
  <2>. QED
    BY <1>6, <2>1, <2>2, <2>3, DownNewOp
<1>22. AtTable(depth2, route2)'
  BY <1>6, <1>19, <1>21 DEF AtTable
<1>23. label = "map" => MadeChain(depth2, route2)' /\ Last(op'.created).child = page /\ op'.created # <<>>
  <2>. SUFFICES ASSUME label = "map"
                PROVE  MadeChain(depth2, route2)' /\ Last(op'.created).child = page /\ op'.created # <<>>
    OBVIOUS
  <2>1. /\ Chain(op.created, mem, op.va, depth, route)
        /\ op.created # <<>> => Last(op.created).child = t
    BY <1>0, <1>2, <1>4 DEF Tree, OpOK, Mapping, MadeChain
  <2>2. op.created = <<>> => depth[t] = 0 \/ DOMAIN mem[t] # {}
    <3>. SUFFICES ASSUME op.created = <<>>, depth[t] # 0
                  PROVE  DOMAIN mem[t] # {}
      OBVIOUS
    <3>1. route[t][1] = DYNAMIC /\ depth[t] > 0
      <4>1. depth[t] \in 1 .. 3
        BY <1>6, <1>7
      <4>2. route[t][1] = op.va[1]
        BY <1>7, <4>1 DEF On, Agree
      <4>3. op.va[1] = DYNAMIC
        BY <1>8, WindowIndices
      <4>. QED
        BY <4>1, <4>2, <4>3
    <3>2. Pending = {}
      BY <1>2, EmptySeq DEF Pending, Mapping, Unmapping, Children
    <3>. QED
      BY <1>4, <1>7, <3>1, <3>2 DEF Tree, NoneEmpty
  <2>3. made.table = t /\ made.index = i /\ made.child = page
    BY <1>20
  <2>4. depth[t] \in 0 .. 2 /\ i = op.va[depth[t] + 1]
    <3>1. depth[t] + 1 = op.level
      BY <1>6, <1>7
    <3>. QED
      BY <1>0, <1>6, <1>7, <3>1
  <2>5. Chain(op'.created, mem', op.va, depth2, route2)
    <3>1. Chain(Append(op.created, made), mem', op.va, depth2, route2)
      <4>1. Grown(mem, mem', made.table, made.index, made.child, depth, route, depth2, route2)
        BY <1>14, <2>3
      <4>2. /\ On(made.table, op.va, depth, route) /\ depth[made.table] \in 0 .. 2
            /\ made.index = op.va[depth[made.table] + 1]
        BY <1>7, <2>3, <2>4
      <4>3. op.created \in Seq(Made)
        BY <1>21
      <4>4. /\ op.created # <<>> => Last(op.created).child = made.table
            /\ op.created = <<>> => depth[made.table] = 0 \/ DOMAIN mem[made.table] # {}
        BY <2>1, <2>2, <2>3
      <4>. QED
        BY <2>1, <4>1, <4>2, <4>3, <4>4, GrownChain
    <3>. QED
      BY <1>21, <3>1
  <2>6. op'.created # <<>> /\ Last(op'.created) = made
    <3>1. Len(op'.created) = Len(op.created) + 1 /\ op'.created[Len(op.created) + 1] = made /\ op'.created # <<>>
      BY <1>21, AppendProperties
    <3>. QED
      BY <3>1 DEF Last
  <2>. QED
    BY <1>21, <2>3, <2>5, <2>6 DEF MadeChain
<1>24. OpOK(depth2, route2)'
  <2>1. CASE label = "map_page"
    BY <1>2, <1>4, <1>21, <1>22, <2>1 DEF Tree, OpOK, Mapping, Unmapping
  <2>2. CASE label = "map"
    <3>1. op.page \in owned
      BY <1>2, <1>4, <2>2 DEF Tree, OpOK, Mapping
    <3>. QED
      BY <1>2, <1>21, <1>22, <1>23, <2>2, <3>1 DEF OpOK, Mapping, Unmapping
  <2>. QED
    BY <2>1, <2>2
<1>25. CacheOK(depth2, route2)'
  BY <1>2, <1>4, <1>18, CacheKept DEF Tree
<1>26. ~active => \A u \in DOMAIN mem' : depth2[u] > 0 => route2[u][1] = 0
  <2>1. ~active => label = "map_page"
    BY <1>2 DEF PagingInv, Stages, Running, Mapping
  <2>2. ~active => \A u \in DOMAIN mem : depth[u] > 0 => route[u][1] = 0
    BY <1>4 DEF Tree, WindowOK
  <2>. QED
    BY <1>8, <1>10, <1>15, <1>19, <2>1, <2>2
<1>27. active \in BOOLEAN /\ active' = active
  BY <1>2 DEF PagingInv, Stages
<1>28. WindowOK(depth2, route2)'
  <2>1. active' \/ \A u \in DOMAIN mem' : depth2[u] > 0 => route2[u][1] = 0
    BY <1>26, <1>27
  <2>. QED
    BY <1>2, <1>4, <1>18, <2>1, WindowKept DEF Tree
<1>29. NoneEmpty(depth2, route2)'
  <2>1. CASE label = "map_page"
    <3>1. ~active
      BY <1>2, <2>1 DEF PagingInv, Stages, Running, Mapping, Unmapping
    <3>. QED
      BY <1>26, <3>1 DEF NoneEmpty, DYNAMIC
  <2>2. CASE label = "map"
    <3>1. ASSUME NEW u \in DOMAIN mem' \ Pending', depth2[u] > 0, route2[u][1] = DYNAMIC
          PROVE  DOMAIN mem'[u] # {}
      <4>0. PICK n \in Nat : n = Len(op.created)
        BY <1>21, LenProperties
      <4>1. /\ Len(op'.created) = n + 1 /\ op'.created[n + 1] = made
            /\ \A k \in 1 .. n : op'.created[k] = op.created[k]
        BY <1>21, <4>0, AppendProperties
      <4>2. page \in Pending' /\ Pending \subseteq Pending'
        <5>1. Pending' = Children(op'.created)
          BY <1>2, <2>2 DEF Pending, Mapping, Unmapping
        <5>2. Pending = Children(op.created)
          BY <1>2, <2>2 DEF Pending, Mapping, Unmapping
        <5>3. made.child = page
          BY <1>20
        <5>. QED
          BY <4>0, <4>1, <5>1, <5>2, <5>3 DEF Children
      <4>3. u \in DOMAIN mem \ Pending
        BY <1>10, <4>2
      <4>4. DOMAIN mem[u] # {}
        BY <1>4, <1>15, <3>1, <4>3 DEF Tree, NoneEmpty
      <4>. QED
        BY <1>15, <4>3, <4>4
    <3>. QED
      BY <3>1 DEF NoneEmpty
  <2>. QED
    BY <2>1, <2>2
<1>30. IdentityOK(depth2, route2)'
  BY <1>2, <1>4, <1>11, <1>18, <1>21, IdentityKept DEF Tree
<1>31. Tree(depth2, route2)'
  BY <1>2, <1>5, <1>14, <1>24, <1>25, <1>28, <1>29, <1>30 DEF Tree
<1>32. Unseen
  BY <1>4, <1>18, <1>31, LinksUnseen
<1>. QED
  BY <1>11, <1>12, <1>17, <1>31, <1>32 DEF PagingInv
-----------------------------------------------------------------------------
(* Steps that store nothing in a table.                                    *)

(* Detached and Pending at each stage.                                     *)
RollingBack == {"roll_back_invalidate", "roll_back_release"}
Reclaiming  == {"reclaim_invalidate", "reclaim_release"}

(* The table that is unlinked and not yet released, at each stage.         *)
LEMMA DetachedIs ==
  /\ pc \in RollingBack => Detached = {Last(op.created).child}
  /\ pc \in Reclaiming => Detached = {op.tables[op.level]}
  /\ pc \notin RollingBack \cup Reclaiming => Detached = {}
<1>1. CASE pc \in RollingBack
  BY <1>1 DEF Detached, RollingBack, Reclaiming
<1>2. CASE pc \in Reclaiming
  BY <1>2 DEF Detached, RollingBack, Reclaiming
<1>3. CASE pc \notin RollingBack \cup Reclaiming
  BY <1>3 DEF Detached, RollingBack, Reclaiming
<1>. QED
  BY <1>1, <1>2, <1>3 DEF RollingBack, Reclaiming

(* The same after a step.                                                  *)
LEMMA DetachedWillBe ==
  /\ pc' \in RollingBack => Detached' = {Last(op'.created).child}
  /\ pc' \in Reclaiming => Detached' = {op'.tables[op'.level]}
  /\ pc' \notin RollingBack \cup Reclaiming => Detached' = {}
<1>1. CASE pc' \in RollingBack
  BY <1>1 DEF Detached, RollingBack, Reclaiming
<1>2. CASE pc' \in Reclaiming
  BY <1>2 DEF Detached, RollingBack, Reclaiming
<1>3. CASE pc' \notin RollingBack \cup Reclaiming
  BY <1>3 DEF Detached, RollingBack, Reclaiming
<1>. QED
  BY <1>1, <1>2, <1>3 DEF RollingBack, Reclaiming

(* The tables that may be empty for now, at each stage.                    *)
LEMMA PendingIs ==
  /\ pc \in Mapping => Pending = Children(op.created)
  /\ pc \in Unmapping => Pending = PathTables(op.tables, op.level)
  /\ pc \notin Mapping \cup Unmapping => Pending = {}
<1>1. CASE pc \in Mapping
  BY <1>1 DEF Pending, Mapping, Unmapping
<1>2. CASE pc \in Unmapping
  BY <1>2 DEF Pending, Mapping, Unmapping
<1>3. CASE pc \notin Mapping \cup Unmapping
  BY <1>3 DEF Pending
<1>. QED
  BY <1>1, <1>2, <1>3 DEF Mapping, Unmapping

(* The same after a step.                                                  *)
LEMMA PendingWillBe ==
  /\ pc' \in Mapping => Pending' = Children(op'.created)
  /\ pc' \in Unmapping => Pending' = PathTables(op'.tables, op'.level)
  /\ pc' \notin Mapping \cup Unmapping => Pending' = {}
<1>1. CASE pc' \in Mapping
  BY <1>1 DEF Pending, Mapping, Unmapping
<1>2. CASE pc' \in Unmapping
  BY <1>2 DEF Pending, Mapping, Unmapping
<1>3. CASE pc' \notin Mapping \cup Unmapping
  BY <1>3 DEF Pending
<1>. QED
  BY <1>1, <1>2, <1>3 DEF Mapping, Unmapping

Quiet == UNCHANGED <<pmmVars, table_pages, mem, paging_root, active, owned>>

(* What such a step leaves alone.                                          *)
LEMMA QuietFlat ==
  ASSUME PagingInv, Quiet, pc # "boot", pc' \in {"discard"} \cup Building \cup Running,
         pc \in Running <=> pc' \in Running, ~active => cached' = cached
  PROVE  /\ PmmInv' /\ Ownership' /\ EntriesOK(mem)' /\ Stages'
         /\ UNCHANGED <<mem, paging_root, active, owned, boot_info>>
<1>1. UNCHANGED <<pmmVars, table_pages, mem, paging_root, active, owned>>
  BY DEF Quiet
<1>2. PmmInv' /\ Ownership' /\ UNCHANGED <<eligible, ready, boot_info>>
  BY <1>1, OwnershipKept DEF PagingInv
<1>3. Stages'
  BY <1>1, <1>2, StagesKept DEF PagingInv
<1>. QED
  BY <1>1, <1>2, <1>3 DEF PagingInv, EntriesOK

(* What is left to show of a step of an operation.                         *)
LEMMA QuietTree ==
  ASSUME PagingInv, Quiet, pc # "boot", pc' \in Building \cup Running,
         pc \in Running <=> pc' \in Running, ~active => cached' = cached,
         NEW depth, NEW route, Tree(depth, route),
         Detached' = Detached, OpOK(depth, route)', CacheOK(depth, route)',
         NoneEmpty(depth, route)', IdentityOK(depth, route)'
  PROVE  PagingInv'
<1>1. /\ PmmInv' /\ Ownership' /\ EntriesOK(mem)' /\ Stages'
      /\ UNCHANGED <<mem, paging_root, active, owned, boot_info>>
  BY QuietFlat
<1>2. WindowOK(depth, route)'
  BY <1>1 DEF Tree, WindowOK
<1>3. Tree(depth, route)'
  BY <1>1, <1>2 DEF Tree
<1>. QED
  BY <1>1, <1>3 DEF PagingInv

(* The running kernel: the identity map is not concerned.                  *)
LEMMA QuietIdentity ==
  ASSUME NEW depth, NEW route, IdentityOK(depth, route), UNCHANGED <<mem, active, boot_info>>,
         pc' \notin {"map_page", "verify"}
  PROVE  IdentityOK(depth, route)'
<1>1. SameLeaves(mem, depth, route, mem', depth, route)
  BY DEF SameLeaves, LeavesIn
<1>. QED
  BY <1>1, IdentityKept

(* The cache, when nothing is about to be invalidated.                     *)
LEMMA QuietCache ==
  ASSUME NEW depth, NEW route, CacheOK(depth, route), UNCHANGED <<mem, cached>>,
         pc \notin {"invalidate", "unmap_invalidate"},
         pc' \notin {"roll_back_release", "reclaim_release"}
  PROVE  CacheOK(depth, route)'
<1>1. SameLeaves(mem, depth, route, mem', depth, route) /\ Extends(mem, depth, route, mem', depth, route)
  BY DEF SameLeaves, LeavesIn, Extends
<1>. QED
  BY <1>1, CacheKept

(* A step that stores nothing and excuses no fewer tables empties none.    *)
LEMMA QuietNoneEmpty ==
  ASSUME NEW depth, NEW route, NoneEmpty(depth, route), mem' = mem, Pending \subseteq Pending'
  PROVE  NoneEmpty(depth, route)'
BY DEF NoneEmpty

(* paging_map and map_page run out of tables.                              *)
LEMMA OutOfTablesStep ==
  ASSUME PagingInv, out_of_tables("map_page", "discard") \/ out_of_tables("map", "roll_back")
  PROVE  PagingInv'
<1>1. /\ Quiet /\ UNCHANGED <<op, cached>>
      /\ \/ pc = "map_page" /\ pc' = "discard"
         \/ pc = "map" /\ pc' = "roll_back"
  BY DEF out_of_tables, Quiet
<1>2. CASE pc = "map_page"
  <2>1. pc' = "discard" /\ pc \notin Running /\ pc' \notin Running \cup Building /\ pc # "boot"
    BY <1>1, <1>2 DEF Running, Mapping, Unmapping, Building
  <2>. QED
    BY <1>1, <2>1, QuietFlat DEF PagingInv
<1>3. CASE pc = "map"
  <2>1. /\ pc' = "roll_back" /\ pc \in Running /\ pc' \in Running /\ pc # "boot"
        /\ pc \in Mapping /\ pc' \in Mapping /\ pc' \notin Unmapping
    BY <1>1, <1>3 DEF Running, Mapping, Unmapping
  <2>2. PICK depth, route : Tree(depth, route)
    BY <2>1 DEF PagingInv
  <2>3. UNCHANGED <<mem, active, boot_info, owned>>
    BY <1>1 DEF Quiet, pmmVars
  <2>4. Detached' = Detached /\ Pending' = Pending
    <3>1. Detached' = {} /\ Detached = {}
      BY <1>1, <1>3, DetachedIs, DetachedWillBe DEF RollingBack, Reclaiming
    <3>. QED
      BY <1>1, <2>1, <3>1, PendingIs, PendingWillBe
  <2>5. OpOK(depth, route)'
    <3>1. op \in MapOp /\ op.page \in owned /\ MadeChain(depth, route)
      BY <2>1, <2>2 DEF Tree, OpOK
    <3>2. MadeChain(depth, route)'
      BY <1>1, <2>3, <3>1 DEF MadeChain
    <3>. QED
      BY <1>1, <2>1, <2>3, <3>1, <3>2 DEF OpOK
  <2>6. CacheOK(depth, route)' /\ IdentityOK(depth, route)' /\ NoneEmpty(depth, route)'
    BY <1>1, <1>3, <2>1, <2>2, <2>3, <2>4, QuietCache, QuietIdentity, QuietNoneEmpty DEF Tree
  <2>. QED
    BY <1>1, <2>1, <2>2, <2>4, <2>5, <2>6, QuietTree
<1>. QED
  BY <1>1, <1>2, <1>3
(* The names of the stages of a running kernel.                            *)
LEMMA RunningStages ==
  /\ Running \cap (Building \cup Bare \cup {"discard", "boot", "map_page", "verify"}) = {}
  /\ Mapping \subseteq Running /\ Unmapping \subseteq Running /\ Mapping \cap Unmapping = {}
  /\ "idle" \in Running /\ "invalidate" \in Running
  /\ {"idle", "invalidate"} \cap (Mapping \cup Unmapping) = {}
  /\ RollingBack \subseteq Mapping /\ Reclaiming \subseteq Unmapping
BY DEF Running, Building, Bare, Mapping, Unmapping, RollingBack, Reclaiming

(* Back to no operation under way.                                         *)
LEMMA IdleOp ==
  ASSUME NEW depth, NEW route, pc' = "idle"
  PROVE  OpOK(depth, route)' /\ Detached' = {} /\ Pending' = {}
<1>1. OpOK(depth, route)'
  BY DEF OpOK, Mapping, Unmapping
<1>2. Detached' = {} /\ Pending' = {}
  BY RunningStages, DetachedWillBe, PendingWillBe
<1>. QED
  BY <1>1, <1>2

(* invlpg: the cache is right again whatever was about to be invalidated.  *)
LEMMA InvalidateCache ==
  ASSUME NEW depth, NEW route, CacheOK(depth, route), x86_invalidate_page(op.va), mem' = mem
  PROVE  CacheOK(depth, route)'
<1>1. CASE Len(cached.prefix) < 4 \/ cached.prefix = op.va
  <2>1. cached' = NothingCached
    BY <1>1 DEF x86_invalidate_page
  <2>2. cached'.prefix = <<>>
    BY <2>1 DEF NothingCached
  <2>3. cached'.prefix \in Seq(Nat) /\ Len(cached'.prefix) = 0
    BY <2>2
  <2>. QED
    BY <2>3 DEF CacheOK
<1>2. CASE ~(Len(cached.prefix) < 4 \/ cached.prefix = op.va)
  <2>1. cached' = cached
    BY <1>2 DEF x86_invalidate_page
  <2>2. cached.prefix \in Seq(Nat) /\ Len(cached.prefix) <= 4
    BY DEF CacheOK
  <2>3. Len(cached.prefix) = 4
    <3>1. PICK n \in Nat : n = Len(cached.prefix)
      BY <2>2, LenProperties
    <3>2. ~(n < 4) /\ n <= 4
      BY <1>2, <2>2, <3>1, Zenon
    <3>3. n = 4
      BY <3>2
    <3>. QED
      BY <3>1, <3>3
  <2>4. LeafEntry(mem, depth, route, cached.prefix) = {entry(cached.page, cached.flags)}
    BY <1>2, <2>3 DEF CacheOK
  <2>5. \E va \in Windows : cached.prefix = SubSeq(va, 1, Len(cached.prefix))
    BY <2>3 DEF CacheOK
  <2>. QED
    BY <2>1, <2>2, <2>3, <2>4, <2>5 DEF CacheOK
<1>. QED
  BY <1>1, <1>2

(* An operation ends: the tables it may have left empty are not.           *)
LEMMA ReturnStep ==
  ASSUME PagingInv, Quiet, pc \in Running, pc' = "idle", ~active => cached' = cached,
         NEW depth, NEW route, Tree(depth, route), Detached = {}, CacheOK(depth, route)',
         NoneEmpty(depth, route)'
  PROVE  PagingInv'
<1>1. pc # "boot" /\ pc' \in Running /\ pc' \notin {"map_page", "verify"}
  BY RunningStages
<1>2. OpOK(depth, route)' /\ Detached' = Detached
  BY IdleOp
<1>3. UNCHANGED <<mem, active, boot_info>>
  BY DEF Quiet, pmmVars
<1>4. IdentityOK(depth, route)'
  BY <1>1, <1>3, QuietIdentity DEF Tree
<1>. QED
  BY <1>1, <1>2, <1>4, QuietTree

(* The invlpg at the end of map and protect.                               *)
LEMMA InvalidateAndReturnStep ==
  ASSUME PagingInv, invalidate_and_return
  PROVE  PagingInv'
<1>1. pc = "invalidate" /\ x86_invalidate_page(op.va) /\ pc' = "idle" /\ Quiet /\ mem' = mem
  BY DEF invalidate_and_return, return, Quiet
<1>2. pc \in Running /\ active /\ pc \notin Mapping \cup Unmapping
  BY <1>1, RunningStages DEF PagingInv, Stages
<1>3. PICK depth, route : Tree(depth, route)
  BY <1>2 DEF PagingInv
<1>4. Detached = {} /\ Pending = {}
  BY <1>2, RunningStages, DetachedIs, PendingIs
<1>5. CacheOK(depth, route)'
  BY <1>1, <1>3, InvalidateCache DEF Tree
<1>6. NoneEmpty(depth, route)'
  BY <1>1, <1>3, <1>4, QuietNoneEmpty DEF Tree
<1>. QED
  BY <1>1, <1>2, <1>3, <1>4, <1>5, <1>6, ReturnStep

(* The invlpg between the stores of one operation.                         *)
LEMMA InvalidateStep ==
  ASSUME PagingInv,
         \/ invalidate_step("roll_back_invalidate", "roll_back_release")
         \/ invalidate_step("unmap_invalidate", "reclaim")
         \/ invalidate_step("reclaim_invalidate", "reclaim_release")
  PROVE  PagingInv'
<1>1. /\ x86_invalidate_page(op.va) /\ Quiet /\ mem' = mem /\ op' = op
      /\ \/ pc = "roll_back_invalidate" /\ pc' = "roll_back_release"
         \/ pc = "unmap_invalidate" /\ pc' = "reclaim"
         \/ pc = "reclaim_invalidate" /\ pc' = "reclaim_release"
  BY DEF invalidate_step, Quiet
<1>2. /\ pc \in Mapping <=> pc' \in Mapping
      /\ pc \in Unmapping <=> pc' \in Unmapping
      /\ pc \in RollingBack <=> pc' \in RollingBack
      /\ pc \in Reclaiming <=> pc' \in Reclaiming
      /\ pc \in Mapping \/ pc \in Unmapping
  BY <1>1 DEF Mapping, Unmapping, RollingBack, Reclaiming
<1>3. /\ pc \in Running /\ pc' \in Running /\ active /\ pc # "boot"
      /\ pc' \notin {"map_page", "verify", "map", "invalidate"}
  BY <1>1, <1>2, RunningStages DEF PagingInv, Stages
<1>4. PICK depth, route : Tree(depth, route)
  BY <1>3 DEF PagingInv
<1>5. Detached' = Detached /\ Pending' = Pending
  BY <1>1, <1>2, DetachedIs, DetachedWillBe, PendingIs, PendingWillBe
<1>6. UNCHANGED <<active, boot_info, owned>>
  BY <1>1 DEF Quiet, pmmVars
<1>7. CacheOK(depth, route)' /\ NoneEmpty(depth, route)' /\ IdentityOK(depth, route)'
  BY <1>1, <1>3, <1>4, <1>5, <1>6, InvalidateCache, QuietNoneEmpty, QuietIdentity DEF Tree
<1>8. OpOK(depth, route)'
  <2>1. OpOK(depth, route)
    BY <1>4 DEF Tree
  <2>2. MadeChain(depth, route)' <=> MadeChain(depth, route)
    BY <1>1 DEF MadeChain
  <2>. QED
    BY <1>1, <1>2, <1>3, <1>6, <2>1, <2>2 DEF OpOK, RollingBack, Reclaiming
<1>. QED
  BY <1>1, <1>3, <1>4, <1>5, <1>7, <1>8, QuietTree
(* The page number of a page's address.                                    *)
LEMMA PageAddress ==
  ASSUME NEW page \in Pages
  PROVE  (page * PMM_PAGE_SIZE) \div PMM_PAGE_SIZE = page
<1>1. page \in Nat /\ PMM_PAGE_SIZE \in Nat \ {0}
  BY PmmAssumption DEF Pages
<1>. QED
  BY <1>1, SMTT(20)

(* The call of paging_map.                                                 *)
LEMMA PagingMapStep ==
  ASSUME PagingInv, NEW va \in Windows \cup Outside, NEW page \in Pages, NEW flags \in FlagSets,
         paging_map(va, page, flags)
  PROVE  PagingInv'
<1>1. /\ pc = "idle" /\ pc' = "map" /\ Quiet /\ UNCHANGED <<mem, cached, paging_root, owned>>
      /\ va \in Windows /\ flags \in SUBSET {"W", "X"}
  BY DEF paging_map, Quiet, maps, dynamic_address, valid_flags
<1>2. op' = [va |-> va, level |-> 1, table |-> paging_root, created |-> <<>>,
             page |-> page, flags |-> flags]
  BY DEF paging_map
<1>3. page \in owned
  <2>1. page \in allocated /\ page \notin Range(table_pages)
    BY PageAddress DEF paging_map, maps, pmm_is_allocated
  <2>. QED
    BY <2>1 DEF PagingInv, Ownership
<1>4. /\ pc \in Running /\ pc' \in Running /\ pc # "boot" /\ pc' \in Mapping
      /\ pc' \notin Unmapping \cup RollingBack \cup Reclaiming
      /\ pc \notin Mapping \cup Unmapping \cup RollingBack \cup Reclaiming
      /\ pc' \notin {"map_page", "verify"}
  BY <1>1 DEF Running, Mapping, Unmapping, RollingBack, Reclaiming
<1>5. PICK depth, route : Tree(depth, route)
  BY <1>4 DEF PagingInv
<1>6. /\ op' \in MapOp /\ op'.page \in owned /\ op'.va = va /\ op'.level = 1
      /\ op'.table = paging_root /\ op'.created = <<>>
  <2>1. paging_root \in Pages
    BY DEF PagingInv, Stages
  <2>2. <<>> \in Seq(Made)
    OBVIOUS
  <2>. QED
    BY <1>1, <1>2, <1>3, <2>1, <2>2 DEF MapOp
<1>7. MadeChain(depth, route)'
  <2>1. Len(<<>>) = 0
    OBVIOUS
  <2>. QED
    BY <1>6, <2>1 DEF MadeChain, Chain
<1>8. AtTable(depth, route)'
  <2>1. paging_root \in DOMAIN mem /\ depth[paging_root] = 0 /\ On(paging_root, va, depth, route)
    BY <1>5, RootOnly DEF Tree, Shape, Rooted
  <2>. QED
    BY <1>1, <1>6, <2>1 DEF AtTable
<1>9. OpOK(depth, route)'
  BY <1>1, <1>4, <1>6, <1>7, <1>8 DEF OpOK, RollingBack, Reclaiming
<1>10. Detached' = Detached /\ Pending = {}
  BY <1>4, DetachedIs, DetachedWillBe, PendingIs
<1>11. UNCHANGED <<active, boot_info>>
  BY <1>1 DEF Quiet, pmmVars
<1>12. CacheOK(depth, route)' /\ NoneEmpty(depth, route)' /\ IdentityOK(depth, route)'
  BY <1>1, <1>4, <1>5, <1>10, <1>11, QuietCache, QuietNoneEmpty, QuietIdentity DEF Tree
<1>. QED
  BY <1>1, <1>4, <1>5, <1>9, <1>10, <1>12, QuietTree

(* The end of a roll-back.                                                 *)
LEMMA RolledBackStep ==
  ASSUME PagingInv, pc = "roll_back", op.created = <<>>, pc' = "idle", Quiet, cached' = cached
  PROVE  PagingInv'
<1>1. pc \in Running /\ pc \in Mapping /\ pc \notin RollingBack \cup Reclaiming
  BY DEF Running, Mapping, RollingBack, Reclaiming
<1>2. PICK depth, route : Tree(depth, route)
  BY <1>1 DEF PagingInv
<1>3. Detached = {} /\ Pending = {}
  <2>1. Len(<<>>) = 0
    OBVIOUS
  <2>. QED
    BY <1>1, <2>1, DetachedIs, PendingIs DEF Children
<1>4. mem' = mem
  BY DEF Quiet
<1>5. CacheOK(depth, route)' /\ NoneEmpty(depth, route)'
  BY <1>2, <1>3, <1>4, QuietCache, QuietNoneEmpty DEF Tree
<1>. QED
  BY <1>1, <1>2, <1>3, <1>5, ReturnStep

(* paging_map finds the address mapped: it has made no table.              *)
LEMMA MappedAlreadyStep ==
  ASSUME PagingInv, pc = "map", op.level = 4, op.va[4] \in DOMAIN mem[op.table], pc' = "idle",
         Quiet, cached' = cached
  PROVE  PagingInv'
<1>1. pc \in Running /\ pc \in Mapping /\ pc \notin RollingBack \cup Reclaiming
  BY DEF Running, Mapping, RollingBack, Reclaiming
<1>2. PICK depth, route : Tree(depth, route)
  BY <1>1 DEF PagingInv
<1>3. op.created = <<>>
  <2>1. /\ op.created # <<>> => Last(op.created).child = op.table
        /\ Chain(op.created, mem, op.va, depth, route)
        /\ op.created \in Seq(Made)
    BY <1>1, <1>2 DEF Tree, OpOK, MadeChain, MapOp
  <2>. QED
    BY <2>1, LastMade
<1>4. Detached = {} /\ Pending = {}
  <2>1. Len(<<>>) = 0
    OBVIOUS
  <2>. QED
    BY <1>1, <1>3, <2>1, DetachedIs, PendingIs DEF Children
<1>5. mem' = mem
  BY DEF Quiet
<1>6. CacheOK(depth, route)' /\ NoneEmpty(depth, route)'
  BY <1>2, <1>4, <1>5, QuietCache, QuietNoneEmpty DEF Tree
<1>. QED
  BY <1>1, <1>2, <1>4, <1>6, ReturnStep

(* The loop of paging_unmap stops at a table that holds something, and so  *)
(* do the ones above it.                                                   *)
LEMMA ReclaimedStep ==
  ASSUME PagingInv, pc = "reclaim", op.level = 0 \/ DOMAIN mem[op.tables[op.level]] # {},
         pc' = "idle", Quiet, cached' = cached
  PROVE  PagingInv'
<1>1. /\ pc \in Running /\ pc \in Unmapping /\ pc \notin RollingBack \cup Reclaiming
      /\ pc' \notin {"roll_back_release", "reclaim_release"}
      /\ pc \notin {"invalidate", "unmap_invalidate"}
  BY DEF Running, Unmapping, RollingBack, Reclaiming
<1>2. PICK depth, route : Tree(depth, route)
  BY <1>1 DEF PagingInv
<1>3. Detached = {} /\ Pending = PathTables(op.tables, op.level) /\ Pending' = {}
  BY <1>1, DetachedIs, PendingIs, IdleOp
<1>4. mem' = mem
  BY DEF Quiet
<1>5. /\ Shape(mem, paging_root, depth, route) /\ Attached(mem, paging_root, depth, route, {})
      /\ op.level \in 0 .. 3
      /\ \A l \in 0 .. op.level : /\ op.tables[l] \in DOMAIN mem /\ depth[op.tables[l]] = l
                                  /\ On(op.tables[l], op.va, depth, route)
  BY <1>1, <1>2, <1>3 DEF Tree, OpOK, UnmapOp
<1>6. ASSUME NEW l \in 0 .. op.level, l > 0
      PROVE  DOMAIN mem[op.tables[l]] # {}
  <2>1. CASE l = op.level
    BY <1>6, <2>1
  <2>2. CASE l # op.level
    <3>1. l + 1 \in 0 .. op.level
      BY <1>5, <2>2
    <3>2. op.va[depth[op.tables[l + 1]]] \in DOMAIN mem[op.tables[l]]
      BY <1>5, <3>1, ParentHolds
    <3>. QED
      BY <3>2
  <2>. QED
    BY <2>1, <2>2
<1>7. NoneEmpty(depth, route)'
  <2>1. ASSUME NEW t \in DOMAIN mem, depth[t] > 0, route[t][1] = DYNAMIC
        PROVE  DOMAIN mem[t] # {}
    <3>1. CASE t \in Pending
      <4>1. PICK l \in 0 .. op.level : t = op.tables[l]
        BY <1>3, <3>1 DEF PathTables
      <4>. QED
        BY <1>5, <1>6, <2>1, <4>1
    <3>2. CASE t \notin Pending
      BY <1>2, <2>1, <3>2 DEF Tree, NoneEmpty
    <3>. QED
      BY <3>1, <3>2
  <2>. QED
    BY <1>4, <2>1 DEF NoneEmpty
<1>8. CacheOK(depth, route)'
  BY <1>1, <1>2, <1>4, QuietCache DEF Tree
<1>. QED
  BY <1>1, <1>2, <1>3, <1>7, <1>8, ReturnStep
(* The leaf entry of an address, in the table on its walk.                 *)
LEMMA LeafIs ==
  ASSUME NEW m, NEW root, NEW depth, NEW route, NEW t \in DOMAIN m, NEW va,
         Shape(m, root, depth, route), depth[t] = 3, On(t, va, depth, route)
  PROVE  LeafEntry(m, depth, route, va) = IF va[4] \in DOMAIN m[t] THEN {m[t][va[4]]} ELSE {}
<1>1. TablesOn(m, depth, route, 3, va) = {t}
  BY OneTable DEF TablesOn
<1>. QED
  BY <1>1 DEF LeafEntry

(* A leaf entry of an address lies in the last table of its walk.          *)
LEMMA LeafOnWalk ==
  ASSUME NEW m, NEW depth, NEW route, NEW va, NEW e, e \in LeafEntry(m, depth, route, va)
  PROVE  \E t \in DOMAIN m : /\ depth[t] = 3 /\ On(t, va, depth, route)
                             /\ va[4] \in DOMAIN m[t] /\ e = m[t][va[4]]
BY DEF LeafEntry, TablesOn

(* Two addresses with the same indices.                                    *)
LEMMA SameIndices ==
  ASSUME NEW m, NEW root, NEW depth, NEW route, Shape(m, root, depth, route),
         NEW t \in DOMAIN m, NEW x, NEW y, NEW n, n \in Nat, Agree(x, y, n), depth[t] <= n
  PROVE  On(t, x, depth, route) => On(t, y, depth, route)
BY DEF Shape, Rooted, On, Agree

(* An entry is its page and its flags.                                     *)
LEMMA EntryFields ==
  ASSUME NEW e \in Entries
  PROVE  e = entry(e.page, e.flags)
BY DEF Entries, entry

(* The CPU fetches one more level.                                         *)
LEMMA CpuWalkStep ==
  ASSUME PagingInv, cpu_walk
  PROVE  PagingInv'
<1>1. active /\ Quiet /\ pc' = pc /\ op' = op /\ mem' = mem
  BY DEF cpu_walk, Quiet
<1>2. PICK va \in Windows, prefix \in {<<>>, cached.prefix} :
        LET d == Len(prefix)
            table == IF d = 0 THEN paging_root ELSE cached.page
        IN  /\ d < 4 /\ prefix = SubSeq(va, 1, d)
            /\ table \in DOMAIN mem /\ va[d + 1] \in DOMAIN mem[table]
            /\ cached' = [prefix |-> SubSeq(va, 1, d + 1),
                          page |-> mem[table][va[d + 1]].page, flags |-> mem[table][va[d + 1]].flags]
  BY DEF cpu_walk
<1>3. pc \in Running /\ pc # "boot"
  BY <1>1, RunningStages DEF PagingInv, Stages
<1>4. PICK depth, route : Tree(depth, route)
  BY <1>3 DEF PagingInv
<1>5. PICK d, table, e : /\ d = Len(prefix) /\ table = IF d = 0 THEN paging_root ELSE cached.page
                         /\ e = mem[table][va[d + 1]]
  OBVIOUS
<1>6. /\ d < 4 /\ prefix = SubSeq(va, 1, d) /\ table \in DOMAIN mem /\ va[d + 1] \in DOMAIN mem[table]
      /\ cached' = [prefix |-> SubSeq(va, 1, d + 1), page |-> e.page, flags |-> e.flags]
  BY <1>2, <1>5
<1>7. d \in 0 .. 3
  <2>1. prefix \in Seq(Nat)
    <3>1. <<>> \in Seq(Nat) /\ cached.prefix \in Seq(Nat)
      BY <1>4 DEF Tree, CacheOK
    <3>. QED
      BY <3>1
  <2>2. d \in Nat
    BY <1>5, <2>1, LenProperties
  <2>. QED
    BY <1>6, <2>2
<1>8. /\ SubSeq(va, 1, d + 1) \in Seq(Nat) /\ Len(SubSeq(va, 1, d + 1)) = d + 1
      /\ \A j \in 1 .. d + 1 : SubSeq(va, 1, d + 1)[j] = va[j]
      /\ \A j \in 1 .. d : SubSeq(va, 1, d)[j] = va[j]
  <2>1. va \in Seq(Nat) /\ Len(va) = 4 /\ \A j \in 1 .. 4 : va[j] \in Nat
    BY WindowIndices
  <2>2. /\ SubSeq(va, 1, d + 1) \in Seq(Nat) /\ Len(SubSeq(va, 1, d + 1)) = d + 1
        /\ \A j \in 1 .. d + 1 : SubSeq(va, 1, d + 1)[j] = va[j]
    BY <1>7, <2>1, SubSeqProperties
  <2>3. \A j \in 1 .. d : SubSeq(va, 1, d)[j] = va[j]
    BY <1>7, <2>1, SubSeqProperties
  <2>. QED
    BY <2>2, <2>3
<1>9. depth[table] = d /\ On(table, va, depth, route)
  <2>0. Shape(mem, paging_root, depth, route)
    BY <1>4 DEF Tree
  <2>1. CASE d = 0
    BY <1>5, <1>6, <2>0, <2>1, RootOnly
  <2>2. CASE d # 0
    <3>1. table = cached.page /\ prefix = cached.prefix
      <4>1. Len(<<>>) = 0
        OBVIOUS
      <4>. QED
        BY <1>5, <2>2, <4>1
    <3>2. depth[cached.page] = d /\ On(cached.page, cached.prefix, depth, route)
      BY <1>4, <1>5, <1>7, <2>2, <3>1 DEF Tree, CacheOK
    <3>3. Agree(cached.prefix, va, d)
      BY <1>6, <1>8, <3>1 DEF Agree
    <3>4. d \in Nat /\ d <= d
      BY <1>7
    <3>. QED
      BY <1>6, <2>0, <3>1, <3>2, <3>3, <3>4, SameIndices
  <2>. QED
    BY <2>1, <2>2
<1>10. PICK p : p = SubSeq(va, 1, d + 1)
  OBVIOUS
<1>11. /\ cached'.prefix = p /\ cached'.page = e.page /\ cached'.flags = e.flags
       /\ p \in Seq(Nat) /\ Len(p) = d + 1 /\ Agree(va, p, d + 1) /\ p[d + 1] = va[d + 1]
  BY <1>6, <1>7, <1>8, <1>10 DEF Agree
<1>12. d < 3 => /\ e.page \in DOMAIN mem /\ depth[e.page] = d + 1 /\ On(e.page, p, depth, route)
                /\ e.flags = {"W", "X"} /\ e.page \notin Detached
  <2>. SUFFICES ASSUME d < 3
                PROVE  /\ e.page \in DOMAIN mem /\ depth[e.page] = d + 1 /\ On(e.page, p, depth, route)
                       /\ e.flags = {"W", "X"} /\ e.page \notin Detached
    OBVIOUS
  <2>0. Shape(mem, paging_root, depth, route) /\ Attached(mem, paging_root, depth, route, Detached)
    BY <1>4 DEF Tree
  <2>1. depth[table] < 3 /\ va[depth[table] + 1] \in DOMAIN mem[table] /\ e = mem[table][va[depth[table] + 1]]
    BY <1>5, <1>6, <1>9
  <2>2. /\ e.page \in DOMAIN mem /\ depth[e.page] = depth[table] + 1
        /\ On(e.page, va, depth, route) /\ e = link(e.page)
    BY <1>6, <1>9, <2>0, <2>1, ChildOn
  <2>3. depth[e.page] = d + 1 /\ d + 1 \in Nat /\ depth[e.page] <= d + 1
    BY <1>7, <1>9, <2>2
  <2>4. On(e.page, p, depth, route)
    BY <1>11, <2>0, <2>2, <2>3, SameIndices
  <2>5. e.flags = {"W", "X"}
    BY <2>2 DEF link, entry
  <2>6. e.page \notin Detached
    BY <1>6, <2>0, <2>1 DEF Attached
  <2>. QED
    BY <2>2, <2>3, <2>4, <2>5, <2>6
<1>13. d = 3 => LeafEntry(mem, depth, route, p) = {entry(e.page, e.flags)}
  <2>. SUFFICES ASSUME d = 3
                PROVE  LeafEntry(mem, depth, route, p) = {entry(e.page, e.flags)}
    OBVIOUS
  <2>0. Shape(mem, paging_root, depth, route)
    BY <1>4 DEF Tree
  <2>1. On(table, p, depth, route)
    <3>1. d + 1 \in Nat /\ depth[table] <= d + 1
      BY <1>9
    <3>. QED
      BY <1>6, <1>9, <1>11, <2>0, <3>1, SameIndices
  <2>2. d + 1 = 4
    OBVIOUS
  <2>3. p[4] = va[4] /\ va[4] \in DOMAIN mem[table] /\ e = mem[table][va[4]] /\ depth[table] = 3
    BY <1>5, <1>6, <1>9, <1>11, <2>2
  <2>4. LeafEntry(mem, depth, route, p) = {e}
    BY <1>6, <2>0, <2>1, <2>3, LeafIs
  <2>5. e \in Entries
    BY <1>6, <2>3 DEF PagingInv, EntriesOK
  <2>. QED
    BY <2>4, <2>5, EntryFields
<1>14. CacheOK(depth, route)'
  <2>1. Len(cached'.prefix) = d + 1 /\ d + 1 \in 1 .. 4 /\ (d + 1 \in 1 .. 3 <=> d < 3) /\ (d + 1 = 4 <=> d = 3)
    BY <1>7, <1>11
  <2>2. Detached' = Detached
    BY <1>1 DEF Detached
  <2>3. cached'.prefix = SubSeq(va, 1, Len(cached'.prefix))
    BY <1>10, <1>11
  <2>. QED
    BY <1>1, <1>11, <1>12, <1>13, <2>1, <2>2, <2>3 DEF CacheOK
<1>15. Detached' = Detached /\ Pending' = Pending
  BY <1>1 DEF Detached, Pending
<1>16. UNCHANGED <<active, boot_info, owned>>
  BY <1>1 DEF Quiet, pmmVars
<1>17. OpOK(depth, route)'
  <2>1. OpOK(depth, route)
    BY <1>4 DEF Tree
  <2>2. /\ MadeChain(depth, route)' <=> MadeChain(depth, route)
        /\ AtTable(depth, route)' <=> AtTable(depth, route)
    BY <1>1 DEF MadeChain, AtTable
  <2>. QED
    BY <1>1, <1>16, <2>1, <2>2 DEF OpOK
<1>18. NoneEmpty(depth, route)' /\ IdentityOK(depth, route)'
  BY <1>1, <1>3, <1>4, <1>15, <1>16, RunningStages, QuietNoneEmpty, QuietIdentity DEF Tree
<1>. QED
  BY <1>1, <1>3, <1>4, <1>14, <1>15, <1>17, <1>18, QuietTree
-----------------------------------------------------------------------------
(* The callers of the API.                                                 *)

(* A caller takes a page or gives one back.                                *)
LEMMA CallerStep ==
  ASSUME PagingInv, pc = "idle", UNCHANGED <<table_pages, mem, paging_root, active, pc, op, cached>>,
         PmmInv', Ownership', UNCHANGED <<eligible, ready, boot_info>>,
         NEW depth, NEW route, Tree(depth, route),
         \A t \in DOMAIN mem : depth[t] = 3 /\ route[t][1] = DYNAMIC =>
           \A i \in DOMAIN mem[t] : mem[t][i].page \in owned'
  PROVE  PagingInv'
<1>1. pc \in Running /\ pc # "boot" /\ active
  BY RunningStages DEF PagingInv, Stages
<1>2. Stages'
  BY <1>1, StagesKept DEF PagingInv
<1>3. EntriesOK(mem)'
  BY DEF PagingInv, EntriesOK
<1>4. OpOK(depth, route)' /\ Detached' = {} /\ Pending' = {}
  BY IdleOp
<1>5. Detached = {} /\ Pending = {}
  BY RunningStages, DetachedIs, PendingIs
<1>6. WindowOK(depth, route)'
  BY <1>1 DEF Tree, WindowOK
<1>7. CacheOK(depth, route)' /\ NoneEmpty(depth, route)' /\ IdentityOK(depth, route)'
  BY <1>4, <1>5, QuietCache, QuietNoneEmpty, QuietIdentity DEF Tree
<1>8. Tree(depth, route)'
  BY <1>4, <1>5, <1>6, <1>7 DEF Tree
<1>. QED
  BY <1>2, <1>3, <1>8 DEF PagingInv

(* A caller takes a page from pmm_alloc.                                   *)
LEMMA CallerAllocStep ==
  ASSUME PagingInv, caller_alloc
  PROVE  PagingInv'
<1>1. /\ pc = "idle" /\ UNCHANGED <<table_pages, mem, paging_root, active, pc, op, cached>>
      /\ \E page \in Pages : pmm_alloc(page) /\ owned' = owned \cup {page}
  BY DEF caller_alloc
<1>2. PICK page \in Pages : pmm_alloc(page) /\ owned' = owned \cup {page}
  BY <1>1
<1>3. /\ PmmInv' /\ page \notin allocated /\ allocated' = allocated \cup {page}
      /\ UNCHANGED <<eligible, ready, boot_info>>
  BY <1>2, AllocFresh DEF PagingInv
<1>4. Ownership'
  BY <1>1, <1>2, <1>3 DEF PagingInv, Ownership
<1>5. PICK depth, route : Tree(depth, route)
  BY <1>1, RunningStages DEF PagingInv
<1>6. \A t \in DOMAIN mem : depth[t] = 3 /\ route[t][1] = DYNAMIC =>
        \A i \in DOMAIN mem[t] : mem[t][i].page \in owned'
  BY <1>2, <1>5 DEF Tree, WindowOK
<1>. QED
  BY <1>1, <1>3, <1>4, <1>5, <1>6, CallerStep

(* A caller gives back a page that no window address shows.                *)
LEMMA CallerFreeStep ==
  ASSUME PagingInv, caller_free
  PROVE  PagingInv'
<1>1. /\ pc = "idle" /\ UNCHANGED <<table_pages, mem, paging_root, active, pc, op, cached>>
      /\ \E page \in owned : /\ \A va \in Windows : \A e \in leaf(va) : e.page # page
                             /\ pmm_free(page * PMM_PAGE_SIZE)
                             /\ owned' = owned \ {page}
  BY DEF caller_free
<1>2. PICK page \in owned : /\ \A va \in Windows : \A e \in leaf(va) : e.page # page
                            /\ pmm_free(page * PMM_PAGE_SIZE)
                            /\ owned' = owned \ {page}
  BY <1>1
<1>3. page \in allocated /\ ready /\ page \notin Range(table_pages)
  BY <1>1, <1>2 DEF PagingInv, Ownership, Stages
<1>4. /\ PmmInv' /\ allocated' = allocated \ {page} /\ UNCHANGED <<eligible, ready, boot_info>>
  BY <1>2, <1>3, FreeHeld DEF PagingInv
<1>5. Ownership'
  BY <1>1, <1>2, <1>3, <1>4 DEF PagingInv, Ownership
<1>6. PICK depth, route : Tree(depth, route)
  BY <1>1, RunningStages DEF PagingInv
<1>7. ASSUME NEW t \in DOMAIN mem, depth[t] = 3, route[t][1] = DYNAMIC, NEW i \in DOMAIN mem[t]
      PROVE  mem[t][i].page \in owned'
  <2>1. /\ mem[t][i].page \in owned
        /\ \E va \in Windows : On(t, va, depth, route) /\ va[4] = i
    BY <1>6, <1>7 DEF Tree, WindowOK
  <2>2. PICK va \in Windows : On(t, va, depth, route) /\ va[4] = i
    BY <2>1
  <2>3. mem[t][i] \in LeafEntry(mem, depth, route, va)
    BY <1>7, <2>2 DEF LeafEntry, TablesOn
  <2>4. mem[t][i] \in leaf(va)
    BY <1>6, <2>3, LeafFound
  <2>. QED
    BY <1>2, <2>1, <2>4
<1>. QED
  BY <1>1, <1>4, <1>5, <1>6, <1>7, CallerStep
-----------------------------------------------------------------------------
(* Stores to leaf entries.                                                 *)

(* m2 differs from m at most in entry i of table t.                        *)
Stored(m, m2, t, i) ==
  /\ DOMAIN m2 = DOMAIN m
  /\ \A u \in DOMAIN m \ {t} : m2[u] = m[u]
  /\ DOMAIN m2[t] \ {i} = DOMAIN m[t] \ {i}
  /\ \A k \in DOMAIN m[t] \ {i} : m2[t][k] = m[t][k]

(* A store of a new entry.                                                 *)
LEMMA PutStores ==
  ASSUME NEW m, NEW t \in DOMAIN m, NEW i, NEW e
  PROVE  LET m2 == WithEntry(m, t, i, e)
         IN  Stored(m, m2, t, i) /\ DOMAIN m2[t] = DOMAIN m[t] \cup {i} /\ m2[t][i] = e
BY DEF Stored, put, WithEntry

(* A store of 0.                                                           *)
LEMMA DropStores ==
  ASSUME NEW m, NEW t \in DOMAIN m, NEW i
  PROVE  LET m2 == WithoutEntry(m, t, i)
         IN  Stored(m, m2, t, i) /\ DOMAIN m2[t] = DOMAIN m[t] \ {i}
BY DEF Stored, drop, Restrict, WithoutEntry

(* An address whose entry it is not.                                       *)
LEMMA StoredElsewhere ==
  ASSUME NEW m, NEW m2, NEW t \in DOMAIN m, NEW i, Stored(m, m2, t, i), NEW depth, NEW route, NEW va,
         ~(On(t, va, depth, route) /\ va[4] = i)
  PROVE  LeafEntry(m2, depth, route, va) = LeafEntry(m, depth, route, va)
<1>1. ASSUME NEW e \in LeafEntry(m, depth, route, va)
      PROVE  e \in LeafEntry(m2, depth, route, va)
  <2>1. PICK u \in DOMAIN m : /\ depth[u] = 3 /\ On(u, va, depth, route)
                              /\ va[4] \in DOMAIN m[u] /\ e = m[u][va[4]]
    BY LeafOnWalk
  <2>2. u \in DOMAIN m2 /\ va[4] \in DOMAIN m2[u] /\ e = m2[u][va[4]]
    BY <2>1 DEF Stored
  <2>. QED
    BY <2>1, <2>2 DEF LeafEntry, TablesOn
<1>2. ASSUME NEW e \in LeafEntry(m2, depth, route, va)
      PROVE  e \in LeafEntry(m, depth, route, va)
  <2>1. PICK u \in DOMAIN m2 : /\ depth[u] = 3 /\ On(u, va, depth, route)
                               /\ va[4] \in DOMAIN m2[u] /\ e = m2[u][va[4]]
    BY LeafOnWalk
  <2>2. u \in DOMAIN m /\ va[4] \in DOMAIN m[u] /\ e = m[u][va[4]]
    BY <2>1 DEF Stored
  <2>. QED
    BY <2>1, <2>2 DEF LeafEntry, TablesOn
<1>. QED
  BY <1>1, <1>2

(* The tree does not change.                                               *)
LEMMA StoredTree ==
  ASSUME NEW m, NEW m2, NEW t \in DOMAIN m, NEW i, Stored(m, m2, t, i),
         NEW root, NEW depth, NEW route, depth[t] = 3,
         Shape(m, root, depth, route), Attached(m, root, depth, route, {})
  PROVE  Shape(m2, root, depth, route) /\ Attached(m2, root, depth, route, {})
<1>1. DOMAIN m2 = DOMAIN m /\ \A u \in DOMAIN m : depth[u] < 3 =>
        DOMAIN m2[u] = DOMAIN m[u] /\ \A k \in DOMAIN m[u] : m2[u][k] = m[u][k]
  BY DEF Stored
<1>. QED
  BY <1>1, LeafStore

(* Two addresses with the same four indices are the same.                  *)
LEMMA SamePath ==
  ASSUME NEW x \in Seq(Nat), NEW y \in Seq(Nat), Len(x) = 4, Len(y) = 4, Agree(x, y, 4)
  PROVE  x = y
BY SeqEqual DEF Agree

(* A cached leaf entry is still there, or of the address the store is for. *)
LEMMA StoredCache ==
  ASSUME NEW t \in DOMAIN mem, NEW va \in Windows, Stored(mem, mem', t, va[4]),
         NEW depth, NEW route, depth[t] = 3, On(t, va, depth, route), CacheOK(depth, route),
         pc \notin {"invalidate", "unmap_invalidate"}, cached' = cached,
         pc' \in {"invalidate", "unmap_invalidate"}, op'.va = va
  PROVE  CacheOK(depth, route)'
<1>1. PICK p : p = cached.prefix
  OBVIOUS
<1>2. p \in Seq(Nat) /\ Len(p) <= 4 /\ (Len(p) > 0 => \E w \in Windows : p = SubSeq(w, 1, Len(p)))
  BY <1>1 DEF CacheOK
<1>3. Len(p) \in 1 .. 3 =>
        /\ cached.page \in DOMAIN mem' /\ depth[cached.page] = Len(p)
        /\ On(cached.page, p, depth, route) /\ cached.flags = {"W", "X"}
  BY <1>1 DEF CacheOK, Stored
<1>4. Len(p) = 4 => p = va \/ LeafEntry(mem', depth, route, p) = {entry(cached.page, cached.flags)}
  <2>. SUFFICES ASSUME Len(p) = 4, ~(LeafEntry(mem', depth, route, p) = {entry(cached.page, cached.flags)})
                PROVE  p = va
    OBVIOUS
  <2>1. LeafEntry(mem, depth, route, p) = {entry(cached.page, cached.flags)}
    BY <1>1 DEF CacheOK
  <2>2. On(t, p, depth, route) /\ p[4] = va[4]
    BY <2>1, StoredElsewhere
  <2>3. Agree(p, va, 4)
    BY <2>2 DEF On, Agree
  <2>. QED
    BY <1>2, <2>3, SamePath, WindowIndices
<1>5. pc' \notin {"roll_back_release", "reclaim_release"}
  OBVIOUS
<1>. QED
  BY <1>1, <1>2, <1>3, <1>4, <1>5 DEF CacheOK

(* The identity map shares no table with the window.                       *)
LEMMA StoredIdentity ==
  ASSUME NEW t \in DOMAIN mem, NEW va \in Windows, Stored(mem, mem', t, va[4]),
         NEW depth, NEW route, depth[t] = 3, On(t, va, depth, route), IdentityOK(depth, route),
         UNCHANGED <<active, boot_info>>, pc' \notin {"map_page", "verify"}
  PROVE  IdentityOK(depth, route)'
<1>1. route[t][1] = DYNAMIC
  BY WindowIndices DEF On, Agree
<1>2. ASSUME NEW page \in Pages
      PROVE  Found(depth, route, page)' = Found(depth, route, page)
  <2>1. identity(page)[1] = 0
    BY IdentityIndices
  <2>2. ~On(t, identity(page), depth, route)
    BY <1>1, <2>1 DEF On, Agree, DYNAMIC
  <2>. QED
    BY <2>2, StoredElsewhere DEF Found
<1>3. Visited' = Visited /\ guards(boot_info)' = guards(boot_info)
  BY DEF Visited
<1>4. \A page \in Visited \cap Pages : Found(depth, route, page)' = Found(depth, route, page)
  BY <1>2
<1>. HIDE DEF Found, Visited, guards
<1>. QED
  BY <1>2, <1>3, <1>4 DEF IdentityOK
(* A store to the entry of an address of the window: what is left to show. *)
LEMMA StoreStep ==
  ASSUME PagingInv, pc \in Running, NEW depth, NEW route, Tree(depth, route), Detached = {},
         NEW t \in DOMAIN mem, NEW va \in Windows, Stored(mem, mem', t, va[4]),
         depth[t] = 3, On(t, va, depth, route),
         va[4] \in DOMAIN mem'[t] =>
           mem'[t][va[4]] \in Entries /\ mem'[t][va[4]].page \in owned,
         UNCHANGED <<pmmVars, table_pages, paging_root, active, cached, owned>>,
         pc \notin {"invalidate", "unmap_invalidate"},
         pc' \in {"invalidate", "unmap_invalidate"}, op'.va = va,
         OpOK(depth, route)', NoneEmpty(depth, route)'
  PROVE  /\ PagingInv' /\ SeenAt(va)
         /\ leaf(va) = (IF va[4] \in DOMAIN mem[t] THEN {mem[t][va[4]]} ELSE {})
         /\ leaf(va)' = (IF va[4] \in DOMAIN mem'[t] THEN {mem'[t][va[4]]} ELSE {})
<1>1. /\ Shape(mem, paging_root, depth, route) /\ Attached(mem, paging_root, depth, route, {})
      /\ CacheOK(depth, route) /\ WindowOK(depth, route) /\ IdentityOK(depth, route)
  BY DEF Tree
<1>2. /\ DOMAIN mem' = DOMAIN mem /\ \A u \in DOMAIN mem \ {t} : mem'[u] = mem[u]
      /\ DOMAIN mem'[t] \ {va[4]} = DOMAIN mem[t] \ {va[4]}
      /\ \A k \in DOMAIN mem[t] \ {va[4]} : mem'[t][k] = mem[t][k]
  BY DEF Stored
<1>3. table_pages # <<>>
  BY DEF PagingInv, Ownership, Range
<1>4. PmmInv' /\ Ownership' /\ UNCHANGED <<eligible, ready, boot_info>>
  BY <1>2, <1>3, OwnershipKept DEF PagingInv
<1>5. /\ pc # "boot" /\ pc' \in Running /\ active /\ pc' \notin {"map_page", "verify"}
      /\ pc' \notin RollingBack \cup Reclaiming
  <2>1. pc' \in Running /\ pc' \notin RollingBack \cup Reclaiming
    BY DEF Running, Unmapping, RollingBack, Reclaiming
  <2>. QED
    BY <2>1, RunningStages DEF PagingInv, Stages
<1>6. Stages'
  BY <1>4, <1>5, StagesKept DEF PagingInv
<1>7. EntriesOK(mem')
  BY <1>2 DEF PagingInv, EntriesOK
<1>8. Shape(mem', paging_root, depth, route) /\ Attached(mem', paging_root, depth, route, {})
  BY <1>1, StoredTree
<1>9. CacheOK(depth, route)'
  BY <1>1, StoredCache
<1>10. IdentityOK(depth, route)'
  BY <1>1, <1>4, <1>5, StoredIdentity
<1>11. WindowOK(depth, route)'
  <2>1. ASSUME NEW u \in DOMAIN mem', depth[u] = 3, route[u][1] = DYNAMIC, NEW k \in DOMAIN mem'[u]
        PROVE  /\ mem'[u][k].page \in owned'
               /\ \E w \in Windows : On(u, w, depth, route) /\ w[4] = k
    <3>1. CASE u = t /\ k = va[4]
      BY <3>1
    <3>2. CASE ~(u = t /\ k = va[4])
      <4>1. u \in DOMAIN mem /\ k \in DOMAIN mem[u] /\ mem'[u][k] = mem[u][k]
        BY <1>2, <2>1, <3>2
      <4>. QED
        BY <1>1, <2>1, <4>1 DEF WindowOK
    <3>. QED
      BY <3>1, <3>2
  <2>. QED
    BY <1>5, <2>1 DEF WindowOK
<1>12. Detached' = {}
  BY <1>5, DetachedWillBe
<1>13. Tree(depth, route)'
  BY <1>8, <1>9, <1>10, <1>11, <1>12 DEF Tree
<1>14. \A w : leaf(w) = LeafEntry(mem, depth, route, w) /\ leaf(w)' = LeafEntry(mem', depth, route, w)
  BY <1>13, LeafFound, LeafWillBe
<1>15. SeenAt(va)
  <2>1. ASSUME NEW w \in Windows \ {va}
        PROVE  LeafEntry(mem', depth, route, w) = LeafEntry(mem, depth, route, w)
    <3>1. ASSUME On(t, w, depth, route), w[4] = va[4]
          PROVE  FALSE
      <4>1. Agree(w, va, 3)
        BY <3>1 DEF On, Agree
      <4>2. \A j \in 1 .. 4 : j \in 1 .. 3 \/ j = 4
        OBVIOUS
      <4>3. Agree(w, va, 4)
        BY <3>1, <4>1, <4>2 DEF Agree
      <4>. QED
        BY <2>1, <4>3, SamePath, WindowIndices
    <3>. QED
      BY <3>1, StoredElsewhere
  <2>. QED
    BY <1>14, <2>1 DEF SeenAt
<1>16. /\ LeafEntry(mem, depth, route, va) = (IF va[4] \in DOMAIN mem[t] THEN {mem[t][va[4]]} ELSE {})
       /\ LeafEntry(mem', depth, route, va) = (IF va[4] \in DOMAIN mem'[t] THEN {mem'[t][va[4]]} ELSE {})
  BY <1>1, <1>2, <1>8, LeafIs
<1>. QED
  BY <1>4, <1>6, <1>7, <1>13, <1>14, <1>15, <1>16 DEF PagingInv

(* The tables a paging_map has made, but the last, hold a link.            *)
LEMMA ChainHolds ==
  ASSUME NEW s \in Seq(Made), NEW m, NEW va, NEW root, NEW depth, NEW route,
         Shape(m, root, depth, route), Attached(m, root, depth, route, {}),
         Chain(s, m, va, depth, route), NEW k \in 1 .. Len(s), k < Len(s)
  PROVE  DOMAIN m[s[k].child] # {}
<1>1. PICK n \in Nat : n = Len(s)
  BY LenProperties
<1>2. k + 1 \in 1 .. Len(s)
  BY <1>1
<1>3. /\ MadeAt(s[k], m, va, depth, route) /\ MadeAt(s[k + 1], m, va, depth, route)
      /\ MadeAbove(s[k], s[k + 1], m, va, depth)
  BY <1>2 DEF Chain
<1>4. /\ s[k].child \in DOMAIN m /\ s[k + 1].child \in DOMAIN m
      /\ depth[s[k + 1].child] = depth[s[k].child] + 1
      /\ On(s[k].child, va, depth, route) /\ On(s[k + 1].child, va, depth, route)
  BY <1>3 DEF MadeAt, MadeAbove
<1>5. va[depth[s[k + 1].child]] \in DOMAIN m[s[k].child]
  BY <1>4, ParentHolds
<1>. QED
  BY <1>5

(* paging_map stores the leaf entry.                                       *)
LEMMA MapLeafStep ==
  ASSUME PagingInv, pc = "map", op.level = 4,
         mem' = WithEntry(mem, op.table, op.va[4], entry(op.page, op.flags)),
         pc' = "invalidate",
         UNCHANGED <<op, pmmVars, table_pages, paging_root, active, cached, owned>>
  PROVE  /\ PagingInv' /\ op.va \in Windows /\ SeenAt(op.va)
         /\ op.va[4] \notin DOMAIN mem[op.table] => leaf(op.va) = {}
<1>1. pc \in Running /\ pc \in Mapping /\ pc \notin RollingBack \cup Reclaiming
  BY DEF Running, Mapping, RollingBack, Reclaiming
<1>2. PICK depth, route : Tree(depth, route)
  BY <1>1 DEF PagingInv
<1>3. Detached = {} /\ Pending = Children(op.created)
  BY <1>1, DetachedIs, PendingIs
<1>4. PICK t, va : t = op.table /\ va = op.va
  OBVIOUS
<1>5. /\ op \in MapOp /\ op.page \in owned /\ Chain(op.created, mem, va, depth, route)
      /\ t \in DOMAIN mem /\ depth[t] = 3 /\ On(t, va, depth, route)
      /\ op.created # <<>> => Last(op.created).child = t
  <2>1. OpOK(depth, route)
    BY <1>2 DEF Tree
  <2>2. AtTable(depth, route) /\ MadeChain(depth, route) /\ op \in MapOp /\ op.page \in owned
    BY <1>1, <2>1 DEF OpOK
  <2>3. op.created # <<>> => Last(op.created).child = op.table
    BY <2>1 DEF OpOK
  <2>. QED
    BY <1>4, <2>2, <2>3 DEF AtTable, MadeChain
<1>6. va \in Windows /\ entry(op.page, op.flags) \in Entries /\ op.created \in Seq(Made)
  BY <1>4, <1>5 DEF MapOp, entry, Entries
<1>7. mem' = WithEntry(mem, t, va[4], entry(op.page, op.flags))
  BY <1>4
<1>8. /\ Stored(mem, mem', t, va[4]) /\ DOMAIN mem'[t] = DOMAIN mem[t] \cup {va[4]}
      /\ mem'[t][va[4]] = entry(op.page, op.flags)
  BY <1>5, <1>7, PutStores
<1>9. entry(op.page, op.flags).page = op.page
  BY DEF entry
<1>10. OpOK(depth, route)' /\ Pending' = {}
  <2>1. Pending' = {}
    BY RunningStages, PendingWillBe
  <2>. QED
    BY <1>4, <1>6, <2>1 DEF OpOK, Mapping, Unmapping
<1>11. NoneEmpty(depth, route)'
  <2>1. ASSUME NEW u \in DOMAIN mem', depth[u] > 0, route[u][1] = DYNAMIC
        PROVE  DOMAIN mem'[u] # {}
    <3>1. CASE u = t
      BY <1>8, <3>1
    <3>2. CASE u # t
      <4>1. u \in DOMAIN mem /\ mem'[u] = mem[u]
        BY <1>8, <2>1, <3>2 DEF Stored
      <4>2. CASE u \notin Pending
        BY <1>2, <2>1, <4>1, <4>2 DEF Tree, NoneEmpty
      <4>3. CASE u \in Pending
        <5>1. PICK k \in 1 .. Len(op.created) : u = op.created[k].child
          BY <1>3, <4>3 DEF Children
        <5>2. Len(op.created) \in Nat
          BY <1>6, LenProperties
        <5>3. k = Len(op.created) \/ k < Len(op.created)
          BY <5>2
        <5>4. k # Len(op.created)
          <6>1. op.created # <<>>
            BY <5>2, EmptySeq
          <6>. QED
            BY <1>5, <3>2, <5>1, <6>1 DEF Last
        <5>5. DOMAIN mem[op.created[k].child] # {}
          BY <1>2, <1>3, <1>5, <1>6, <5>3, <5>4, ChainHolds DEF Tree
        <5>. QED
          BY <4>1, <5>1, <5>5
      <4>. QED
        BY <4>2, <4>3
    <3>. QED
      BY <3>1, <3>2
  <2>. QED
    BY <2>1 DEF NoneEmpty
<1>12. op'.va = va
  BY <1>4
<1>13. /\ PagingInv' /\ SeenAt(va)
       /\ leaf(va) = (IF va[4] \in DOMAIN mem[t] THEN {mem[t][va[4]]} ELSE {})
  BY <1>1, <1>2, <1>3, <1>5, <1>6, <1>8, <1>9, <1>10, <1>11, <1>12, StoreStep
<1>. QED
  BY <1>4, <1>6, <1>13
-----------------------------------------------------------------------------
(* paging_unmap and paging_protect.                                        *)

(* A walk that reaches a table has come through one at every level.        *)
LEMMA ReachedAbove ==
  ASSUME NEW m, NEW root, NEW depth, NEW route, NEW Loose, NEW va, NEW n \in 0 .. 2,
         Shape(m, root, depth, route), Attached(m, root, depth, route, Loose),
         Reached(m, depth, route, Loose, n + 1, va) # {}
  PROVE  Reached(m, depth, route, Loose, n, va) # {}
<1>1. Step(m, {}, va[n + 1]) = {}
  BY DEF Step
<1>. QED
  BY <1>1, WalkStep

(* The tables that path finds.                                             *)
LEMMA PathFound ==
  ASSUME NEW depth, NEW route, Tree(depth, route), NEW va, path(va)
  PROVE  /\ \A l \in 0 .. 3 : /\ table_at(va, l) \in DOMAIN mem /\ depth[table_at(va, l)] = l
                              /\ On(table_at(va, l), va, depth, route)
         /\ va[4] \in DOMAIN mem[table_at(va, 3)]
         /\ table_at(va, 4) = mem[table_at(va, 3)][va[4]].page
<1>1. Shape(mem, paging_root, depth, route) /\ Attached(mem, paging_root, depth, route, Detached)
  BY DEF Tree
<1>2. leaf(va) = LeafEntry(mem, depth, route, va) /\ leaf(va) # {}
  BY LeafFound DEF path
<1>. DEFINE R(n) == Reached(mem, depth, route, Detached, n, va)
<1>3. \A n \in 1 .. 3 : walk(va)[n] = R(n)
  BY <1>1, WalkFinds, WalkIs
<1>4. PICK t \in DOMAIN mem : depth[t] = 3 /\ On(t, va, depth, route) /\ va[4] \in DOMAIN mem[t]
  BY <1>2, LeafOnWalk
<1>5. R(3) # {}
  <2>1. t \notin Detached
    BY <1>1, <1>4 DEF Attached
  <2>. QED
    BY <1>4, <2>1 DEF Reached, TablesOn
<1>6. R(2) # {} /\ R(1) # {}
  <2>1. ASSUME NEW n \in 0 .. 2, R(n + 1) # {}
        PROVE  R(n) # {}
    BY <1>1, <2>1, ReachedAbove
  <2>. HIDE DEF R
  <2>2. 2 \in 0 .. 2 /\ 1 \in 0 .. 2 /\ 2 + 1 = 3 /\ 1 + 1 = 2
    OBVIOUS
  <2>. QED
    BY <1>5, <2>1, <2>2
<1>7. ASSUME NEW l \in 1 .. 3
      PROVE  /\ table_at(va, l) \in DOMAIN mem /\ depth[table_at(va, l)] = l
             /\ On(table_at(va, l), va, depth, route)
  <2>1. l = 1 \/ l = 2 \/ l = 3
    OBVIOUS
  <2>2. R(l) # {}
    BY <1>5, <1>6, <2>1
  <2>3. PICK e : e = CHOOSE f \in walk(va)[l] : TRUE
    OBVIOUS
  <2>4. e \in R(l) /\ table_at(va, l) = e.page
    <3>1. walk(va)[l] # {} /\ walk(va)[l] = R(l)
      BY <1>3, <2>2
    <3>. HIDE DEF R
    <3>. QED
      BY <2>3, <3>1 DEF table_at
  <2>5. PICK u \in TablesOn(mem, depth, route, l, va) : e = link(u)
    BY <2>4 DEF Reached
  <2>6. e.page = u
    BY <2>5 DEF link, entry
  <2>. QED
    BY <2>4, <2>5, <2>6 DEF TablesOn
<1>8. /\ table_at(va, 0) \in DOMAIN mem /\ depth[table_at(va, 0)] = 0
      /\ On(table_at(va, 0), va, depth, route)
  <2>1. table_at(va, 0) = paging_root
    BY DEF table_at
  <2>2. paging_root \in DOMAIN mem /\ depth[paging_root] = 0
    BY <1>1 DEF Shape, Rooted
  <2>. QED
    BY <1>1, <2>1, <2>2, RootOnly
<1>9. table_at(va, 3) = t
  <2>1. 3 \in 1 .. 3
    OBVIOUS
  <2>2. /\ table_at(va, 3) \in DOMAIN mem /\ depth[table_at(va, 3)] = 3
        /\ On(table_at(va, 3), va, depth, route)
    BY <1>7, <2>1
  <2>. QED
    BY <1>1, <1>4, <2>2, OneTable
<1>10. table_at(va, 4) = mem[t][va[4]].page
  <2>1. leaf(va) = {mem[t][va[4]]}
    BY <1>1, <1>2, <1>4, LeafIs
  <2>2. walk(va)[4] = leaf(va)
    BY WalkIs
  <2>3. table_at(va, 4) = (CHOOSE f \in walk(va)[4] : TRUE).page
    BY DEF table_at
  <2>. QED
    BY <2>1, <2>2, <2>3
<1>11. \A l \in 0 .. 3 : l = 0 \/ l \in 1 .. 3
  OBVIOUS
<1>. QED
  BY <1>4, <1>7, <1>8, <1>9, <1>10, <1>11

(* Between operations.                                                     *)
LEMMA IdleState ==
  ASSUME PagingInv, pc = "idle"
  PROVE  /\ pc \in Running /\ active /\ Detached = {} /\ Pending = {}
         /\ \E depth, route : Tree(depth, route)
<1>1. pc \in Running /\ pc \notin Mapping \cup Unmapping \cup RollingBack \cup Reclaiming
  BY RunningStages
<1>. QED
  BY <1>1, DetachedIs, PendingIs DEF PagingInv, Stages

(* paging_unmap clears the leaf entry.                                     *)
LEMMA PagingUnmapStep ==
  ASSUME PagingInv, NEW va \in Windows \cup Outside, paging_unmap(va)
  PROVE  PagingInv' /\ va \in Windows /\ SeenAt(va) /\ leaf(va)' = {}
<1>1. PICK t : t = table_at(va, 3)
  OBVIOUS
<1>2. /\ pc = "idle" /\ va \in Windows /\ path(va)
      /\ mem' = WithoutEntry(mem, t, va[4])
      /\ op' = [va |-> va, level |-> 3, tables |-> [level \in 0 .. 3 |-> table_at(va, level)]]
      /\ pc' = "unmap_invalidate"
      /\ UNCHANGED <<pmmVars, table_pages, paging_root, active, cached, owned>>
  BY <1>1 DEF paging_unmap, dynamic_address, WithoutEntry
<1>3. pc \in Running /\ Detached = {} /\ Pending = {}
  BY <1>2, IdleState
<1>4. PICK depth, route : Tree(depth, route)
  BY <1>2, IdleState
<1>5. /\ \A l \in 0 .. 3 : /\ table_at(va, l) \in DOMAIN mem /\ depth[table_at(va, l)] = l
                           /\ On(table_at(va, l), va, depth, route)
      /\ va[4] \in DOMAIN mem[t]
  BY <1>1, <1>2, <1>4, PathFound
<1>6. t \in DOMAIN mem /\ depth[t] = 3 /\ On(t, va, depth, route)
  BY <1>1, <1>5
<1>7. Stored(mem, mem', t, va[4]) /\ DOMAIN mem'[t] = DOMAIN mem[t] \ {va[4]}
  BY <1>2, <1>6, DropStores
<1>8. DOMAIN mem' = DOMAIN mem /\ \A u \in DOMAIN mem \ {t} : mem'[u] = mem[u]
  BY <1>7 DEF Stored
<1>9. /\ op' \in UnmapOp /\ op'.va = va /\ op'.level = 3
      /\ \A l \in 0 .. 3 : op'.tables[l] = table_at(va, l)
  <2>1. DOMAIN mem \subseteq Pages
    BY <1>4 DEF Tree, Shape, Rooted
  <2>2. PICK tables : tables = [level \in 0 .. 3 |-> table_at(va, level)]
    OBVIOUS
  <2>3. tables \in [0 .. 3 -> Pages] /\ \A l \in 0 .. 3 : tables[l] = table_at(va, l)
    BY <1>5, <2>1, <2>2
  <2>4. op' = [va |-> va, level |-> 3, tables |-> tables]
    BY <1>2, <2>2
  <2>5. op' \in UnmapOp /\ op'.va = va /\ op'.level = 3 /\ op'.tables = tables
    BY <1>2, <2>3, <2>4 DEF UnmapOp
  <2>. QED
    BY <2>3, <2>5
<1>10. /\ pc' \in Unmapping /\ pc' \notin Mapping \cup RollingBack \cup Reclaiming
       /\ pc' \notin {"map_page", "map", "invalidate"}
  BY <1>2 DEF Unmapping, Mapping, RollingBack, Reclaiming
<1>11. OpOK(depth, route)'
  BY <1>5, <1>8, <1>9, <1>10 DEF OpOK, RollingBack, Reclaiming
<1>12. NoneEmpty(depth, route)'
  <2>1. t \in Pending'
    <3>1. Pending' = PathTables(op'.tables, op'.level)
      BY <1>10, PendingWillBe
    <3>. QED
      BY <1>1, <1>9, <3>1 DEF PathTables
  <2>. QED
    BY <1>3, <1>4, <1>8, <2>1 DEF Tree, NoneEmpty
<1>13. va[4] \notin DOMAIN mem'[t] /\ pc' \in {"invalidate", "unmap_invalidate"}
       /\ pc \notin {"invalidate", "unmap_invalidate"}
  BY <1>2, <1>7
<1>. QED
  BY <1>2, <1>3, <1>4, <1>6, <1>7, <1>9, <1>11, <1>12, <1>13, StoreStep

(* paging_protect replaces the leaf entry by one of the same page.         *)
LEMMA PagingProtectStep ==
  ASSUME PagingInv, NEW va \in Windows \cup Outside, NEW flags \in FlagSets, paging_protect(va, flags)
  PROVE  /\ PagingInv' /\ va \in Windows /\ SeenAt(va)
         /\ {f.page : f \in leaf(va)'} = {f.page : f \in leaf(va)}
<1>1. PICK t, e : t = table_at(va, 3) /\ e = entry(table_at(va, 4), flags)
  OBVIOUS
<1>2. /\ pc = "idle" /\ va \in Windows /\ path(va) /\ flags \in SUBSET {"W", "X"}
      /\ mem' = WithEntry(mem, t, va[4], e)
      /\ op' = [va |-> va] /\ pc' = "invalidate"
      /\ UNCHANGED <<pmmVars, table_pages, paging_root, active, cached, owned>>
  BY <1>1 DEF paging_protect, dynamic_address, valid_flags, WithEntry
<1>3. pc \in Running /\ Detached = {} /\ Pending = {}
  BY <1>2, IdleState
<1>4. PICK depth, route : Tree(depth, route)
  BY <1>2, IdleState
<1>5. /\ t \in DOMAIN mem /\ depth[t] = 3 /\ On(t, va, depth, route)
      /\ va[4] \in DOMAIN mem[t] /\ table_at(va, 4) = mem[t][va[4]].page
  <2>1. 3 \in 0 .. 3
    OBVIOUS
  <2>. QED
    BY <1>1, <1>2, <1>4, <2>1, PathFound
<1>6. Stored(mem, mem', t, va[4]) /\ DOMAIN mem'[t] = DOMAIN mem[t] \cup {va[4]} /\ mem'[t][va[4]] = e
  BY <1>2, <1>5, PutStores
<1>7. e \in Entries /\ e.page \in owned
  <2>1. mem[t][va[4]].page \in owned
    <3>1. route[t][1] = DYNAMIC
      BY <1>2, <1>5, WindowIndices DEF On, Agree
    <3>. QED
      BY <1>4, <1>5, <3>1 DEF Tree, WindowOK
  <2>2. owned \subseteq Pages
    BY DEF PagingInv, Ownership
  <2>. QED
    BY <1>1, <1>2, <1>5, <2>1, <2>2 DEF entry, Entries
<1>8. op'.va = va
  BY <1>2
<1>9. OpOK(depth, route)'
  BY <1>2, <1>8 DEF OpOK, Mapping, Unmapping
<1>10. NoneEmpty(depth, route)'
  BY <1>3, <1>4, <1>6 DEF Tree, NoneEmpty, Stored
<1>11. pc' \in {"invalidate", "unmap_invalidate"} /\ pc \notin {"invalidate", "unmap_invalidate"}
  BY <1>2
<1>12. /\ PagingInv' /\ SeenAt(va)
       /\ leaf(va) = (IF va[4] \in DOMAIN mem[t] THEN {mem[t][va[4]]} ELSE {})
       /\ leaf(va)' = (IF va[4] \in DOMAIN mem'[t] THEN {mem'[t][va[4]]} ELSE {})
  BY <1>2, <1>3, <1>4, <1>5, <1>6, <1>7, <1>8, <1>9, <1>10, <1>11, StoreStep
<1>13. leaf(va) = {mem[t][va[4]]} /\ leaf(va)' = {e} /\ e.page = mem[t][va[4]].page
  BY <1>1, <1>5, <1>6, <1>12 DEF entry
<1>. QED
  BY <1>2, <1>12, <1>13
-----------------------------------------------------------------------------
(* Unlinking and releasing tables.                                         *)

(* The store that unlinks an empty table: what is left to show.            *)
LEMMA UnlinkStep ==
  ASSUME PagingInv, pc \in {"roll_back", "reclaim"}, NEW depth, NEW route, Tree(depth, route),
         NEW t \in DOMAIN mem, NEW i \in DOMAIN mem[t], depth[t] < 3,
         DOMAIN mem[mem[t][i].page] = {}, mem' = WithoutEntry(mem, t, i),
         UNCHANGED <<pmmVars, table_pages, paging_root, active, cached, owned>>,
         pc' \in {"roll_back_invalidate", "reclaim_invalidate"}, Detached' = {mem[t][i].page},
         OpOK(depth, route)', NoneEmpty(depth, route)'
  PROVE  PagingInv' /\ Unseen
<1>0. /\ pc \in Running /\ pc \notin RollingBack \cup Reclaiming
      /\ pc' \in Running /\ pc' \notin {"map_page", "verify"}
      /\ pc \notin {"invalidate", "unmap_invalidate"}
      /\ pc' \notin {"roll_back_release", "reclaim_release"}
  BY DEF Running, Mapping, Unmapping, RollingBack, Reclaiming
<1>1. /\ Shape(mem, paging_root, depth, route) /\ Attached(mem, paging_root, depth, route, {})
      /\ CacheOK(depth, route) /\ WindowOK(depth, route) /\ IdentityOK(depth, route)
  BY <1>0, DetachedIs DEF Tree
<1>2. PICK c : c = mem[t][i].page
  OBVIOUS
<1>3. /\ Shape(mem', paging_root, depth, route) /\ Attached(mem', paging_root, depth, route, {c})
      /\ DOMAIN mem' = DOMAIN mem /\ DOMAIN mem'[t] = DOMAIN mem[t] \ {i}
      /\ \A k \in DOMAIN mem[t] \ {i} : mem'[t][k] = mem[t][k]
      /\ \A u \in DOMAIN mem \ {t} : mem'[u] = mem[u]
  <2>1. LET m2 == WithoutEntry(mem, t, i)
        IN  /\ Shape(m2, paging_root, depth, route)
            /\ Attached(m2, paging_root, depth, route, {mem[t][i].page})
            /\ DOMAIN m2 = DOMAIN mem /\ DOMAIN m2[t] = DOMAIN mem[t] \ {i}
            /\ \A k \in DOMAIN mem[t] \ {i} : m2[t][k] = mem[t][k]
            /\ \A u \in DOMAIN mem \ {t} : m2[u] = mem[u]
    BY <1>1, Unlink
  <2>. QED
    BY <1>2, <2>1
<1>4. table_pages # <<>>
  BY DEF PagingInv, Ownership, Range
<1>5. PmmInv' /\ Ownership' /\ UNCHANGED <<eligible, ready, boot_info>>
  BY <1>3, <1>4, OwnershipKept DEF PagingInv
<1>6. pc # "boot" /\ active
  BY <1>0, RunningStages DEF PagingInv, Stages
<1>7. Stages'
  BY <1>0, <1>5, <1>6, StagesKept DEF PagingInv
<1>8. EntriesOK(mem')
  BY <1>3 DEF PagingInv, EntriesOK
<1>9. /\ Extends(mem, depth, route, mem', depth, route)
      /\ SameLeaves(mem, depth, route, mem', depth, route)
  BY <1>3 DEF Extends, SameLeaves, LeavesIn
<1>10. CacheOK(depth, route)'
  BY <1>0, <1>1, <1>9, CacheKept
<1>11. WindowOK(depth, route)'
  BY <1>1, <1>6, <1>9, WindowKept
<1>12. IdentityOK(depth, route)'
  BY <1>0, <1>1, <1>5, <1>9, IdentityKept
<1>13. Tree(depth, route)'
  BY <1>2, <1>3, <1>10, <1>11, <1>12 DEF Tree
<1>14. Unseen
  BY <1>9, <1>13, LinksUnseen
<1>. QED
  BY <1>5, <1>7, <1>8, <1>13, <1>14 DEF PagingInv

(* The release of the table: what is left to show.                         *)
LEMMA ReleaseStep ==
  ASSUME PagingInv, pc \in {"roll_back_release", "reclaim_release"}, NEW depth, NEW route,
         Tree(depth, route), NEW c, Detached = {c}, release_table(c),
         UNCHANGED <<paging_root, active, cached, owned>>,
         pc' \in {"roll_back", "reclaim"}
  PROVE  /\ c \in DOMAIN mem /\ Attached(mem, paging_root, depth, route, {c})
         /\ DOMAIN mem' = DOMAIN mem \ {c} /\ \A u \in DOMAIN mem \ {c} : mem'[u] = mem[u]
         /\ OpOK(depth, route)' /\ NoneEmpty(depth, route)' => PagingInv' /\ Unseen
<1>0. /\ pc \in Running /\ pc' \in Running /\ pc' \notin RollingBack \cup Reclaiming
      /\ pc' \notin {"map_page", "verify"}
      /\ pc \notin {"invalidate", "unmap_invalidate"}
      /\ pc' \notin {"roll_back_release", "reclaim_release"}
  BY DEF Running, Mapping, Unmapping, RollingBack, Reclaiming
<1>1. /\ Shape(mem, paging_root, depth, route) /\ Attached(mem, paging_root, depth, route, {c})
      /\ CacheOK(depth, route) /\ WindowOK(depth, route) /\ IdentityOK(depth, route)
  BY DEF Tree
<1>2. c \in DOMAIN mem /\ DOMAIN mem[c] = {}
  BY <1>1 DEF Attached
<1>3. ready /\ pc # "boot" /\ active
  BY <1>0, RunningStages DEF PagingInv, Stages
<1>4. /\ PmmInv' /\ Ownership' /\ UNCHANGED <<eligible, ready, boot_info>>
      /\ mem' = Released(mem, {c})
  BY <1>2, <1>3, ReleaseTable DEF PagingInv
<1>5. /\ Shape(mem', paging_root, depth, route) /\ Attached(mem', paging_root, depth, route, {})
      /\ DOMAIN mem' = DOMAIN mem \ {c} /\ \A u \in DOMAIN mem \ {c} : mem'[u] = mem[u]
  <2>1. TreeWithout(mem, Released(mem, Detached), paging_root, depth, route, Detached)
    BY Release DEF Tree
  <2>. QED
    BY <1>4, <2>1 DEF TreeWithout
<1>6. Stages'
  BY <1>0, <1>3, <1>4, StagesKept DEF PagingInv
<1>7. EntriesOK(mem')
  BY <1>5 DEF PagingInv, EntriesOK
<1>8. SameLeaves(mem, depth, route, mem', depth, route)
  <2>1. LeavesIn(mem, depth, route, mem', depth, route)
    BY <1>2, <1>5 DEF LeavesIn
  <2>2. LeavesIn(mem', depth, route, mem, depth, route)
    BY <1>5 DEF LeavesIn
  <2>. QED
    BY <2>1, <2>2 DEF SameLeaves
<1>9. WindowOK(depth, route)' /\ IdentityOK(depth, route)'
  BY <1>0, <1>1, <1>3, <1>4, <1>8, WindowKept, IdentityKept
<1>10. CacheOK(depth, route)'
  <2>1. PICK p : p = cached.prefix
    OBVIOUS
  <2>2. p \in Seq(Nat) /\ Len(p) <= 4 /\ (Len(p) > 0 => \E w \in Windows : p = SubSeq(w, 1, Len(p)))
    BY <1>1, <2>1 DEF CacheOK
  <2>3. Len(p) \in 1 .. 3 =>
          /\ cached.page \in DOMAIN mem' /\ depth[cached.page] = Len(p)
          /\ On(cached.page, p, depth, route) /\ cached.flags = {"W", "X"}
    BY <1>1, <1>5, <2>1 DEF CacheOK
  <2>4. Len(p) = 4 => LeafEntry(mem, depth, route, p) = {entry(cached.page, cached.flags)}
    BY <1>0, <1>1, <2>1 DEF CacheOK
  <2>5. Len(p) = 4 => LeafEntry(mem', depth, route, p) = {entry(cached.page, cached.flags)}
    BY <1>8, <2>4, SameEntries
  <2>. QED
    BY <1>0, <2>1, <2>2, <2>3, <2>5 DEF CacheOK
<1>11. Detached' = {}
  BY <1>0, DetachedWillBe
<1>12. OpOK(depth, route)' /\ NoneEmpty(depth, route)' => Tree(depth, route)'
  BY <1>5, <1>9, <1>10, <1>11 DEF Tree
<1>13. Tree(depth, route)' => Unseen
  BY <1>8, LinksUnseen
<1>. QED
  BY <1>1, <1>2, <1>4, <1>5, <1>6, <1>7, <1>12, <1>13 DEF PagingInv

(* The loop of paging_unmap unlinks an empty table.                        *)
LEMMA ReclaimStep ==
  ASSUME PagingInv, pc = "reclaim", op.level # 0, DOMAIN mem[op.tables[op.level]] = {},
         mem' = WithoutEntry(mem, op.tables[op.level - 1], op.va[op.level]),
         pc' = "reclaim_invalidate",
         UNCHANGED <<op, pmmVars, table_pages, paging_root, active, cached, owned>>
  PROVE  PagingInv' /\ Unseen
<1>1. /\ pc \in Running /\ pc \in Unmapping /\ pc \notin RollingBack \cup Reclaiming
      /\ pc' \in Unmapping /\ pc' \in Reclaiming
      /\ pc' \notin Mapping \cup RollingBack \cup {"map_page", "map", "invalidate"}
  BY DEF Running, Unmapping, Mapping, RollingBack, Reclaiming
<1>2. PICK depth, route : Tree(depth, route)
  BY <1>1 DEF PagingInv
<1>3. PICK l, t, c, i : /\ l = op.level /\ t = op.tables[l - 1] /\ c = op.tables[l] /\ i = op.va[l]
  OBVIOUS
<1>4. Detached = {} /\ Detached' = {c}
  BY <1>1, <1>3, DetachedIs, DetachedWillBe
<1>5. /\ Shape(mem, paging_root, depth, route) /\ Attached(mem, paging_root, depth, route, {})
      /\ op \in UnmapOp /\ l \in 0 .. 3
      /\ \A k \in 0 .. l : /\ op.tables[k] \in DOMAIN mem /\ depth[op.tables[k]] = k
                           /\ On(op.tables[k], op.va, depth, route)
  BY <1>1, <1>2, <1>3, <1>4 DEF Tree, OpOK, UnmapOp
<1>6. l \in 0 .. l /\ l - 1 \in 0 .. l /\ l - 1 < 3 /\ (l - 1) + 1 = l
  BY <1>3, <1>5
<1>7. /\ t \in DOMAIN mem /\ depth[t] = l - 1 /\ On(t, op.va, depth, route)
      /\ c \in DOMAIN mem /\ depth[c] = l /\ On(c, op.va, depth, route)
  BY <1>3, <1>5, <1>6
<1>8. i \in DOMAIN mem[t] /\ mem[t][i] = link(c)
  <2>1. depth[c] = depth[t] + 1 /\ c \in DOMAIN mem \ {} /\ i = op.va[depth[c]]
    BY <1>3, <1>6, <1>7
  <2>2. op.va[depth[c]] \in DOMAIN mem[t] /\ mem[t][op.va[depth[c]]] = link(c)
    BY <1>5, <1>7, <2>1, ParentHolds
  <2>. QED
    BY <2>1, <2>2
<1>9. mem[t][i].page = c
  BY <1>8 DEF link, entry
<1>10. DOMAIN mem[c] = {} /\ mem' = WithoutEntry(mem, t, i) /\ depth[t] < 3
  BY <1>3, <1>6, <1>7
<1>11. DOMAIN mem' = DOMAIN mem /\ \A u \in DOMAIN mem \ {t} : mem'[u] = mem[u]
  BY <1>7, <1>10, DropStores DEF Stored
<1>12. OpOK(depth, route)'
  <2>1. \A k \in 0 .. op'.level : /\ op'.tables[k] \in DOMAIN mem' /\ depth[op'.tables[k]] = k
                                  /\ On(op'.tables[k], op'.va, depth, route)
    BY <1>3, <1>5, <1>11
  <2>2. op' \in UnmapOp /\ op'.level > 0
    BY <1>3, <1>5
  <2>. QED
    BY <1>1, <2>1, <2>2 DEF OpOK, RollingBack
<1>13. NoneEmpty(depth, route)'
  <2>1. Pending = PathTables(op.tables, l) /\ Pending' = Pending
    BY <1>1, <1>3, PendingIs, PendingWillBe
  <2>2. t \in Pending
    BY <1>3, <1>6, <2>1 DEF PathTables
  <2>. QED
    BY <1>2, <1>11, <2>1, <2>2 DEF Tree, NoneEmpty
<1>. QED
  BY <1>2, <1>4, <1>7, <1>8, <1>9, <1>10, <1>12, <1>13, UnlinkStep

(* It releases the table and goes up one level.                            *)
LEMMA ReclaimReleaseStep ==
  ASSUME PagingInv, reclaim_release
  PROVE  PagingInv' /\ Unseen
<1>0. PICK l, c : l = op.level /\ c = op.tables[l]
  OBVIOUS
<1>1. /\ pc = "reclaim_release" /\ pc' = "reclaim" /\ release_table(c) /\ op' = Up(op, l - 1)
      /\ UNCHANGED <<paging_root, active, cached, owned>>
  BY <1>0 DEF reclaim_release, Up
<1>2. /\ pc \in Running /\ pc \in Unmapping /\ pc \in Reclaiming
      /\ pc' \in Unmapping
      /\ pc' \notin Mapping \cup RollingBack \cup Reclaiming \cup {"map_page", "map", "invalidate"}
  BY <1>1 DEF Running, Unmapping, Mapping, RollingBack, Reclaiming
<1>3. PICK depth, route : Tree(depth, route)
  BY <1>2 DEF PagingInv
<1>4. Detached = {c}
  BY <1>0, <1>2, DetachedIs
<1>5. /\ DOMAIN mem' = DOMAIN mem \ {c} /\ \A u \in DOMAIN mem \ {c} : mem'[u] = mem[u]
      /\ OpOK(depth, route)' /\ NoneEmpty(depth, route)' => PagingInv' /\ Unseen
  BY <1>1, <1>3, <1>4, ReleaseStep
<1>6. /\ op \in UnmapOp /\ l \in 1 .. 3
      /\ \A k \in 0 .. l : /\ op.tables[k] \in DOMAIN mem /\ depth[op.tables[k]] = k
                           /\ On(op.tables[k], op.va, depth, route)
  <2>1. OpOK(depth, route)
    BY <1>3 DEF Tree
  <2>2. op \in UnmapOp /\ op.level > 0
    BY <1>1, <1>2, <2>1 DEF OpOK
  <2>. QED
    BY <1>0, <1>2, <2>1, <2>2 DEF OpOK, UnmapOp
<1>7. op' \in UnmapOp /\ op'.va = op.va /\ op'.level = l - 1 /\ op'.tables = op.tables
  <2>1. l - 1 \in 0 .. 3
    BY <1>6
  <2>. QED
    BY <1>1, <1>6, <2>1, UnmapUp
<1>8. ASSUME NEW k \in 0 .. l - 1
      PROVE  k \in 0 .. l /\ op.tables[k] \in DOMAIN mem' 
  <2>1. k \in 0 .. l /\ l \in 0 .. l /\ k # l
    BY <1>6
  <2>2. op.tables[k] # c
    BY <1>0, <1>6, <2>1
  <2>. QED
    BY <1>5, <1>6, <2>1, <2>2
<1>9. OpOK(depth, route)'
  BY <1>2, <1>6, <1>7, <1>8 DEF OpOK, RollingBack, Reclaiming
<1>10. NoneEmpty(depth, route)'
  <2>1. Pending = PathTables(op.tables, l) /\ Pending' = PathTables(op.tables, l - 1)
    BY <1>0, <1>2, <1>7, PendingIs, PendingWillBe
  <2>2. \A k \in 0 .. l : k = l \/ k \in 0 .. l - 1
    BY <1>6
  <2>3. Pending \subseteq Pending' \cup {c}
    BY <1>0, <2>1, <2>2 DEF PathTables
  <2>. QED
    BY <1>3, <1>5, <2>3 DEF Tree, NoneEmpty
<1>. QED
  BY <1>5, <1>9, <1>10
(* A chain goes down: every table lies above the last one.                 *)
LEMMA ChainDown ==
  ASSUME NEW s \in Seq(Made), NEW m, NEW va, NEW root, NEW depth, NEW route,
         Shape(m, root, depth, route), Chain(s, m, va, depth, route),
         NEW n \in Nat, n = Len(s), NEW k \in 1 .. n, k < n
  PROVE  depth[s[k].child] < depth[s[n].child]
<1>1. ASSUME NEW j \in 1 .. n
      PROVE  depth[s[j].child] \in 1 .. 3
  <2>1. MadeAt(s[j], m, va, depth, route)
    BY DEF Chain
  <2>2. /\ s[j].child \in DOMAIN m /\ s[j].table \in DOMAIN m
        /\ depth[s[j].child] = depth[s[j].table] + 1
    BY <2>1 DEF MadeAt
  <2>3. depth[s[j].child] \in 0 .. 3 /\ depth[s[j].table] \in 0 .. 3
    BY <2>2, RootOnly
  <2>. QED
    BY <2>2, <2>3
<1>2. ASSUME NEW j \in 1 .. n, j < n
      PROVE  j + 1 \in 1 .. n /\ depth[s[j + 1].child] = depth[s[j].child] + 1
  <2>1. depth[s[j + 1].child] = depth[s[j].child] + 1
    BY <1>2 DEF Chain, MadeAbove
  <2>. QED
    BY <1>2, <2>1
<1>3. CASE k + 1 = n
  BY <1>1, <1>2, <1>3
<1>4. CASE k + 2 = n
  <2>1. k + 1 \in 1 .. n /\ k + 1 < n /\ (k + 1) + 1 = n
    BY <1>4
  <2>2. depth[s[(k + 1) + 1].child] = depth[s[k + 1].child] + 1
    BY <1>2, <2>1
  <2>. QED
    BY <1>1, <1>2, <2>1, <2>2
<1>5. CASE k + 2 < n
  <2>1. k + 1 \in 1 .. n /\ k + 1 < n /\ k + 2 \in 1 .. n /\ (k + 1) + 1 = k + 2 /\ (k + 2) + 1 = k + 3
        /\ k + 3 \in 1 .. n
    BY <1>5
  <2>2. depth[s[k + 2].child] = depth[s[k + 1].child] + 1
    BY <1>2, <2>1
  <2>3. depth[s[k + 3].child] = depth[s[k + 2].child] + 1
    BY <1>2, <1>5, <2>1
  <2>4. depth[s[k + 1].child] = depth[s[k].child] + 1
    BY <1>2
  <2>5. depth[s[k].child] \in 1 .. 3 /\ depth[s[k + 3].child] \in 1 .. 3
    BY <1>1, <2>1
  <2>6. PICK d0, d1, d2, d3 : /\ d0 = depth[s[k].child] /\ d1 = depth[s[k + 1].child]
                              /\ d2 = depth[s[k + 2].child] /\ d3 = depth[s[k + 3].child]
    OBVIOUS
  <2>7. d0 \in 1 .. 3 /\ d3 \in 1 .. 3 /\ d1 = d0 + 1 /\ d2 = d1 + 1 /\ d3 = d2 + 1
    BY <2>2, <2>3, <2>4, <2>5, <2>6
  <2>. QED
    BY <2>7
<1>6. k + 1 = n \/ k + 2 = n \/ k + 2 < n
  OBVIOUS
<1>. QED
  BY <1>3, <1>4, <1>5, <1>6

(* The table above the last one is the one made before it.                 *)
LEMMA ChainParent ==
  ASSUME NEW s \in Seq(Made), NEW m, NEW va, NEW root, NEW depth, NEW route,
         Shape(m, root, depth, route), Chain(s, m, va, depth, route),
         NEW n \in Nat, n = Len(s), n > 1
  PROVE  n - 1 \in 1 .. n /\ s[n].table = s[n - 1].child
<1>1. n - 1 \in 1 .. n /\ n \in 1 .. n /\ n - 1 < n /\ (n - 1) + 1 = n
  OBVIOUS
<1>2. /\ MadeAt(s[n - 1], m, va, depth, route) /\ MadeAt(s[n], m, va, depth, route)
      /\ MadeAbove(s[n - 1], s[n], m, va, depth)
  BY <1>1 DEF Chain
<1>3. /\ s[n].table \in DOMAIN m /\ s[n - 1].child \in DOMAIN m
      /\ On(s[n].table, va, depth, route) /\ On(s[n - 1].child, va, depth, route)
      /\ depth[s[n].child] = depth[s[n].table] + 1
      /\ depth[s[n].child] = depth[s[n - 1].child] + 1
  BY <1>2 DEF MadeAt, MadeAbove
<1>4. depth[s[n].table] \in 0 .. 3 /\ depth[s[n - 1].child] \in 0 .. 3
  BY <1>3, RootOnly
<1>5. depth[s[n].table] = depth[s[n - 1].child]
  BY <1>3, <1>4
<1>. QED
  BY <1>1, <1>3, <1>5, OneTable

(* A chain when a link on its walk is cleared.                             *)
LEMMA ChainUnlinked ==
  ASSUME NEW s \in Seq(Made), NEW m, NEW m2, NEW va, NEW depth, NEW route,
         Chain(s, m, va, depth, route), DOMAIN m2 = DOMAIN m,
         \A u \in DOMAIN m : /\ DOMAIN m2[u] \subseteq DOMAIN m[u]
                             /\ DOMAIN m[u] \subseteq DOMAIN m2[u] \cup {va[depth[u] + 1]}
  PROVE  Chain(s, m2, va, depth, route)
<1>1. ASSUME NEW k \in 1 .. Len(s)
      PROVE  MadeAt(s[k], m, va, depth, route) /\ MadeAt(s[k], m2, va, depth, route)
  <2>1. MadeAt(s[k], m, va, depth, route)
    BY DEF Chain
  <2>. QED
    BY <2>1 DEF MadeAt
<1>2. ASSUME NEW k \in 1 .. Len(s), k < Len(s)
      PROVE  MadeAbove(s[k], s[k + 1], m2, va, depth)
  <2>1. MadeAbove(s[k], s[k + 1], m, va, depth) /\ s[k].child \in DOMAIN m
    BY <1>1, <1>2 DEF Chain, MadeAt
  <2>. QED
    BY <2>1 DEF MadeAbove
<1>3. ASSUME s # <<>>
      PROVE  DOMAIN m2[s[Len(s)].child] = {} /\ MadeFirst(s[1], m2, depth)
  <2>0. Len(s) \in Nat \ {0}
    BY <1>3, EmptySeq, LenProperties
  <2>1. 1 \in 1 .. Len(s) /\ Len(s) \in 1 .. Len(s)
    BY <2>0
  <2>2. DOMAIN m[s[Len(s)].child] = {} /\ MadeFirst(s[1], m, depth)
    BY <1>3 DEF Chain
  <2>3. s[Len(s)].child \in DOMAIN m
    BY <1>1, <2>1 DEF MadeAt
  <2>4. /\ s[1].table \in DOMAIN m /\ s[1].index = va[depth[s[1].child]]
        /\ depth[s[1].child] = depth[s[1].table] + 1
    BY <1>1, <2>1 DEF MadeAt
  <2>5. MadeFirst(s[1], m2, depth)
    BY <2>2, <2>4 DEF MadeFirst
  <2>. QED
    BY <2>2, <2>3, <2>5
<1>. QED
  BY <1>1, <1>2, <1>3 DEF Chain

(* The roll-back unlinks the table made last.                              *)
LEMMA RollBackStep ==
  ASSUME PagingInv, pc = "roll_back", op.created # <<>>,
         mem' = WithoutEntry(mem, Last(op.created).table, Last(op.created).index),
         pc' = "roll_back_invalidate",
         UNCHANGED <<op, pmmVars, table_pages, paging_root, active, cached, owned>>
  PROVE  PagingInv' /\ Unseen
<1>1. /\ pc \in Running /\ pc \in Mapping /\ pc \notin RollingBack \cup Reclaiming
      /\ pc' \in Mapping /\ pc' \in RollingBack
      /\ pc' \notin Unmapping \cup Reclaiming \cup {"map_page", "map", "invalidate"}
  BY DEF Running, Unmapping, Mapping, RollingBack, Reclaiming
<1>2. PICK depth, route : Tree(depth, route)
  BY <1>1 DEF PagingInv
<1>3. PICK s, made, t, c, i, va, n : /\ s = op.created /\ made = Last(s) /\ va = op.va /\ n = Len(s)
                                 /\ t = made.table /\ c = made.child /\ i = made.index
  OBVIOUS
<1>4. Detached = {} /\ Detached' = {c}
  BY <1>1, <1>3, DetachedIs, DetachedWillBe
<1>5. /\ Shape(mem, paging_root, depth, route) /\ Attached(mem, paging_root, depth, route, {})
      /\ op \in MapOp /\ op.page \in owned /\ s \in Seq(Made) /\ Chain(s, mem, va, depth, route)
  BY <1>1, <1>2, <1>3, <1>4 DEF Tree, OpOK, MapOp, MadeChain
<1>6. /\ MadeAt(made, mem, va, depth, route) /\ DOMAIN mem[c] = {}
      /\ n \in Nat \ {0} /\ made = s[n]
  <2>1. Len(s) \in Nat \ {0}
    BY <1>3, <1>5, EmptySeq, LenProperties
  <2>. QED
    BY <1>3, <1>5, <2>1, LastMade DEF Last
<1>7. /\ t \in DOMAIN mem /\ On(t, va, depth, route) /\ c \in DOMAIN mem /\ On(c, va, depth, route)
      /\ depth[c] = depth[t] + 1 /\ i = va[depth[c]]
  BY <1>3, <1>6 DEF MadeAt
<1>8. i \in DOMAIN mem[t] /\ mem[t][i] = link(c)
  <2>1. c \in DOMAIN mem \ {}
    BY <1>7
  <2>2. va[depth[c]] \in DOMAIN mem[t] /\ mem[t][va[depth[c]]] = link(c)
    BY <1>5, <1>7, <2>1, ParentHolds
  <2>. QED
    BY <1>7, <2>2
<1>9. mem[t][i].page = c
  BY <1>8 DEF link, entry
<1>10. DOMAIN mem[c] = {} /\ mem' = WithoutEntry(mem, t, i) /\ depth[t] < 3
  <2>1. depth[t] \in 0 .. 3 /\ depth[c] \in 0 .. 3
    BY <1>5, <1>7, RootOnly
  <2>. QED
    BY <1>3, <1>6, <1>7, <2>1
<1>11. /\ DOMAIN mem' = DOMAIN mem /\ \A u \in DOMAIN mem \ {t} : mem'[u] = mem[u]
       /\ DOMAIN mem'[t] = DOMAIN mem[t] \ {i}
  BY <1>7, <1>10, DropStores DEF Stored
<1>12. Chain(s, mem', va, depth, route)
  <2>1. \A u \in DOMAIN mem : /\ DOMAIN mem'[u] \subseteq DOMAIN mem[u]
                              /\ DOMAIN mem[u] \subseteq DOMAIN mem'[u] \cup {va[depth[u] + 1]}
    BY <1>7, <1>11
  <2>. QED
    BY <1>5, <1>11, <2>1, ChainUnlinked
<1>13. OpOK(depth, route)'
  <2>1. MadeChain(depth, route)' /\ op' \in MapOp /\ op'.page \in owned' /\ op'.created # <<>>
    BY <1>3, <1>5, <1>12 DEF MadeChain
  <2>. QED
    BY <1>1, <2>1 DEF OpOK, Reclaiming
<1>14. NoneEmpty(depth, route)'
  <2>1. Pending = Children(s) /\ Pending' = Pending
    BY <1>1, <1>3, PendingIs, PendingWillBe
  <2>2. ASSUME t \notin Pending, depth[t] > 0
        PROVE  DOMAIN mem'[t] # {}
    <3>1. n = 1
      <4>1. n > 1 => n - 1 \in 1 .. n /\ s[n].table = s[n - 1].child
        BY <1>3, <1>5, <1>6, ChainParent
      <4>2. n > 1 => t \in Children(s)
        BY <1>3, <1>6, <4>1 DEF Children
      <4>. QED
        BY <1>6, <2>1, <2>2, <4>2
    <3>2. MadeFirst(made, mem, depth)
      <4>1. s # <<>> => MadeFirst(s[1], mem, depth)
        BY <1>5 DEF Chain
      <4>. QED
        BY <1>3, <1>6, <3>1, <4>1
    <3>. QED
      BY <1>3, <1>11, <2>2, <3>2 DEF MadeFirst
  <2>3. NoneEmpty(depth, route)
    BY <1>2 DEF Tree
  <2>. QED
    BY <1>11, <2>1, <2>2, <2>3 DEF NoneEmpty
<1>. QED
  BY <1>2, <1>4, <1>7, <1>8, <1>9, <1>10, <1>13, <1>14, UnlinkStep

(* The chain without the released table.                                   *)
LEMMA ChainReleased ==
  ASSUME NEW s \in Seq(Made), s # <<>>, NEW m, NEW m2, NEW va, NEW root, NEW depth, NEW route, NEW Loose,
         Shape(m, root, depth, route), Attached(m, root, depth, route, Loose),
         Chain(s, m, va, depth, route), Loose = {Last(s).child},
         DOMAIN m2 = DOMAIN m \ Loose, \A u \in DOMAIN m \ Loose : m2[u] = m[u]
  PROVE  /\ Front(s) \in Seq(Made) /\ Chain(Front(s), m2, va, depth, route)
         /\ Children(s) \subseteq Children(Front(s)) \cup Loose
<1>0. PICK c : c = Last(s).child /\ Loose = {c}
  OBVIOUS
<1>1. PICK n \in Nat : n = Len(s)
  BY LenProperties
<1>2. PICK r : r = Front(s)
  OBVIOUS
<1>3. /\ n \in Nat \ {0} /\ r \in Seq(Made) /\ Len(r) = n - 1
      /\ \A k \in 1 .. n - 1 : r[k] = s[k]
      /\ Last(s) = s[n]
  BY <1>1, <1>2, RemoveLast
<1>4. ASSUME NEW k \in 1 .. n - 1
      PROVE  /\ MadeAt(s[k], m, va, depth, route) /\ s[k].child # c /\ s[k].table # c
             /\ s[k].child \in DOMAIN m2 /\ s[k].table \in DOMAIN m2 /\ r[k] = s[k]
  <2>1. k \in 1 .. n /\ k < n
    OBVIOUS
  <2>2. MadeAt(s[k], m, va, depth, route)
    BY <1>1, <2>1 DEF Chain
  <2>3. depth[s[k].child] < depth[c]
    BY <1>0, <1>1, <1>3, <2>1, ChainDown
  <2>4. /\ s[k].child \in DOMAIN m /\ s[k].table \in DOMAIN m
        /\ depth[s[k].child] = depth[s[k].table] + 1
    BY <2>2 DEF MadeAt
  <2>5. c \in DOMAIN m
    BY <1>0 DEF Attached
  <2>6. depth[s[k].child] \in 0 .. 3 /\ depth[s[k].table] \in 0 .. 3 /\ depth[c] \in 0 .. 3
    BY <2>4, <2>5, RootOnly
  <2>7. s[k].child # c /\ s[k].table # c
    BY <2>3, <2>4, <2>6
  <2>. QED
    BY <1>0, <1>3, <2>2, <2>4, <2>7
<1>5. ASSUME NEW k \in 1 .. n - 1
      PROVE  MadeAt(r[k], m2, va, depth, route)
  BY <1>4 DEF MadeAt
<1>6. ASSUME NEW k \in 1 .. n - 1
      PROVE  DOMAIN m2[s[k].child] \subseteq {va[depth[s[k].child] + 1]}
  <2>1. k \in 1 .. n /\ k < n
    OBVIOUS
  <2>2. MadeAbove(s[k], s[k + 1], m, va, depth)
    BY <1>1, <2>1 DEF Chain
  <2>3. m2[s[k].child] = m[s[k].child]
    BY <1>0, <1>4 DEF MadeAt
  <2>. QED
    BY <2>2, <2>3 DEF MadeAbove
<1>7. ASSUME NEW k \in 1 .. n - 1, k < n - 1
      PROVE  MadeAbove(r[k], r[k + 1], m2, va, depth)
  <2>1. k \in 1 .. n /\ k < n /\ k + 1 \in 1 .. n - 1
    BY <1>7
  <2>2. MadeAbove(s[k], s[k + 1], m, va, depth)
    BY <1>1, <2>1 DEF Chain
  <2>3. r[k] = s[k] /\ r[k + 1] = s[k + 1]
    BY <1>3, <2>1
  <2>. QED
    BY <1>6, <2>2, <2>3 DEF MadeAbove
<1>8. ASSUME n > 1
      PROVE  DOMAIN m2[r[n - 1].child] = {} /\ MadeFirst(r[1], m2, depth)
  <2>1. n - 1 \in 1 .. n - 1 /\ 1 \in 1 .. n - 1
    BY <1>8
  <2>2. PICK t : t = s[n - 1].child
    OBVIOUS
  <2>3. t = s[n].table /\ r[n - 1].child = t
    BY <1>1, <1>4, <1>8, <2>1, <2>2, ChainParent
  <2>4. t \in DOMAIN m /\ m2[t] = m[t] /\ DOMAIN m2[t] \subseteq {va[depth[t] + 1]}
    BY <1>0, <1>4, <1>6, <2>1, <2>2 DEF MadeAt
  <2>5. va[depth[t] + 1] \notin DOMAIN m[t]
    <3>. SUFFICES ASSUME va[depth[t] + 1] \in DOMAIN m[t]
                  PROVE  FALSE
      OBVIOUS
    <3>1. MadeAt(s[n], m, va, depth, route)
      <4>1. n \in 1 .. n
        BY <1>3
      <4>. QED
        BY <1>1, <4>1 DEF Chain
    <3>2. /\ c = s[n].child /\ c \in DOMAIN m /\ depth[c] = depth[t] + 1
          /\ On(t, va, depth, route) /\ On(c, va, depth, route)
      BY <1>0, <1>3, <2>3, <3>1 DEF MadeAt
    <3>3. depth[t] \in 0 .. 3 /\ depth[c] \in 0 .. 3
      BY <2>4, <3>2, RootOnly
    <3>4. depth[t] < 3
      BY <3>2, <3>3
    <3>5. PICK b : b = m[t][va[depth[t] + 1]].page
      OBVIOUS
    <3>6. b \in DOMAIN m /\ depth[b] = depth[t] + 1 /\ On(b, va, depth, route)
      BY <2>4, <3>2, <3>4, <3>5, ChildOn
    <3>7. b = c
      <4>1. depth[b] = depth[c]
        BY <3>2, <3>6
      <4>. QED
        BY <3>2, <3>6, <4>1, OneTable
    <3>8. b \notin {c}
      BY <1>0, <2>4, <3>4, <3>5 DEF Attached
    <3>. QED
      BY <3>7, <3>8
  <2>6. DOMAIN m2[r[n - 1].child] = {}
    BY <2>3, <2>4, <2>5
  <2>7. MadeFirst(s[1], m, depth)
    BY DEF Chain
  <2>8. r[1] = s[1] /\ s[1].table \in DOMAIN m /\ m2[s[1].table] = m[s[1].table]
    BY <1>0, <1>4, <2>1 DEF MadeAt
  <2>9. MadeFirst(r[1], m2, depth)
    BY <2>7, <2>8 DEF MadeFirst
  <2>. QED
    BY <2>6, <2>9
<1>9. Chain(r, m2, va, depth, route)
  <2>1. r # <<>> => n > 1
    <3>1. n = 1 => Len(r) = 0
      BY <1>3
    <3>2. n = 1 => r = <<>>
      BY <1>3, <3>1, EmptySeq
    <3>. QED
      BY <1>3, <3>2
  <2>. QED
    BY <1>3, <1>5, <1>7, <1>8, <2>1 DEF Chain
<1>10. Children(s) \subseteq Children(r) \cup {c}
  <2>1. \A k \in 1 .. n : k = n \/ k \in 1 .. n - 1
    BY <1>3
  <2>. QED
    BY <1>0, <1>1, <1>3, <2>1 DEF Children
<1>. QED
  BY <1>0, <1>2, <1>3, <1>9, <1>10

(* It releases the table.                                                  *)
LEMMA RollBackReleaseStep ==
  ASSUME PagingInv, roll_back_release
  PROVE  PagingInv' /\ Unseen
<1>0. PICK s, c, va : s = op.created /\ c = Last(s).child /\ va = op.va
  OBVIOUS
<1>1. /\ pc = "roll_back_release" /\ pc' = "roll_back" /\ release_table(c) /\ op' = Undone(op, Front(s))
      /\ UNCHANGED <<paging_root, active, cached, owned>>
  BY <1>0 DEF roll_back_release, Undone
<1>2. /\ pc \in Running /\ pc \in Mapping /\ pc \in RollingBack
      /\ pc' \in Mapping
      /\ pc' \notin Unmapping \cup RollingBack \cup Reclaiming \cup {"map_page", "map", "invalidate"}
  BY <1>1 DEF Running, Unmapping, Mapping, RollingBack, Reclaiming
<1>3. PICK depth, route : Tree(depth, route)
  BY <1>2 DEF PagingInv
<1>4. Detached = {c}
  BY <1>0, <1>2, DetachedIs
<1>5. /\ Attached(mem, paging_root, depth, route, {c})
      /\ DOMAIN mem' = DOMAIN mem \ {c} /\ \A u \in DOMAIN mem \ {c} : mem'[u] = mem[u]
      /\ OpOK(depth, route)' /\ NoneEmpty(depth, route)' => PagingInv' /\ Unseen
  BY <1>1, <1>3, <1>4, ReleaseStep
<1>6. /\ op \in MapOp /\ op.page \in owned /\ s \in Seq(Made) /\ s # <<>>
      /\ Chain(s, mem, va, depth, route)
  <2>1. OpOK(depth, route)
    BY <1>3 DEF Tree
  <2>2. op.created # <<>>
    BY <1>1, <2>1 DEF OpOK
  <2>. QED
    BY <1>0, <1>2, <2>1, <2>2 DEF OpOK, MapOp, MadeChain
<1>7. /\ Front(s) \in Seq(Made) /\ Chain(Front(s), mem', va, depth, route)
      /\ Children(s) \subseteq Children(Front(s)) \cup {c}
  <2>1. Shape(mem, paging_root, depth, route) /\ Attached(mem, paging_root, depth, route, Detached)
    BY <1>3 DEF Tree
  <2>2. /\ Detached = {Last(s).child} /\ DOMAIN mem' = DOMAIN mem \ Detached
        /\ \A u \in DOMAIN mem \ Detached : mem'[u] = mem[u]
    BY <1>0, <1>4, <1>5
  <2>3. /\ Front(s) \in Seq(Made) /\ Chain(Front(s), mem', va, depth, route)
        /\ Children(s) \subseteq Children(Front(s)) \cup Detached
    BY <1>6, <2>1, <2>2, ChainReleased
  <2>. QED
    BY <1>4, <2>3
<1>8. op' \in MapOp /\ op'.va = op.va /\ op'.created = Front(s) /\ op'.page = op.page
  BY <1>1, <1>6, <1>7, MapUndone
<1>9. OpOK(depth, route)'
  <2>1. MadeChain(depth, route)'
    BY <1>0, <1>7, <1>8 DEF MadeChain
  <2>. QED
    BY <1>1, <1>2, <1>6, <1>8, <2>1 DEF OpOK, RollingBack, Reclaiming
<1>10. NoneEmpty(depth, route)'
  <2>1. Pending = Children(s) /\ Pending' = Children(Front(s))
    BY <1>0, <1>2, <1>8, PendingIs, PendingWillBe
  <2>2. Pending \subseteq Pending' \cup {c}
    BY <1>7, <2>1
  <2>. QED
    BY <1>3, <1>5, <2>2 DEF Tree, NoneEmpty
<1>. QED
  BY <1>5, <1>9, <1>10
-----------------------------------------------------------------------------
(* The pages that map_boot_ram visits.                                     *)

(* The recursive equation of FlattenSeq.                                   *)
Flattens(f, seqs) ==
  f = [i \in 1 .. Len(seqs) |-> IF i = 1 THEN seqs[i] ELSE f[i - 1] \o seqs[i]]

(* FlattenSeq is the last value of a function with that equation.          *)
LEMMA FlattenIs ==
  ASSUME NEW seqs, Len(seqs) # 0, \E f : Flattens(f, seqs)
  PROVE  \E f : Flattens(f, seqs) /\ FlattenSeq(seqs) = f[Len(seqs)]
<1>. DEFINE F == CHOOSE f : Flattens(f, seqs)
<1>1. Flattens(F, seqs)
  BY Zenon
<1>2. FlattenSeq(seqs) = F[Len(seqs)]
  BY Zenon DEF FlattenSeq, Flattens
<1>. QED
  BY <1>1, <1>2, Zenon

(* A set of numbers has a least one.                                       *)
LEMMA LeastOf ==
  ASSUME NEW S, S \subseteq Nat, S # {}
  PROVE  \E n \in S : \A k \in S : n <= k
<1>0. \E n \in S : \A k \in S : ~(<<k, n>> \in OpToRel(<, Nat))
  BY WFMin, NatLessThanWellFounded
<1>1. PICK n \in S : \A k \in S : ~(<<k, n>> \in OpToRel(<, Nat))
  BY <1>0
<1>2. \A k \in S : ~(k < n)
  BY <1>1 DEF OpToRel
<1>3. \A k \in S : n <= k
  BY <1>2
<1>. QED
  BY <1>3

(* The first n equations of FlattenSeq have a solution.                    *)
Partial(f, seqs, n) ==
  \A i \in 1 .. n : f[i] = IF i = 1 THEN seqs[i] ELSE f[i - 1] \o seqs[i]

(* FlattenSeq is defined: its equation has a solution.                     *)
LEMMA FlattenExists ==
  ASSUME NEW S, NEW seqs \in Seq(Seq(S))
  PROVE  \E f : Flattens(f, seqs)
<1>. DEFINE N == Len(seqs)
            Bad == {n \in 0 .. N : ~\E f \in [1 .. n -> Seq(S)] : Partial(f, seqs, n)}
<1>1. N \in Nat /\ \A i \in 1 .. N : seqs[i] \in Seq(S)
  BY LenProperties, ElementOfSeq
<1>. HIDE DEF N
<1>2. Bad = {}
  <2>. SUFFICES ASSUME Bad # {}
                PROVE  FALSE
    OBVIOUS
  <2>1. PICK n \in Bad : \A k \in Bad : n <= k
    <3>1. Bad \subseteq Nat
      BY <1>1
    <3>. HIDE DEF Bad
    <3>. QED
      BY <3>1, LeastOf
  <2>2. n \in 0 .. N /\ ~\E f \in [1 .. n -> Seq(S)] : Partial(f, seqs, n)
    OBVIOUS
  <2>3. n # 0
    <3>1. n = 0 => [i \in 1 .. n |-> <<>>] \in [1 .. n -> Seq(S)]
      OBVIOUS
    <3>2. n = 0 => Partial([i \in 1 .. n |-> <<>>], seqs, n)
      BY DEF Partial
    <3>. QED
      BY <2>2, <3>1, <3>2
  <2>4. n - 1 \in 0 .. N /\ n - 1 \notin Bad
    <3>1. n - 1 \in 0 .. N /\ ~(n <= n - 1)
      BY <1>1, <2>2, <2>3
    <3>. HIDE DEF Bad
    <3>. QED
      BY <2>1, <3>1
  <2>5. PICK g \in [1 .. n - 1 -> Seq(S)] : Partial(g, seqs, n - 1)
    BY <2>4
  <2>. HIDE DEF Bad
  <2>6. PICK last : last = IF n = 1 THEN seqs[n] ELSE g[n - 1] \o seqs[n]
    OBVIOUS
  <2>7. last \in Seq(S)
    <3>1. n \in 1 .. N /\ (n # 1 => n - 1 \in 1 .. n - 1)
      BY <1>1, <2>2, <2>3
    <3>2. seqs[n] \in Seq(S)
      BY <1>1, <3>1
    <3>3. n # 1 => g[n - 1] \in Seq(S)
      BY <3>1
    <3>. QED
      BY <2>6, <3>2, <3>3, ConcatProperties
  <2>8. PICK f : f = [i \in 1 .. n |-> IF i = n THEN last ELSE g[i]]
    OBVIOUS
  <2>9. \A i \in 1 .. n : i = n \/ i \in 1 .. n - 1
    BY <1>1, <2>2
  <2>10. f \in [1 .. n -> Seq(S)]
    BY <2>7, <2>8, <2>9
  <2>11. /\ f[n] = last /\ \A i \in 1 .. n - 1 : f[i] = g[i]
    BY <1>1, <2>2, <2>3, <2>8
  <2>12. Partial(f, seqs, n)
    <3>. SUFFICES ASSUME NEW i \in 1 .. n
                  PROVE  f[i] = IF i = 1 THEN seqs[i] ELSE f[i - 1] \o seqs[i]
      BY DEF Partial
    <3>0. i # 1 => i - 1 \in 1 .. n - 1
      BY <1>1, <2>2
    <3>1. CASE i = n
      BY <2>6, <2>11, <3>0, <3>1
    <3>2. CASE i \in 1 .. n - 1
      BY <2>5, <2>11, <3>0, <3>2 DEF Partial
    <3>. QED
      BY <2>9, <3>1, <3>2
  <2>. QED
    BY <2>2, <2>10, <2>12
<1>3. N \in 0 .. N
  BY <1>1
<1>4. PICK f \in [1 .. N -> Seq(S)] : Partial(f, seqs, N)
  BY <1>2, <1>3
<1>5. Flattens(f, seqs)
  BY <1>4 DEF Partial, Flattens, N
<1>. QED
  BY <1>5

(* What the first n sequences hold.                                        *)
Gathered(seqs, n) == UNION {Range(seqs[i]) : i \in 1 .. n}

(* Range of a concatenation.                                               *)
LEMMA ConcatRange ==
  ASSUME NEW S, NEW s \in Seq(S), NEW t \in Seq(S)
  PROVE  s \o t \in Seq(S) /\ Range(s \o t) = Range(s) \cup Range(t)
<1>1. PICK n \in Nat, m \in Nat : n = Len(s) /\ m = Len(t)
  BY LenProperties
<1>2. PICK r : r = s \o t
  OBVIOUS
<1>3. /\ r \in Seq(S) /\ Len(r) = n + m
      /\ \A i \in 1 .. n + m : r[i] = IF i <= n THEN s[i] ELSE t[i - n]
  BY <1>1, <1>2, ConcatProperties
<1>4. DOMAIN r = 1 .. n + m /\ DOMAIN s = 1 .. n /\ DOMAIN t = 1 .. m
  BY <1>1, <1>3, LenProperties
<1>5. ASSUME NEW i \in 1 .. n + m
      PROVE  r[i] \in Range(s) \cup Range(t)
  <2>1. CASE i <= n
    <3>1. i \in DOMAIN s /\ r[i] = s[i]
      BY <1>3, <1>4, <2>1
    <3>. QED
      BY <3>1 DEF Range
  <2>2. CASE ~(i <= n)
    <3>1. i - n \in 1 .. m
      BY <2>2
    <3>. QED
      BY <1>3, <1>4, <2>2, <3>1 DEF Range
  <2>. QED
    BY <2>1, <2>2
<1>6. ASSUME NEW i \in 1 .. n
      PROVE  s[i] \in Range(r)
  <2>1. i \in 1 .. n + m /\ r[i] = s[i]
    BY <1>3
  <2>. QED
    BY <1>4, <2>1 DEF Range
<1>7. ASSUME NEW i \in 1 .. m
      PROVE  t[i] \in Range(r)
  <2>1. n + i \in 1 .. n + m /\ ~(n + i <= n) /\ (n + i) - n = i
    OBVIOUS
  <2>2. r[n + i] = t[i]
    BY <1>3, <2>1
  <2>. QED
    BY <1>4, <2>1, <2>2 DEF Range
<1>8. Range(r) = Range(s) \cup Range(t)
  <2>1. Range(r) \subseteq Range(s) \cup Range(t)
    BY <1>4, <1>5 DEF Range
  <2>2. Range(s) \subseteq Range(r) /\ Range(t) \subseteq Range(r)
    BY <1>4, <1>6, <1>7 DEF Range
  <2>. QED
    BY <2>1, <2>2
<1>. QED
  BY <1>2, <1>3, <1>8

(* FlattenSeq puts the sequences one after the other.                      *)
LEMMA FlattenRange ==
  ASSUME NEW S, NEW seqs \in Seq(Seq(S))
  PROVE  FlattenSeq(seqs) \in Seq(S) /\ Range(FlattenSeq(seqs)) = Gathered(seqs, Len(seqs))
<1>0. PICK N \in Nat : N = Len(seqs)
  BY LenProperties
<1>a. \A i \in 1 .. N : seqs[i] \in Seq(S)
  BY <1>0, ElementOfSeq
<1>1. CASE N = 0
  <2>1. seqs = <<>>
    BY <1>0, <1>1, EmptySeq
  <2>2. FlattenSeq(seqs) = <<>>
    BY <1>0, <1>1, <2>1 DEF FlattenSeq
  <2>3. <<>> \in Seq(S) /\ Range(<<>>) = {}
    BY DEF Range
  <2>4. Gathered(seqs, 0) = {}
    BY DEF Gathered
  <2>. QED
    BY <1>0, <1>1, <2>2, <2>3, <2>4
<1>2. CASE N # 0
  <2>1. PICK f : Flattens(f, seqs) /\ FlattenSeq(seqs) = f[N]
    BY <1>0, <1>2, FlattenIs, FlattenExists
  <2>2. \A i \in 1 .. N : f[i] = IF i = 1 THEN seqs[i] ELSE f[i - 1] \o seqs[i]
    BY <1>0, <2>1 DEF Flattens
  <2>. DEFINE Good(n) == f[n] \in Seq(S) /\ Range(f[n]) = Gathered(seqs, n)
              Bad == {n \in 1 .. N : ~Good(n)}
  <2>3. Bad = {}
    <3>. SUFFICES ASSUME Bad # {}
                  PROVE  FALSE
      OBVIOUS
    <3>1. PICK n \in Bad : \A k \in Bad : n <= k
      <4>1. Bad \subseteq Nat
        OBVIOUS
      <4>. HIDE DEF Bad
      <4>. QED
        BY <4>1, LeastOf
    <3>2. n \in 1 .. N /\ ~Good(n)
      OBVIOUS
    <3>3. seqs[n] \in Seq(S) /\ n \in Int
      BY <1>a, <3>2
    <3>4. CASE n = 1
      <4>1. f[n] = seqs[n]
        BY <2>2, <3>2, <3>4
      <4>2. Gathered(seqs, 1) = Range(seqs[1])
        BY DEF Gathered
      <4>. QED
        BY <3>2, <3>3, <3>4, <4>1, <4>2
    <3>5. CASE n # 1
      <4>1. n - 1 \in 1 .. N /\ ~(n <= n - 1)
        BY <3>2, <3>5
      <4>2. Good(n - 1)
        <5>1. n - 1 \notin Bad
          <6>. HIDE DEF Bad
          <6>. QED
            BY <3>1, <4>1
        <5>. QED
          BY <4>1, <5>1
      <4>3. f[n] = f[n - 1] \o seqs[n]
        BY <2>2, <3>2, <3>5
      <4>4. f[n] \in Seq(S) /\ Range(f[n]) = Range(f[n - 1]) \cup Range(seqs[n])
        BY <3>3, <4>2, <4>3, ConcatRange
      <4>5. Gathered(seqs, n) = Gathered(seqs, n - 1) \cup Range(seqs[n])
        <5>1. 1 .. n = (1 .. n - 1) \cup {n}
          BY <3>2, <3>5
        <5>. QED
          BY <5>1 DEF Gathered
      <4>. QED
        BY <3>2, <4>2, <4>4, <4>5
    <3>. QED
      BY <3>4, <3>5
  <2>4. N \in 1 .. N
    BY <1>2
  <2>5. Good(N)
    BY <2>3, <2>4
  <2>. QED
    BY <1>0, <2>1, <2>5
<1>. QED
  BY <1>1, <1>2
(* Counting up from a page gives the pages from there to a bound.          *)
LEMMA CountUp ==
  ASSUME NEW first \in Nat, NEW last \in Nat, NEW S, first .. (last - 1) \subseteq S
  PROVE  LET s == [i \in 1 .. last - first |-> first + i - 1]
         IN  s \in Seq(S) /\ Range(s) = first .. (last - 1)
<1>. DEFINE s == [i \in 1 .. last - first |-> first + i - 1]
<1>1. PICK n \in Nat : 1 .. last - first = 1 .. n
  <2>1. CASE last >= first
    BY <2>1
  <2>2. CASE last < first
    <3>1. 1 .. last - first = 1 .. 0
      BY <2>2
    <3>. QED
      BY <3>1
  <2>. QED
    BY <2>1, <2>2
<1>2. \A i \in 1 .. last - first : first + i - 1 \in first .. (last - 1)
  OBVIOUS
<1>3. s \in [1 .. n -> S]
  BY <1>1, <1>2
<1>4. s \in Seq(S)
  BY <1>3, SeqDef
<1>5. \A page \in first .. (last - 1) : page - first + 1 \in 1 .. last - first /\ s[page - first + 1] = page
  OBVIOUS
<1>6. Range(s) \subseteq first .. (last - 1)
  BY <1>2 DEF Range
<1>7. first .. (last - 1) \subseteq Range(s)
  BY <1>5 DEF Range
<1>. QED
  BY <1>4, <1>6, <1>7

(* Regions that map_boot_ram does not skip because of their type.          *)
boot_memory(d) == d.type \in {LoaderCode, LoaderData, Conventional} /\ ~d.runtime

(* The loop over one region visits the whole pages of its part between     *)
(* 1 MiB and the limit, unless the region is not write-back.               *)
LEMMA RegionRange ==
  ASSUME NEW d \in BOOT_MEMORY_DESCRIPTOR
  PROVE  /\ region_pages(d) \in Seq(Pages \cup {NotWriteBack})
         /\ NotWriteBack \notin Range(region_pages(d)) =>
              Range(region_pages(d)) = IF boot_memory(d) THEN marked_pages(d) ELSE {}
<1>. DEFINE begin == Max({d.physical_start, LOW_MEMORY})
            end   == Min({physical_end(d), PMM_LIMIT})
            first == begin \div PMM_PAGE_SIZE
            last  == end \div PMM_PAGE_SIZE
            Above    == [i \in 1 .. last - first |-> first + i - 1]
<1>1. d.physical_start \in Nat
  BY PmmAssumption DEF BOOT_MEMORY_DESCRIPTOR, U64
<1>2. LOW_MEMORY \in Nat /\ PMM_LIMIT \in Nat
  BY PmmAssumption, SMTT(20) DEF LOW_MEMORY, PMM_LIMIT
<1>3. begin \in Nat
  <2>1. d.physical_start \in Int /\ LOW_MEMORY \in Int
    BY <1>1, <1>2
  <2>2. begin \in {d.physical_start, LOW_MEMORY}
    BY <2>1, MaxOfTwo, Zenon
  <2>. HIDE DEF begin
  <2>. QED BY <1>1, <1>2, <2>2
<1>4. end \in Nat /\ end <= PMM_LIMIT
  BY <1>2, PhysicalEndNat, MinOfTwo
<1>5. last \in Nat
  BY <1>4, DivBound, PmmAssumption DEF PMM_LIMIT
<1>6. first \in Nat
  BY <1>3, PmmAssumption, SMTT(20)
<1>7. marked_pages(d) = first .. (last - 1)
  BY DEF marked_pages
<1>8. marked_pages(d) \subseteq Pages
  BY MarkedPagesInside
<1>9. region_pages(d) = IF ~boot_memory(d) \/ begin >= end THEN <<>>
                        ELSE IF ~d.write_back THEN <<NotWriteBack>> ELSE Above
  BY Zenon DEF region_pages, boot_memory
<1>10. Above \in Seq(Pages) /\ Range(Above) = marked_pages(d)
  <2>. HIDE DEF first, last
  <2>. QED
    BY <1>5, <1>6, <1>7, <1>8, CountUp
<1>11. begin >= end => marked_pages(d) = {}
  <2>. HIDE DEF begin, end
  <2>1. PMM_PAGE_SIZE \in Nat \ {0}
    BY PmmAssumption
  <2>2. begin >= end => first >= last
    BY <1>3, <1>4, <2>1, PageOf, SMTT(20)
  <2>. HIDE DEF first, last
  <2>. QED
    BY <1>5, <1>6, <1>7, <2>2
<1>. HIDE DEF begin, end, first, last, Above
<1>12. Above \in Seq(Pages \cup {NotWriteBack}) /\ <<NotWriteBack>> \in Seq(Pages \cup {NotWriteBack})
       /\ <<>> \in Seq(Pages \cup {NotWriteBack})
  BY <1>10
<1>13. Range(<<>>) = {} /\ Range(<<NotWriteBack>>) = {NotWriteBack}
  BY DEF Range
<1>. QED
  BY <1>9, <1>10, <1>11, <1>12, <1>13

(* map_boot_ram visits pages of memory or stops.                           *)
LEMMA BootRamPages ==
  ASSUME NEW info \in BootInfos
  PROVE  boot_ram(info) \in Seq(Pages \cup {NotWriteBack})
<1>1. info.map \in Seq(BOOT_MEMORY_DESCRIPTOR)
  BY PmmAssumption DEF BOOT_INFO
<1>. DEFINE seqs == [i \in DOMAIN info.map |-> region_pages(info.map[i])]
<1>2. \A i \in DOMAIN info.map : info.map[i] \in BOOT_MEMORY_DESCRIPTOR
  BY <1>1
<1>3. seqs \in [DOMAIN info.map -> Seq(Pages \cup {NotWriteBack})]
  BY <1>2, RegionRange
<1>4. seqs \in Seq(Seq(Pages \cup {NotWriteBack}))
  BY <1>1, <1>3, SeqDef, LenProperties
<1>. HIDE DEF seqs
<1>5. FlattenSeq(seqs) \in Seq(Pages \cup {NotWriteBack})
  BY <1>4, FlattenRange
<1>. QED
  BY <1>5 DEF boot_ram, seqs

(* When it does not stop it visits exactly the boot RAM.                   *)
LEMMA BootRamExact ==
  ASSUME NEW info \in BootInfos, valid_map_ranges(info), Range(boot_ram(info)) \subseteq Pages
  PROVE  Range(boot_ram(info)) = BootRam(info)
<1>1. info.map \in Seq(BOOT_MEMORY_DESCRIPTOR)
  BY PmmAssumption DEF BOOT_INFO
<1>. DEFINE seqs == [i \in DOMAIN info.map |-> region_pages(info.map[i])]
<1>2. \A i \in DOMAIN info.map : info.map[i] \in BOOT_MEMORY_DESCRIPTOR
  BY <1>1
<1>3. seqs \in [DOMAIN info.map -> Seq(Pages \cup {NotWriteBack})]
  BY <1>2, RegionRange
<1>4. seqs \in Seq(Seq(Pages \cup {NotWriteBack})) /\ DOMAIN info.map = 1 .. Len(seqs)
  BY <1>1, <1>3, SeqDef, LenProperties
<1>a. \A i \in DOMAIN info.map : seqs[i] = region_pages(info.map[i])
  OBVIOUS
<1>. HIDE DEF seqs
<1>5. Range(FlattenSeq(seqs)) = Gathered(seqs, Len(seqs))
  BY <1>4, FlattenRange
<1>6. \A i \in DOMAIN info.map : Range(region_pages(info.map[i])) \subseteq Range(boot_ram(info))
  BY <1>4, <1>a, <1>5 DEF boot_ram, seqs, Gathered
<1>7. NotWriteBack \notin Pages
  BY PmmAssumption DEF Pages, NotWriteBack
<1>8. \A i \in DOMAIN info.map :
        Range(region_pages(info.map[i])) = IF boot_memory(info.map[i]) THEN marked_pages(info.map[i]) ELSE {}
  BY <1>2, <1>6, <1>7, RegionRange
<1>9. Range(boot_ram(info)) = UNION {Range(region_pages(info.map[i])) : i \in DOMAIN info.map}
  BY <1>4, <1>a, <1>5 DEF boot_ram, seqs, Gathered
<1>10. \A page : page \in Range(boot_ram(info)) <=>
         \E i \in DOMAIN info.map : boot_memory(info.map[i]) /\ page \in marked_pages(info.map[i])
  BY <1>8, <1>9
<1>11. \A i \in DOMAIN info.map : valid_descriptor(info.map[i])
  BY DEF valid_map_ranges
<1>12. \A i \in DOMAIN info.map : \A page : page \in marked_pages(info.map[i]) <=>
         /\ page \in LOW_PAGE .. PAGE_COUNT - 1
         /\ PageBytes(page) \subseteq
              RegionBytes(info.map[i].physical_start, info.map[i].number_of_pages * PMM_PAGE_SIZE)
  BY <1>2, <1>11, MarkedExact
<1>13. \A page : page \in BootRam(info) <=>
         \E i \in DOMAIN info.map : boot_memory(info.map[i]) /\ page \in marked_pages(info.map[i])
  BY <1>12, Zenon DEF BootRam, boot_memory
<1>. QED
  BY <1>10, <1>13

(* The pages the allocator manages are part of the boot RAM.               *)
LEMMA ManagedInBootRam ==
  ASSUME NEW info \in BootInfos, valid_map_ranges(info)
  PROVE  mark_usable_pages(info) \subseteq BootRam(info)
<1>1. \A i \in DOMAIN info.map : info.map[i] \in BOOT_MEMORY_DESCRIPTOR /\ valid_descriptor(info.map[i])
  BY PmmAssumption DEF BOOT_INFO, valid_map_ranges
<1>2. \A i \in DOMAIN info.map : \A page : page \in marked_pages(info.map[i]) =>
         /\ page \in LOW_PAGE .. PAGE_COUNT - 1
         /\ PageBytes(page) \subseteq
              RegionBytes(info.map[i].physical_start, info.map[i].number_of_pages * PMM_PAGE_SIZE)
  BY <1>1, MarkedExact
<1>3. ASSUME NEW page \in mark_usable_pages(info)
      PROVE  page \in BootRam(info)
  <2>1. PICK i \in DOMAIN info.map : usable(info.map[i]) /\ page \in marked_pages(info.map[i])
    BY DEF mark_usable_pages
  <2>2. info.map[i].type \in {LoaderCode, LoaderData, Conventional} /\ ~info.map[i].runtime
    BY <2>1 DEF usable
  <2>. QED
    BY <1>2, <2>1, <2>2, Zenon DEF BootRam
<1>. QED
  BY <1>3
-----------------------------------------------------------------------------
(* The steps of paging_init.                                               *)

(* pmm_init has accepted the boot information.                             *)
LEMMA BootStep ==
  ASSUME PagingInv, NEW info \in BootInfos, boot(info)
  PROVE  PagingInv'
<1>1. /\ pc = "boot" /\ pmm_init(info) /\ ready' /\ pc' \in {"failed", "root"}
      /\ UNCHANGED <<table_pages, mem, paging_root, active, op, cached, owned>>
  BY DEF boot
<1>2. ~ready /\ eligible = {}
  BY <1>1 DEF PagingInv, Stages, PmmInv, UntouchedBeforeInit
<1>3. /\ valid_map_ranges(info) /\ boot_info' = info /\ allocated' = allocated
      /\ eligible' = (eligible \cup mark_usable_pages(info)) \ reserve_boot_regions(info)
  <2>1. accepts(info)
    BY <1>1, <1>2 DEF pmm_init, pmmVars
  <2>. QED
    BY <1>1, <2>1 DEF pmm_init, accepts
<1>4. PmmInv'
  BY <1>1, InitStep DEF PagingInv
<1>5. Ownership'
  BY <1>1, <1>3 DEF PagingInv, Ownership
<1>6. EntriesOK(mem)'
  BY <1>1 DEF PagingInv, EntriesOK
<1>7. pc \notin Running /\ pc' \notin Running /\ pc' \notin Building /\ pc' \in Bare /\ pc \in Bare
  BY <1>1 DEF Bare, Running, Mapping, Unmapping, Building
<1>8. Stages'
  <2>1. eligible' = mark_usable_pages(boot_info') \ reserve_boot_regions(boot_info')
    BY <1>2, <1>3
  <2>2. boot_info' \in BootInfos /\ valid_map_ranges(boot_info')
    BY <1>3
  <2>3. /\ active' = active /\ active \in BOOLEAN /\ ~active /\ paging_root' \in Pages
        /\ table_pages' = <<>> /\ owned' = {} /\ cached' = NothingCached
    BY <1>1, <1>7 DEF PagingInv, Stages
  <2>. QED
    BY <1>1, <1>7, <2>1, <2>2, <2>3 DEF Stages
<1>. QED
  BY <1>4, <1>5, <1>6, <1>7, <1>8 DEF PagingInv

(* There is no page for the root: the attempt ends.                        *)
LEMMA RootFailsStep ==
  ASSUME PagingInv, pc = "root", pc' = "failed",
         UNCHANGED <<pmmVars, table_pages, mem, paging_root, active, op, cached, owned>>
  PROVE  PagingInv'
<1>1. PmmInv' /\ Ownership' /\ UNCHANGED <<eligible, ready, boot_info>>
  BY OwnershipKept DEF PagingInv
<1>2. /\ pc \notin Running /\ pc' \notin Running /\ pc' \notin Building /\ pc' \in Bare /\ pc \in Bare
      /\ pc' # "boot" /\ pc # "boot"
  BY DEF Bare, Running, Mapping, Unmapping, Building
<1>3. Stages'
  BY <1>1, <1>2 DEF PagingInv, Stages
<1>. QED
  BY <1>1, <1>2, <1>3 DEF PagingInv, EntriesOK

(* Nothing is cached before CR3 changes.                                   *)
LEMMA NothingCachedOK ==
  ASSUME NEW depth, NEW route, cached' = NothingCached
  PROVE  CacheOK(depth, route)'
<1>1. cached'.prefix = <<>> /\ Len(<<>>) = 0
  BY DEF NothingCached
<1>2. <<>> \in Seq(Nat)
  OBVIOUS
<1>. QED
  BY <1>1, <1>2 DEF CacheOK

(* The root alone is a tree.                                               *)
LEMMA RootTree ==
  ASSUME NEW m, NEW root \in Pages, DOMAIN m = {root}, DOMAIN m[root] = {},
         NEW depth, NEW route, depth = [p \in Pages |-> 0], route = [p \in Pages |-> [j \in 1 .. 3 |-> 0]]
  PROVE  /\ Shape(m, root, depth, route) /\ Attached(m, root, depth, route, {})
         /\ \A va : LeafEntry(m, depth, route, va) = {}
<1>1. Rooted(m, root, depth, route)
  BY DEF Rooted
<1>2. Unique(m, depth, route)
  BY DEF Unique
<1>3. LinksDown(m, depth, route)
  BY DEF LinksDown
<1>4. Attached(m, root, depth, route, {})
  BY DEF Attached
<1>5. \A va : LeafEntry(m, depth, route, va) = {}
  BY DEF LeafEntry, TablesOn
<1>. QED
  BY <1>1, <1>2, <1>3, <1>4, <1>5 DEF Shape

(* new_table for the root.                                                 *)
LEMMA RootStep ==
  ASSUME PagingInv, pc = "root", NEW page \in Pages, new_table(page),
         mem' = put(mem, page, EmptyTable), paging_root' = page, pc' = "map_boot_ram",
         UNCHANGED <<active, op, cached, owned>>
  PROVE  PagingInv'
<1>1. /\ pc \notin Running /\ pc' \notin Running /\ pc' \in Building /\ pc \in Bare /\ pc' \notin Bare
      /\ pc' # "boot" /\ pc # "boot" /\ pc' \notin Mapping \cup Unmapping \cup RollingBack \cup Reclaiming
  BY DEF Bare, Running, Mapping, Unmapping, Building, RollingBack, Reclaiming
<1>2. table_pages = <<>> /\ mem = <<>> /\ DOMAIN mem = {}
  BY <1>1 DEF PagingInv, Stages, Ownership
<1>3. DOMAIN mem' = {page} /\ DOMAIN mem'[page] = {}
  BY <1>2 DEF put, EmptyTable
<1>4. /\ PmmInv' /\ Ownership' /\ UNCHANGED <<eligible, ready, boot_info>>
  BY <1>2, <1>3, NewTable DEF PagingInv
<1>5. EntriesOK(mem)'
  BY <1>3 DEF EntriesOK
<1>6. ~active /\ owned = {} /\ cached = NothingCached /\ Stages'
  BY <1>1, <1>4 DEF PagingInv, Stages
<1>7. PICK depth, route : depth = [p \in Pages |-> 0] /\ route = [p \in Pages |-> [j \in 1 .. 3 |-> 0]]
  OBVIOUS
<1>8. /\ Shape(mem', page, depth, route) /\ Attached(mem', page, depth, route, {})
      /\ \A va : LeafEntry(mem', depth, route, va) = {}
  BY <1>3, <1>7, RootTree
<1>9. Detached' = {}
  BY <1>1, DetachedWillBe
<1>10. OpOK(depth, route)'
  BY <1>1 DEF OpOK, Mapping, Unmapping
<1>11. \A t \in DOMAIN mem' : depth[t] = 0
  BY <1>7, <1>3
<1>12. WindowOK(depth, route)' /\ NoneEmpty(depth, route)'
  BY <1>3, <1>11 DEF WindowOK, NoneEmpty
<1>13. CacheOK(depth, route)'
  BY <1>6, NothingCachedOK
<1>14. IdentityOK(depth, route)'
  <2>1. \A p : Found(depth, route, p)' = {}
    BY <1>8 DEF Found
  <2>2. ~active'
    BY <1>6
  <2>. QED
    BY <2>1, <2>2 DEF IdentityOK
<1>15. Tree(depth, route)'
  BY <1>8, <1>9, <1>10, <1>12, <1>13, <1>14 DEF Tree
<1>. QED
  BY <1>1, <1>4, <1>5, <1>6, <1>15 DEF PagingInv

(* paging_init allocates the root.                                         *)
LEMMA PagingInitStep ==
  ASSUME PagingInv, paging_init
  PROVE  PagingInv'
<1>1. CASE no_table
  <2>1. /\ pc = "root" /\ pc' = "failed"
        /\ UNCHANGED <<pmmVars, table_pages, mem, paging_root, active, op, cached, owned>>
    BY <1>1 DEF paging_init
  <2>. QED
    BY <2>1, RootFailsStep
<1>2. CASE ~no_table
  <2>1. pc = "root" /\ UNCHANGED <<active, op, cached, owned>>
    BY <1>2 DEF paging_init
  <2>2. PICK page \in Pages :
          /\ new_table(page) /\ mem' = put(mem, page, EmptyTable)
          /\ paging_root' = page /\ pc' = "map_boot_ram"
    BY <1>2 DEF paging_init
  <2>. QED
    BY <2>1, <2>2, RootStep
<1>. QED
  BY <1>1, <1>2
(* The identity map holds pages that map_boot_ram visits.                  *)
IdentityOnly(depth, route) ==
  \A page \in Pages : Found(depth, route, page) # {} =>
    Found(depth, route, page) = {entry(page, identity_flags(page))} /\ page \in Visited

(* The pages that map_boot_ram is done with.                               *)
MappedBut(depth, route, todo) ==
  \A page \in Visited \ Range(todo) : page \in Pages /\ Found(depth, route, page) # {}

(* map_boot_ram goes on to the next page: what is left to show.            *)
LEMMA NextPageStep ==
  ASSUME PagingInv, pc \in {"map_boot_ram", "map_page"}, PmmInv', Ownership', EntriesOK(mem)',
         UNCHANGED <<eligible, ready, boot_info, paging_root, active, cached, owned>>,
         NEW todo \in Seq(Pages \cup {NotWriteBack}), next_page(todo),
         NEW depth, NEW route,
         Shape(mem', paging_root, depth, route), Attached(mem', paging_root, depth, route, {}),
         WindowOK(depth, route)', IdentityOnly(depth, route)',
         Range(todo) \subseteq Visited, MappedBut(depth, route, todo)'
  PROVE  PagingInv'
<1>1. pc \notin Running /\ pc # "boot" /\ ~active /\ cached = NothingCached /\ owned = {}
  <2>1. pc \notin Running /\ pc # "boot"
    BY DEF Running, Mapping, Unmapping
  <2>. QED
    BY <2>1 DEF PagingInv, Stages
<1>2. /\ todo = <<>> => pc' = "verify"
      /\ todo # <<>> /\ Head(todo) = NotWriteBack => pc' = "discard"
      /\ todo # <<>> /\ Head(todo) # NotWriteBack =>
           /\ pc' = "map_page"
           /\ op' = [va |-> identity(Head(todo)), level |-> 1, table |-> paging_root, created |-> <<>>,
                     todo |-> todo]
  BY DEF next_page
<1>3. pc' \in {"verify", "discard", "map_page"}
  BY <1>2
<1>4. /\ pc' \in {"discard"} \cup Building /\ pc' \notin Running
      /\ pc' \notin Mapping \cup Unmapping \cup RollingBack \cup Reclaiming
  BY <1>3 DEF Building, Running, Mapping, Unmapping, RollingBack, Reclaiming
<1>5. Stages'
  BY <1>1, <1>4, StagesKept DEF PagingInv
<1>6. CASE pc' = "discard"
  BY <1>4, <1>5, <1>6 DEF PagingInv, Building
<1>7. CASE pc' # "discard"
  <2>1. Detached' = {}
    BY <1>4, DetachedWillBe
  <2>2. CacheOK(depth, route)'
    BY <1>1, NothingCachedOK
  <2>3. NoneEmpty(depth, route)'
    BY <1>1 DEF WindowOK, NoneEmpty, DYNAMIC
  <2>4. CASE pc' = "map_page"
    <3>1. /\ todo # <<>> /\ Head(todo) # NotWriteBack
          /\ op' = [va |-> identity(Head(todo)), level |-> 1, table |-> paging_root, created |-> <<>>,
                    todo |-> todo]
      BY <1>2, <2>4
    <3>2. Head(todo) \in Pages
      BY <3>1, HeadTailProperties
    <3>3. /\ op'.va = identity(Head(todo)) /\ op'.level = 1 /\ op'.table = paging_root
          /\ op'.todo = todo
      BY <3>1
    <3>4. identity(Head(todo)) \in Seq(Nat)
      BY <3>2, IdentityIndices
    <3>5. paging_root \in Pages /\ <<>> \in Seq(Made)
      BY DEF Shape, Rooted
    <3>6. op' \in BuildOp
      BY <3>1, <3>4, <3>5 DEF BuildOp
    <3>7. paging_root \in DOMAIN mem' /\ depth[paging_root] = 0
          /\ On(paging_root, identity(Head(todo)), depth, route)
      BY RootOnly DEF Shape, Rooted
    <3>8. AtTable(depth, route)'
      BY <3>3, <3>7 DEF AtTable
    <3>9. OpOK(depth, route)'
      BY <1>4, <2>4, <3>1, <3>2, <3>3, <3>6, <3>8 DEF OpOK, RollingBack, Reclaiming
    <3>10. IdentityOK(depth, route)'
      <4>1. Visited' = Visited /\ ~active'
        BY <1>1 DEF Visited
      <4>. HIDE DEF Found, Visited, guards
      <4>. QED
        BY <2>4, <3>3, <4>1 DEF IdentityOK, IdentityOnly, MappedBut
    <3>11. Tree(depth, route)'
      BY <2>1, <2>2, <2>3, <3>9, <3>10 DEF Tree
    <3>. QED
      BY <1>5, <3>11 DEF PagingInv
  <2>5. CASE pc' = "verify"
    <3>1. todo = <<>> /\ Range(todo) = {}
      <4>1. todo = <<>>
        BY <1>2, <2>5
      <4>. QED
        BY <4>1 DEF Range
    <3>9. OpOK(depth, route)'
      BY <1>4, <2>5 DEF OpOK, RollingBack, Reclaiming
    <3>10. IdentityOK(depth, route)'
      <4>1. Visited' = Visited /\ ~active'
        BY <1>1 DEF Visited
      <4>. HIDE DEF Found, Visited, guards
      <4>. QED
        BY <2>5, <3>1, <4>1 DEF IdentityOK, IdentityOnly, MappedBut
    <3>11. Tree(depth, route)'
      BY <2>1, <2>2, <2>3, <3>9, <3>10 DEF Tree
    <3>. QED
      BY <1>5, <3>11 DEF PagingInv
  <2>. QED
    BY <1>3, <1>7, <2>4, <2>5
<1>. QED
  BY <1>6, <1>7

(* map_boot_ram starts on the boot RAM.                                    *)
LEMMA MapBootRamStep ==
  ASSUME PagingInv, map_boot_ram
  PROVE  PagingInv'
<1>1. /\ pc = "map_boot_ram" /\ next_page(boot_ram(boot_info))
      /\ UNCHANGED <<pmmVars, table_pages, mem, paging_root, active, cached, owned>>
  BY DEF map_boot_ram
<1>2. PmmInv' /\ Ownership' /\ UNCHANGED <<eligible, ready, boot_info>> /\ EntriesOK(mem)'
  BY <1>1, OwnershipKept DEF PagingInv, EntriesOK
<1>3. PICK depth, route : Tree(depth, route)
  BY <1>1 DEF PagingInv, Building
<1>4. Detached = {}
  BY <1>1, DetachedIs DEF RollingBack, Reclaiming
<1>5. boot_ram(boot_info) \in Seq(Pages \cup {NotWriteBack})
  BY <1>1, BootRamPages DEF PagingInv, Stages
<1>6. WindowOK(depth, route)'
  BY <1>1, <1>3 DEF Tree, WindowOK
<1>7. IdentityOnly(depth, route)'
  <2>1. IdentityOnly(depth, route)
    BY <1>3 DEF Tree, IdentityOK, IdentityOnly
  <2>2. Visited' = Visited /\ \A page : Found(depth, route, page)' = Found(depth, route, page)
    BY <1>1, <1>2 DEF Visited, Found
  <2>. QED
    BY <2>1, <2>2 DEF IdentityOnly
<1>8. Range(boot_ram(boot_info)) \subseteq Visited /\ MappedBut(depth, route, boot_ram(boot_info))'
  BY <1>2 DEF Visited, MappedBut
<1>. QED
  BY <1>1, <1>2, <1>3, <1>4, <1>5, <1>6, <1>7, <1>8, NextPageStep DEF Tree
(* The first page of a list and the rest of it.                            *)
LEMMA HeadAndTail ==
  ASSUME NEW S, NEW s \in Seq(S), s # <<>>
  PROVE  Tail(s) \in Seq(S) /\ Head(s) \in S /\ Range(s) = {Head(s)} \cup Range(Tail(s))
<1>1. PICK n \in Nat : n = Len(s) /\ n # 0
  BY LenProperties, EmptySeq
<1>2. /\ Tail(s) \in Seq(S) /\ Head(s) \in S /\ Len(Tail(s)) = n - 1
      /\ \A i \in 1 .. n - 1 : Tail(s)[i] = s[i + 1]
  BY <1>1, HeadTailProperties
<1>3. DOMAIN s = 1 .. n /\ DOMAIN Tail(s) = 1 .. n - 1 /\ Head(s) = s[1]
  BY <1>1, <1>2, LenProperties
<1>4. PICK r : r = Tail(s)
  OBVIOUS
<1>5. /\ DOMAIN r = 1 .. n - 1 /\ \A i \in 1 .. n - 1 : r[i] = s[i + 1]
  BY <1>2, <1>3, <1>4
<1>6. \A i \in 1 .. n : i = 1 \/ (i - 1 \in 1 .. n - 1 /\ (i - 1) + 1 = i)
  BY <1>1
<1>7. ASSUME NEW i \in 1 .. n
      PROVE  s[i] \in {s[1]} \cup Range(r)
  <2>1. CASE i = 1
    BY <2>1
  <2>2. CASE i # 1
    <3>1. PICK k \in 1 .. n - 1 : k + 1 = i
      BY <1>6, <2>2
    <3>2. r[k] = s[i] /\ k \in DOMAIN r
      BY <1>5, <3>1
    <3>. QED
      BY <3>2 DEF Range
  <2>. QED
    BY <2>1, <2>2
<1>8. \A i \in 1 .. n - 1 : i + 1 \in 1 .. n
  BY <1>1
<1>9. \A x \in Range(r) : x \in Range(s)
  BY <1>3, <1>5, <1>8 DEF Range
<1>10. s[1] \in Range(s)
  BY <1>1, <1>3 DEF Range
<1>11. Range(s) = {s[1]} \cup Range(r)
  BY <1>3, <1>7, <1>9, <1>10 DEF Range
<1>. QED
  BY <1>2, <1>3, <1>4, <1>11

(* Only its own address leads to an entry of the identity map.             *)
LEMMA OtherPage ==
  ASSUME NEW m, NEW m2, NEW t \in DOMAIN m, NEW depth, NEW route, depth[t] = 3,
         NEW page \in Pages, On(t, identity(page), depth, route),
         Stored(m, m2, t, identity(page)[4]), NEW q \in Pages, q # page
  PROVE  LeafEntry(m2, depth, route, identity(q)) = LeafEntry(m, depth, route, identity(q))
<1>1. ASSUME On(t, identity(q), depth, route), identity(q)[4] = identity(page)[4]
      PROVE  FALSE
  <2>1. Agree(identity(q), identity(page), 3)
    BY <1>1 DEF On, Agree
  <2>2. Agree(identity(q), identity(page), 4)
    <3>1. \A j \in 1 .. 4 : j \in 1 .. 3 \/ j = 4
      OBVIOUS
    <3>. QED
      BY <1>1, <2>1, <3>1 DEF Agree
  <2>. QED
    BY <2>2, IdentityInjective
<1>. QED
  BY <1>1, StoredElsewhere

(* map_page stores the leaf entry of a page of boot RAM.                   *)
LEMMA MapPageLeafStep ==
  ASSUME PagingInv, map_page_leaf
  PROVE  PagingInv'
<1>0. PICK t, page, rest : t = op.table /\ page = Head(op.todo) /\ rest = Tail(op.todo)
  OBVIOUS
<1>1. /\ pc = "map_page" /\ op.level = 4 /\ next_page(rest)
      /\ UNCHANGED <<pmmVars, table_pages, paging_root, active, cached, owned>>
      /\ mem' = WithEntry(mem, t, op.va[4], entry(page, identity_flags(page)))
  BY <1>0 DEF map_page_leaf, WithEntry
<1>2. PICK depth, route : Tree(depth, route)
  BY <1>1 DEF PagingInv, Building
<1>3. Detached = {}
  BY <1>1, DetachedIs DEF RollingBack, Reclaiming
<1>4. /\ Shape(mem, paging_root, depth, route) /\ Attached(mem, paging_root, depth, route, {})
      /\ WindowOK(depth, route) /\ IdentityOK(depth, route)
  BY <1>2, <1>3 DEF Tree
<1>5. /\ op \in BuildOp /\ op.todo # <<>> /\ page \in Pages /\ op.va = identity(page)
      /\ AtTable(depth, route)
  BY <1>0, <1>1, <1>2 DEF Tree, OpOK
<1>6. t \in DOMAIN mem /\ depth[t] = 3 /\ On(t, identity(page), depth, route)
  BY <1>0, <1>1, <1>5 DEF AtTable
<1>7. PICK todo \in Seq(Pages \cup {NotWriteBack}) : todo = op.todo
  BY <1>5 DEF BuildOp
<1>8. rest \in Seq(Pages \cup {NotWriteBack}) /\ Range(todo) = {page} \cup Range(rest)
  BY <1>0, <1>5, <1>7, HeadAndTail
<1>9. Range(todo) \subseteq Visited /\ MappedBut(depth, route, todo) /\ IdentityOnly(depth, route)
  BY <1>1, <1>4, <1>7 DEF IdentityOK, MappedBut, IdentityOnly
<1>10. PICK e : e = entry(page, identity_flags(page))
  OBVIOUS
<1>11. e \in Entries
  <2>1. identity_flags(page) \in SUBSET {"W", "X"}
    BY DEF identity_flags
  <2>. QED
    BY <1>5, <1>10, <2>1 DEF entry, Entries
<1>12. mem' = WithEntry(mem, t, identity(page)[4], e)
  BY <1>1, <1>5, <1>10
<1>13. /\ Stored(mem, mem', t, identity(page)[4]) /\ DOMAIN mem'[t] = DOMAIN mem[t] \cup {identity(page)[4]}
       /\ mem'[t][identity(page)[4]] = e
  BY <1>6, <1>12, PutStores
<1>14. table_pages # <<>>
  BY <1>6 DEF PagingInv, Ownership, Range
<1>15. PmmInv' /\ Ownership' /\ UNCHANGED <<eligible, ready, boot_info>>
  BY <1>1, <1>13, <1>14, OwnershipKept DEF PagingInv, Stored
<1>16. EntriesOK(mem)'
  BY <1>11, <1>13 DEF PagingInv, EntriesOK, Stored
<1>17. Shape(mem', paging_root, depth, route) /\ Attached(mem', paging_root, depth, route, {})
  BY <1>4, <1>6, <1>13, StoredTree
<1>18. ~active
  BY <1>1 DEF PagingInv, Stages, Running, Mapping, Unmapping
<1>19. WindowOK(depth, route)'
  <2>1. \A u \in DOMAIN mem' : depth[u] > 0 => route[u][1] = 0
    BY <1>4, <1>13, <1>18 DEF WindowOK, Stored
  <2>. QED
    BY <2>1 DEF WindowOK, DYNAMIC
<1>20. Found(depth, route, page)' = {e}
  <2>1. LeafEntry(mem', depth, route, identity(page)) = {e}
    BY <1>6, <1>13, <1>17, LeafIs DEF Stored
  <2>. QED
    BY <2>1 DEF Found
<1>21. \A q \in Pages : q # page => Found(depth, route, q)' = Found(depth, route, q)
  BY <1>5, <1>6, <1>13, OtherPage DEF Found
<1>22. Visited' = Visited
  BY <1>15 DEF Visited
<1>23. page \in Visited /\ Range(rest) \subseteq Visited
  BY <1>8, <1>9
<1>. HIDE DEF Found, Visited
<1>24. IdentityOnly(depth, route)'
  BY <1>9, <1>10, <1>20, <1>21, <1>22, <1>23 DEF IdentityOnly
<1>25. MappedBut(depth, route, rest)'
  BY <1>5, <1>8, <1>9, <1>20, <1>21, <1>22 DEF MappedBut
<1>. QED
  BY <1>1, <1>8, <1>15, <1>16, <1>17, <1>19, <1>23, <1>24, <1>25, NextPageStep

(* discard_page_tables gives the last table back.                          *)
LEMMA DiscardStep ==
  ASSUME PagingInv, discard_page_tables
  PROVE  PagingInv'
<1>1. pc = "discard" /\ UNCHANGED <<active, op, cached, owned>>
  BY DEF discard_page_tables
<1>2. pc \notin Running /\ pc \notin Building /\ pc \notin Bare /\ pc # "boot"
  BY <1>1 DEF Running, Mapping, Unmapping, Building, Bare
<1>3. CASE table_pages = <<>>
  <2>1. paging_root' = 0 /\ pc' = "failed" /\ UNCHANGED <<pmmVars, table_pages, mem>>
    BY <1>3 DEF discard_page_tables
  <2>2. PmmInv' /\ Ownership' /\ UNCHANGED <<eligible, ready, boot_info>>
    BY <1>1, <2>1, OwnershipKept DEF PagingInv
  <2>3. pc' \notin Running /\ pc' \notin Building /\ pc' \in Bare /\ pc' # "boot"
    BY <2>1 DEF Running, Mapping, Unmapping, Building, Bare
  <2>4. 0 \in Pages
    BY PmmAssumption DEF Pages
  <2>5. Stages'
    BY <1>1, <1>2, <1>3, <2>1, <2>2, <2>3, <2>4 DEF PagingInv, Stages
  <2>. QED
    BY <2>1, <2>2, <2>3, <2>5 DEF PagingInv, EntriesOK
<1>4. CASE table_pages # <<>>
  <2>0. PICK page : page = Last(table_pages)
    OBVIOUS
  <2>1. /\ table_pages' = Front(table_pages) /\ pmm_free(page * PMM_PAGE_SIZE)
        /\ mem' = Released(mem, {page}) /\ UNCHANGED <<paging_root, pc>>
    BY <1>4, <2>0 DEF discard_page_tables, Released
  <2>2. /\ table_pages' \in Seq(Pages) /\ IsInjective(table_pages') /\ Len(table_pages') = Len(table_pages) - 1
        /\ Range(table_pages') = Range(table_pages) \ {page} /\ page \in Range(table_pages)
    BY <1>4, <2>0, <2>1, RemoveLastTable DEF PagingInv, Ownership
  <2>3. page \in allocated /\ page \notin owned /\ ready
    BY <1>2, <2>2 DEF PagingInv, Ownership, Stages
  <2>4. /\ PmmInv' /\ allocated' = allocated \ {page} /\ UNCHANGED <<eligible, ready, boot_info>>
    BY <2>1, <2>3, FreeHeld DEF PagingInv
  <2>5. /\ DOMAIN mem' = DOMAIN mem \ {page} /\ \A u \in DOMAIN mem' : mem'[u] = mem[u]
    BY <2>1 DEF Released, Restrict
  <2>6. Len(table_pages') <= MAX_TABLES
    BY <2>2, LenProperties, PagingAssumption DEF PagingInv, Ownership
  <2>7. table_pages' = <<>> => mem' = <<>>
    <3>1. table_pages' = <<>> => DOMAIN mem' = {}
      BY <2>2, <2>5 DEF PagingInv, Ownership, Range
    <3>. QED
      BY <2>1, <3>1 DEF Restrict, Released
  <2>8. Ownership'
    BY <1>1, <2>2, <2>3, <2>4, <2>5, <2>6, <2>7 DEF PagingInv, Ownership
  <2>9. EntriesOK(mem)'
    BY <2>5 DEF PagingInv, EntriesOK
  <2>10. Stages'
    BY <1>1, <1>2, <2>1, <2>4, StagesKept DEF PagingInv
  <2>. QED
    BY <1>2, <2>1, <2>4, <2>8, <2>9, <2>10 DEF PagingInv
<1>. QED
  BY <1>3, <1>4
(* The pages of guards that the checks of paging_init have found mapped.   *)
LEMMA GuardsArePages ==
  ASSUME NEW info \in BootInfos, guards_mapped(info), NEW page \in guards(info)
  PROVE  page \in Pages /\ path(identity(page))
<1>1. PICK s \in Nat \ {0} : s = PMM_PAGE_SIZE
  BY PmmAssumption
<1>2. info.stack_base \in Nat /\ info.stack_size \in Nat
  BY PmmAssumption DEF BOOT_INFO, U64
<1>3. page \in Int
  <2>1. info.stack_base \div s \in Int /\ (info.stack_base + info.stack_size) \div s \in Int
    BY <1>1, <1>2, SMTT(20)
  <2>2. DfGuards \subseteq Int
    BY PagingAssumption DEF Pages
  <2>. QED
    BY <1>1, <2>1, <2>2 DEF guards
<1>4. mapped_range(page * s, s)
  BY <1>1 DEF guards_mapped
<1>5. PICK base \in Int : base = page * s
  BY <1>1, <1>3, SMTT(20)
<1>6. /\ base >= LOW_MEMORY /\ base < PMM_LIMIT
      /\ \A p \in base \div s .. (base + s - 1) \div s : mapped_page(p)
  BY <1>1, <1>4, <1>5 DEF mapped_range
<1>7. LOW_MEMORY = LOW_PAGE * s /\ PMM_LIMIT = PAGE_COUNT * s /\ LOW_PAGE \in Nat /\ PAGE_COUNT \in Nat
  BY <1>1, PmmAssumption DEF LOW_MEMORY, PMM_LIMIT
<1>8. LOW_PAGE <= page
  BY <1>1, <1>3, <1>5, <1>6, <1>7, PageOrder
<1>9. page < PAGE_COUNT
  <2>1. PAGE_COUNT <= page => PAGE_COUNT * s <= page * s
    BY <1>1, <1>3, <1>7, PageOrder
  <2>2. PAGE_COUNT * s \in Int
    BY <1>1, <1>7, PageOrder
  <2>. QED
    BY <1>3, <1>5, <1>6, <1>7, <2>1, <2>2
<1>10. page \in Pages /\ page \in Nat
  BY <1>3, <1>7, <1>8, <1>9 DEF Pages
<1>11. base \in Nat /\ base \div s = page
  <2>1. base \in Nat
    BY <1>1, <1>5, <1>10, SMTT(20)
  <2>2. /\ base \div s \in Nat /\ page <= base \div s <=> page * s <= base
        /\ base \div s <= page <=> base < (page + 1) * s
    BY <1>1, <1>3, <2>1, PageOf
  <2>3. (page + 1) * s = base + s
    BY <1>1, <1>3, <1>5, PageOrder
  <2>4. base \div s \in Nat /\ page <= base \div s /\ base \div s <= page
    BY <1>1, <1>5, <2>1, <2>2, <2>3
  <2>. QED
    BY <1>3, <2>1, <2>4
<1>12. (base + s - 1) \div s \in Nat /\ page <= (base + s - 1) \div s
  <2>1. base + s - 1 \in Nat /\ base <= base + s - 1
    BY <1>1, <1>11
  <2>2. /\ (base + s - 1) \div s \in Nat
        /\ page <= (base + s - 1) \div s <=> page * s <= base + s - 1
    BY <1>1, <1>3, <2>1, PageOf
  <2>. QED
    BY <1>5, <2>1, <2>2
<1>13. mapped_page(page)
  BY <1>6, <1>10, <1>11, <1>12
<1>. QED
  BY <1>10, <1>13 DEF mapped_page, path

(* The memory without the entries of the guards.                           *)
Guarded(t, i) ==
  \E page \in guards(boot_info) : table_at(identity(page), 3) = t /\ identity(page)[4] = i

(* Clearing the guard entries removes these entries and changes no other.  *)
LEMMA WithoutGuards ==
  ASSUME mem' = without_guards(boot_info)
  PROVE  /\ DOMAIN mem' = DOMAIN mem
         /\ \A t \in DOMAIN mem : DOMAIN mem'[t] = {i \in DOMAIN mem[t] : ~Guarded(t, i)}
         /\ \A t \in DOMAIN mem : \A i \in DOMAIN mem'[t] : mem'[t][i] = mem[t][i]
<1>1. mem' = [t \in DOMAIN mem |-> Restrict(mem[t], {i \in DOMAIN mem[t] : ~Guarded(t, i)})]
  BY Zenon DEF without_guards, Guarded
<1>2. DOMAIN mem' = DOMAIN mem
  BY <1>1
<1>3. \A t \in DOMAIN mem : mem'[t] = Restrict(mem[t], {i \in DOMAIN mem[t] : ~Guarded(t, i)})
  BY <1>1
<1>. HIDE DEF Guarded
<1>4. \A t \in DOMAIN mem : DOMAIN mem'[t] = {i \in DOMAIN mem[t] : ~Guarded(t, i)}
  BY <1>3 DEF Restrict
<1>5. ASSUME NEW t \in DOMAIN mem, NEW i \in DOMAIN mem'[t]
      PROVE  mem'[t][i] = mem[t][i]
  BY <1>3, <1>4 DEF Restrict
<1>. QED
  BY <1>2, <1>4, <1>5

(* An entry that is guarded lies in a table of leaf entries, on the walk   *)
(* of a guard.                                                             *)
LEMMA GuardedLeaf ==
  ASSUME NEW depth, NEW route, Tree(depth, route), boot_info \in BootInfos, guards_mapped(boot_info),
         NEW t, NEW i, Guarded(t, i)
  PROVE  \E page \in guards(boot_info) :
           /\ page \in Pages /\ depth[t] = 3 /\ On(t, identity(page), depth, route)
           /\ identity(page)[4] = i
<1>1. PICK page \in guards(boot_info) : table_at(identity(page), 3) = t /\ identity(page)[4] = i
  BY DEF Guarded
<1>2. page \in Pages /\ path(identity(page))
  BY GuardsArePages
<1>3. 3 \in 0 .. 3
  OBVIOUS
<1>4. depth[t] = 3 /\ On(t, identity(page), depth, route)
  BY <1>1, <1>2, <1>3, PathFound
<1>. QED
  BY <1>1, <1>2, <1>4

(* unmap_stack_guards removes the guards from the identity map and nothing *)
(* else.                                                                   *)
LEMMA GuardsRemoved ==
  ASSUME NEW depth, NEW route, Tree(depth, route), boot_info \in BootInfos, guards_mapped(boot_info),
         mem' = without_guards(boot_info), NEW page \in Pages
  PROVE  LeafEntry(mem', depth, route, identity(page))
           = IF page \in guards(boot_info) THEN {} ELSE LeafEntry(mem, depth, route, identity(page))
<1>0. PICK va : va = identity(page)
  OBVIOUS
<1>1. /\ DOMAIN mem' = DOMAIN mem
      /\ \A t \in DOMAIN mem : DOMAIN mem'[t] = {i \in DOMAIN mem[t] : ~Guarded(t, i)}
      /\ \A t \in DOMAIN mem : \A i \in DOMAIN mem'[t] : mem'[t][i] = mem[t][i]
  BY WithoutGuards
<1>2. Shape(mem, paging_root, depth, route)
  BY DEF Tree
<1>3. CASE page \in guards(boot_info)
  <2>1. path(va)
    BY <1>0, <1>3, GuardsArePages
  <2>2. PICK t : t = table_at(va, 3)
    OBVIOUS
  <2>3. t \in DOMAIN mem /\ depth[t] = 3 /\ On(t, va, depth, route)
    <3>1. 3 \in 0 .. 3
      OBVIOUS
    <3>. QED
      BY <2>1, <2>2, <3>1, PathFound
  <2>4. Guarded(t, va[4])
    BY <1>0, <1>3, <2>2 DEF Guarded
  <2>5. ASSUME NEW e \in LeafEntry(mem', depth, route, va)
        PROVE  FALSE
    <3>1. PICK u \in DOMAIN mem' : depth[u] = 3 /\ On(u, va, depth, route) /\ va[4] \in DOMAIN mem'[u]
      BY LeafOnWalk
    <3>2. u \in DOMAIN mem
      BY <1>1, <3>1
    <3>3. u = t
      BY <1>2, <2>3, <3>1, <3>2, OneTable
    <3>. QED
      BY <1>1, <2>3, <2>4, <3>1, <3>3
  <2>. QED
    BY <1>0, <1>3, <2>5
<1>4. CASE page \notin guards(boot_info)
  <2>1. ASSUME NEW u \in DOMAIN mem, depth[u] = 3, On(u, va, depth, route)
        PROVE  ~Guarded(u, va[4])
    <3>. SUFFICES ASSUME Guarded(u, va[4])
                  PROVE  FALSE
      OBVIOUS
    <3>1. PICK q \in guards(boot_info) :
            q \in Pages /\ On(u, identity(q), depth, route) /\ identity(q)[4] = va[4]
      BY GuardedLeaf
    <3>2. Agree(identity(q), va, 3)
      BY <2>1, <3>1 DEF On, Agree
    <3>3. \A j \in 1 .. 4 : j \in 1 .. 3 \/ j = 4
      OBVIOUS
    <3>4. Agree(identity(q), identity(page), 4)
      BY <1>0, <3>1, <3>2, <3>3 DEF Agree
    <3>. QED
      BY <1>4, <3>1, <3>4, IdentityInjective
  <2>2. \A u \in DOMAIN mem : depth[u] = 3 /\ On(u, va, depth, route) =>
          /\ va[4] \in DOMAIN mem'[u] <=> va[4] \in DOMAIN mem[u]
          /\ va[4] \in DOMAIN mem[u] => mem'[u][va[4]] = mem[u][va[4]]
    BY <1>1, <2>1
  <2>3. TablesOn(mem', depth, route, 3, va) = TablesOn(mem, depth, route, 3, va)
    BY <1>1 DEF TablesOn
  <2>4. \A u \in TablesOn(mem, depth, route, 3, va) :
          u \in DOMAIN mem /\ depth[u] = 3 /\ On(u, va, depth, route)
    BY DEF TablesOn
  <2>5. LeafEntry(mem', depth, route, va) = LeafEntry(mem, depth, route, va)
    BY <2>2, <2>3, <2>4 DEF LeafEntry
  <2>. QED
    BY <1>0, <1>4, <2>5
<1>. QED
  BY <1>3, <1>4

(* The checks, the removal of the guards and the new CR3.                  *)
LEMMA ActivateStep ==
  ASSUME PagingInv, activate_page_tables
  PROVE  PagingInv'
<1>1. pc = "verify" /\ UNCHANGED <<pmmVars, table_pages, paging_root, op, cached, owned>>
  BY DEF activate_page_tables
<1>2. /\ pc \notin Running /\ pc # "boot" /\ pc \in Building /\ pc \notin RollingBack \cup Reclaiming
      /\ "discard" \notin Building \cup Running
  BY <1>1 DEF Running, Mapping, Unmapping, Building, RollingBack, Reclaiming
<1>3. CASE ~(required_regions_mapped(boot_info) /\ guards_mapped(boot_info))
  <2>1. UNCHANGED <<mem, active>> /\ pc' = "discard"
    BY <1>3 DEF activate_page_tables
  <2>2. Quiet /\ cached' = cached
    BY <1>1, <2>1 DEF Quiet
  <2>. QED
    BY <1>2, <2>1, <2>2, QuietFlat DEF PagingInv
<1>4. CASE required_regions_mapped(boot_info) /\ guards_mapped(boot_info)
  <2>1. mem' = without_guards(boot_info) /\ active' = TRUE /\ pc' = "idle"
    BY <1>4 DEF activate_page_tables
  <2>2. PICK depth, route : Tree(depth, route)
    BY <1>2 DEF PagingInv
  <2>3. Detached = {}
    BY <1>2, DetachedIs
  <2>4. /\ DOMAIN mem' = DOMAIN mem
        /\ \A t \in DOMAIN mem : DOMAIN mem'[t] = {i \in DOMAIN mem[t] : ~Guarded(t, i)}
        /\ \A t \in DOMAIN mem : \A i \in DOMAIN mem'[t] : mem'[t][i] = mem[t][i]
    BY <2>1, WithoutGuards
  <2>5. boot_info \in BootInfos /\ guards_mapped(boot_info) /\ ~active /\ cached = NothingCached /\ owned = {}
    BY <1>2, <1>4 DEF PagingInv, Stages
  <2>6. Shape(mem', paging_root, depth, route) /\ Attached(mem', paging_root, depth, route, {})
    <3>1. ASSUME NEW t \in DOMAIN mem, depth[t] < 3
          PROVE  DOMAIN mem'[t] = DOMAIN mem[t] /\ \A i \in DOMAIN mem[t] : mem'[t][i] = mem[t][i]
      <4>1. \A i : ~Guarded(t, i)
        <5>1. ASSUME NEW i, Guarded(t, i)
              PROVE  FALSE
          BY <2>2, <2>5, <3>1, <5>1, GuardedLeaf
        <5>. QED
          BY <5>1
      <4>. QED
        BY <2>4, <4>1
    <3>. QED
      BY <2>2, <2>3, <2>4, <3>1, LeafStore DEF Tree
  <2>7. paging_root \in DOMAIN mem /\ table_pages # <<>>
    <3>1. paging_root \in DOMAIN mem
      BY <2>2 DEF Tree, Shape, Rooted
    <3>. QED
      BY <3>1 DEF PagingInv, Ownership, Range
  <2>8. PmmInv' /\ Ownership' /\ UNCHANGED <<eligible, ready, boot_info>>
    BY <1>1, <2>4, <2>7, OwnershipKept DEF PagingInv
  <2>9. EntriesOK(mem)'
    BY <2>4 DEF PagingInv, EntriesOK
  <2>10. pc' \in Running /\ pc' \notin Bare /\ pc' # "boot"
    BY <2>1, RunningStages
  <2>11. Stages'
    BY <1>1, <1>2, <2>1, <2>8, <2>10 DEF PagingInv, Stages
  <2>12. OpOK(depth, route)' /\ Detached' = {}
    BY <2>1, IdleOp
  <2>13. CacheOK(depth, route)'
    BY <1>1, <2>5, NothingCachedOK
  <2>14. \A t \in DOMAIN mem' : depth[t] > 0 => route[t][1] # DYNAMIC
    BY <2>2, <2>4, <2>5 DEF Tree, WindowOK, DYNAMIC
  <2>15. WindowOK(depth, route)' /\ NoneEmpty(depth, route)'
    BY <2>1, <2>14 DEF WindowOK, NoneEmpty
  <2>16. IdentityOK(depth, route)'
    <3>1. ASSUME NEW page \in Pages
          PROVE  Found(depth, route, page)'
                   = IF page \in guards(boot_info) THEN {} ELSE Found(depth, route, page)
      BY <2>1, <2>2, <2>5, GuardsRemoved DEF Found
    <3>2. \A page \in guards(boot_info) : page \in Pages
      BY <2>5, GuardsArePages
    <3>3. Visited' = Visited /\ guards(boot_info)' = guards(boot_info)
      BY <2>8 DEF Visited
    <3>4. IdentityOK(depth, route)
      BY <2>2 DEF Tree
    <3>. HIDE DEF Found, Visited, guards
    <3>5. \A page \in Visited : page \in Pages /\ Found(depth, route, page) # {}
      BY <1>1, <3>4 DEF IdentityOK
    <3>. QED
      BY <2>1, <3>1, <3>2, <3>3, <3>4, <3>5 DEF IdentityOK
  <2>17. Tree(depth, route)'
    BY <1>1, <2>6, <2>12, <2>13, <2>15, <2>16 DEF Tree
  <2>. QED
    BY <2>8, <2>9, <2>11, <2>17 DEF PagingInv
<1>. QED
  BY <1>3, <1>4
-----------------------------------------------------------------------------
(* The invariant of paging.c.                                              *)

(* paging_map stores its leaf, or returns PAGING_ALREADY_MAPPED.           *)
LEMMA MapLeafBoth ==
  ASSUME PagingInv, map_leaf
  PROVE  /\ PagingInv'
         /\ Unseen \/ \E va \in Windows : op'.va = va /\ SeenAt(va) /\ leaf(va) = {}
<1>1. pc = "map" /\ op.level = 4 /\ UNCHANGED <<pmmVars, table_pages, paging_root, active, cached, owned>>
  BY DEF map_leaf
<1>2. CASE op.va[4] \in DOMAIN mem[op.table]
  <2>1. pc' = "idle" /\ mem' = mem
    BY <1>2 DEF map_leaf, return
  <2>2. Quiet
    BY <1>1, <2>1 DEF Quiet
  <2>3. Unseen
    BY <1>1, <2>1, NoStoreUnseen
  <2>. QED
    BY <1>1, <1>2, <2>1, <2>2, <2>3, MappedAlreadyStep
<1>3. CASE op.va[4] \notin DOMAIN mem[op.table]
  <2>1. /\ mem' = WithEntry(mem, op.table, op.va[4], entry(op.page, op.flags))
        /\ pc' = "invalidate" /\ op' = op
    BY <1>3 DEF map_leaf, WithEntry
  <2>. QED
    BY <1>1, <1>3, <2>1, MapLeafStep
<1>. QED
  BY <1>2, <1>3

(* roll_back unlinks a table or has none left.                             *)
LEMMA RollBackBoth ==
  ASSUME PagingInv, roll_back
  PROVE  PagingInv' /\ Unseen
<1>1. pc = "roll_back" /\ UNCHANGED <<pmmVars, table_pages, paging_root, active, cached, owned>>
  BY DEF roll_back
<1>2. CASE op.created = <<>>
  <2>1. pc' = "idle" /\ mem' = mem
    BY <1>2 DEF roll_back, return
  <2>2. Quiet
    BY <1>1, <2>1 DEF Quiet
  <2>3. Unseen
    BY <1>1, <2>1, NoStoreUnseen
  <2>. QED
    BY <1>1, <1>2, <2>1, <2>2, <2>3, RolledBackStep
<1>3. CASE op.created # <<>>
  <2>1. /\ mem' = WithoutEntry(mem, Last(op.created).table, Last(op.created).index)
        /\ pc' = "roll_back_invalidate" /\ op' = op
    BY <1>3 DEF roll_back, WithoutEntry
  <2>. QED
    BY <1>1, <1>3, <2>1, RollBackStep
<1>. QED
  BY <1>2, <1>3

(* reclaim unlinks an empty table or has reached one that is not.          *)
LEMMA ReclaimBoth ==
  ASSUME PagingInv, reclaim
  PROVE  PagingInv' /\ Unseen
<1>1. pc = "reclaim" /\ UNCHANGED <<pmmVars, table_pages, paging_root, active, cached, owned>>
  BY DEF reclaim
<1>2. CASE op.level = 0 \/ DOMAIN mem[op.tables[op.level]] # {}
  <2>1. pc' = "idle" /\ mem' = mem
    BY <1>2 DEF reclaim, return
  <2>2. Quiet
    BY <1>1, <2>1 DEF Quiet
  <2>3. Unseen
    BY <1>1, <2>1, NoStoreUnseen
  <2>. QED
    BY <1>1, <1>2, <2>1, <2>2, <2>3, ReclaimedStep
<1>3. CASE ~(op.level = 0 \/ DOMAIN mem[op.tables[op.level]] # {})
  <2>1. /\ mem' = WithoutEntry(mem, op.tables[op.level - 1], op.va[op.level])
        /\ pc' = "reclaim_invalidate" /\ op' = op
    BY <1>3 DEF reclaim, WithoutEntry
  <2>. QED
    BY <1>1, <1>3, <2>1, ReclaimStep
<1>. QED
  BY <1>2, <1>3

(* Nothing happens.                                                        *)
LEMMA PagingStutter ==
  ASSUME PagingInv, UNCHANGED vars
  PROVE  PagingInv'
<1>1. UNCHANGED <<pmmVars, table_pages, mem, paging_root, active, pc, op, cached, owned>>
  BY DEF vars
<1>2. PmmInv' /\ Ownership' /\ UNCHANGED <<eligible, ready, boot_info>>
  BY <1>1, OwnershipKept DEF PagingInv
<1>3. Stages' /\ EntriesOK(mem)'
  BY <1>1, <1>2 DEF PagingInv, Stages, EntriesOK
<1>4. ASSUME NEW depth, NEW route, Tree(depth, route)
      PROVE  Tree(depth, route)'
  <2>1. Detached' = Detached /\ Pending' = Pending
    BY <1>1 DEF Detached, Pending
  <2>2. OpOK(depth, route)'
    <3>1. AtTable(depth, route)' = AtTable(depth, route) /\ MadeChain(depth, route)' = MadeChain(depth, route)
      BY <1>1 DEF AtTable, MadeChain
    <3>. HIDE DEF AtTable, MadeChain
    <3>. QED
      BY <1>1, <1>4, <3>1 DEF Tree, OpOK
  <2>3. CacheOK(depth, route)'
    BY <1>1, <1>4, <2>1 DEF Tree, CacheOK
  <2>4. WindowOK(depth, route)' /\ NoneEmpty(depth, route)'
    BY <1>1, <1>4, <2>1 DEF Tree, WindowOK, NoneEmpty
  <2>5. IdentityOK(depth, route)'
    <3>1. SameLeaves(mem, depth, route, mem', depth, route)
      BY <1>1 DEF SameLeaves, LeavesIn
    <3>. QED
      BY <1>1, <1>2, <1>4, <3>1, IdentityKept DEF Tree
  <2>. QED
    BY <1>1, <1>4, <2>1, <2>2, <2>3, <2>4, <2>5 DEF Tree
<1>. QED
  BY <1>1, <1>2, <1>3, <1>4 DEF PagingInv

(* The initial state satisfies the invariant.                              *)
LEMMA PagingInitInv == Init => PagingInv
<1>. SUFFICES ASSUME Init
              PROVE  PagingInv
  OBVIOUS
<1>1. PmmInv /\ allocated = {} /\ ~ready /\ ready = FALSE
  BY PmmInitInv DEF Init, PmmInit
<1>2. /\ table_pages = <<>> /\ mem = <<>> /\ paging_root = 0 /\ active = FALSE
      /\ pc = "boot" /\ cached = NothingCached /\ owned = {}
  BY DEF Init
<1>3. Ownership
  <2>1. <<>> \in Seq(Pages) /\ Range(<<>>) = {} /\ IsInjective(<<>>) /\ Len(<<>>) = 0 /\ DOMAIN <<>> = {}
    BY DEF Range, IsInjective
  <2>2. MAX_TABLES \in Nat
    BY PagingAssumption
  <2>. QED
    BY <1>1, <1>2, <2>1, <2>2 DEF Ownership
<1>4. EntriesOK(mem)
  BY <1>2 DEF EntriesOK
<1>5. pc \in Bare /\ pc \notin Building \cup Running
  BY <1>2 DEF Bare, Building, Running, Mapping, Unmapping
<1>6. Stages
  <2>1. 0 \in Pages
    BY PmmAssumption DEF Pages
  <2>. QED
    BY <1>1, <1>2, <1>5, <2>1 DEF Stages
<1>. QED
  BY <1>1, <1>3, <1>4, <1>5, <1>6 DEF PagingInv

(* Every step preserves it.                                                *)
LEMMA PagingNextInv ==
  ASSUME PagingInv, [Next]_vars
  PROVE  PagingInv'
<1>1. ASSUME NEW info \in BootInfos, boot(info)
      PROVE  PagingInv'
  BY <1>1, BootStep
<1>2. CASE paging_init
  BY <1>2, PagingInitStep
<1>3. CASE map_boot_ram
  BY <1>3, MapBootRamStep
<1>4. CASE descend("map_page") \/ descend("map")
  BY <1>4, DescendStep
<1>5. CASE add_table("map_page") \/ add_table("map")
  BY <1>5, AddTableStep
<1>6. CASE out_of_tables("map_page", "discard") \/ out_of_tables("map", "roll_back")
  BY <1>6, OutOfTablesStep
<1>7. CASE map_page_leaf
  BY <1>7, MapPageLeafStep
<1>8. CASE activate_page_tables
  BY <1>8, ActivateStep
<1>9. CASE discard_page_tables
  BY <1>9, DiscardStep
<1>10. ASSUME NEW va \in Windows \cup Outside, NEW page \in Pages, NEW flags \in FlagSets,
              paging_map(va, page, flags)
       PROVE  PagingInv'
  BY <1>10, PagingMapStep
<1>11. CASE map_leaf
  BY <1>11, MapLeafBoth
<1>12. CASE invalidate_and_return
  BY <1>12, InvalidateAndReturnStep
<1>13. CASE roll_back
  BY <1>13, RollBackBoth
<1>14. CASE \/ invalidate_step("roll_back_invalidate", "roll_back_release")
            \/ invalidate_step("unmap_invalidate", "reclaim")
            \/ invalidate_step("reclaim_invalidate", "reclaim_release")
  BY <1>14, InvalidateStep
<1>15. CASE roll_back_release
  BY <1>15, RollBackReleaseStep
<1>16. ASSUME NEW va \in Windows \cup Outside, paging_unmap(va)
       PROVE  PagingInv'
  BY <1>16, PagingUnmapStep
<1>17. CASE reclaim
  BY <1>17, ReclaimBoth
<1>18. CASE reclaim_release
  BY <1>18, ReclaimReleaseStep
<1>19. ASSUME NEW va \in Windows \cup Outside, NEW flags \in FlagSets, paging_protect(va, flags)
       PROVE  PagingInv'
  BY <1>19, PagingProtectStep
<1>20. CASE cpu_walk
  BY <1>20, CpuWalkStep
<1>21. CASE caller_alloc
  BY <1>21, CallerAllocStep
<1>22. CASE caller_free
  BY <1>22, CallerFreeStep
<1>23. CASE boot_failure \/ UNCHANGED vars
  BY <1>23, PagingStutter DEF boot_failure
<1>. QED
  BY <1>1, <1>2, <1>3, <1>4, <1>5, <1>6, <1>7, <1>8, <1>9, <1>10, <1>11, <1>12, <1>13, <1>14, <1>15,
     <1>16, <1>17, <1>18, <1>19, <1>20, <1>21, <1>22, <1>23, Zenon DEF Next

(* The invariant holds in every reachable state of paging.c.               *)
THEOREM PagingInvariant == Spec => []PagingInv
<1>1. Init => PagingInv
  BY PagingInitInv
<1>2. PagingInv /\ [Next]_vars => PagingInv'
  BY PagingNextInv
<1>. QED
  BY <1>1, <1>2, PTL DEF Spec
-----------------------------------------------------------------------------
(* Every variable of paging.c keeps its type, and no entry of any table    *)
(* leads outside of memory.                                                *)
THEOREM PagingTypes == Spec => []PagingTypeOK
<1>1. ASSUME PagingInv
      PROVE  PagingTypeOK
  <2>1. /\ table_pages \in Seq(Pages) /\ DOMAIN mem = Range(table_pages) /\ owned \subseteq Pages
        /\ EntriesOK(mem) /\ paging_root \in Pages /\ active \in BOOLEAN
    BY <1>1 DEF PagingInv, Ownership, Stages
  <2>2. Range(table_pages) \subseteq Pages
    BY <2>1 DEF Range
  <2>3. \A t \in DOMAIN mem : Range(mem[t]) \subseteq Entries
    BY <2>1 DEF EntriesOK, Range
  <2>. QED
    BY <2>1, <2>2, <2>3 DEF PagingTypeOK, Entries
<1>2. PagingInv => PagingTypeOK
  BY <1>1
<1>. QED
  BY PagingInvariant, <1>2, PTL

(* The allocator's pages are divided between the tables and the callers,   *)
(* whatever step of map, unmap, roll-back or reclaim is under way.         *)
THEOREM PagingOwnership == Spec => []PagesHaveOneOwner
<1>1. PagingInv => PagesHaveOneOwner
  BY DEF PagingInv, Ownership, PagesHaveOneOwner
<1>. QED
  BY PagingInvariant, <1>1, PTL

(* A paging_init that fails, at whatever point, has given everything back. *)
THEOREM PagingFailure == Spec => []FailedInitLeavesNothing
<1>1. ASSUME PagingInv, pc = "failed"
      PROVE  ~active /\ allocated = {} /\ table_pages = <<>> /\ mem = <<>>
  <2>1. pc \in Bare /\ pc \notin Running
    BY <1>1 DEF Bare, Running, Mapping, Unmapping
  <2>2. ~active /\ owned = {} /\ table_pages = <<>>
    BY <1>1, <2>1 DEF PagingInv, Stages
  <2>3. mem = <<>> /\ allocated = Range(table_pages) \cup owned
    BY <1>1, <2>2 DEF PagingInv, Ownership
  <2>. QED
    BY <2>2, <2>3 DEF Range
<1>2. PagingInv => FailedInitLeavesNothing
  BY <1>1 DEF FailedInitLeavesNothing
<1>. QED
  BY PagingInvariant, <1>2, PTL

(* The tree of a running kernel.                                           *)
LEMMA RunningTree ==
  ASSUME PagingInv, active
  PROVE  \E depth, route : Tree(depth, route)
BY DEF PagingInv, Stages

(* unlink, invlpg, release: at no step does the CPU hold a pointer to a    *)
(* table that the allocator has back.                                      *)
THEOREM PagingCacheLive == Spec => []CachedTableLive
<1>1. ASSUME PagingInv, Len(cached.prefix) \in 1 .. 3
      PROVE  cached.page \in Range(table_pages)
  <2>1. active
    <3>1. ~active => Len(cached.prefix) = 0
      <4>1. Len(<<>>) = 0
        OBVIOUS
      <4>. QED
        BY <1>1, <4>1 DEF PagingInv, Stages, NothingCached
    <3>. QED
      BY <1>1, <3>1
  <2>2. PICK depth, route : Tree(depth, route)
    BY <1>1, <2>1, RunningTree
  <2>3. cached.page \in DOMAIN mem
    BY <1>1, <2>2 DEF Tree, CacheOK
  <2>. QED
    BY <1>1, <2>3 DEF PagingInv, Ownership
<1>2. PagingInv => CachedTableLive
  BY <1>1 DEF CachedTableLive
<1>. QED
  BY PagingInvariant, <1>2, PTL

(* What a walk finds at the first three levels.                            *)
LEMMA WalkReaches ==
  ASSUME NEW depth, NEW route, Tree(depth, route), NEW va
  PROVE  \A n \in 1 .. 3 : walk(va)[n] = Reached(mem, depth, route, Detached, n, va)
<1>1. Shape(mem, paging_root, depth, route) /\ Attached(mem, paging_root, depth, route, Detached)
  BY DEF Tree
<1>. QED
  BY <1>1, WalkFinds, WalkIs

(* The start of an address.                                                *)
LEMMA PrefixOf ==
  ASSUME NEW va \in Windows, NEW n \in 1 .. 4, NEW p, p = SubSeq(va, 1, n)
  PROVE  Len(p) = n /\ Agree(p, va, n) /\ (n = 4 => p = va)
<1>1. va \in Seq(Nat) /\ Len(va) = 4 /\ \A j \in 1 .. 4 : va[j] \in Nat
  BY WindowIndices
<1>2. p \in Seq(Nat) /\ Len(p) = n /\ \A j \in 1 .. n : p[j] = va[j]
  <2>1. /\ p \in Seq(Nat) /\ Len(p) = (IF 1 <= n THEN n - 1 + 1 ELSE 0)
        /\ \A j \in 1 .. n - 1 + 1 : p[j] = va[1 + j - 1]
    BY <1>1, SubSeqProperties
  <2>2. \A j \in 1 .. n : j \in 1 .. n - 1 + 1 /\ 1 + j - 1 = j
    OBVIOUS
  <2>. QED
    BY <2>1, <2>2
<1>3. Agree(p, va, n)
  BY <1>2 DEF Agree
<1>4. n = 4 => p = va
  BY <1>1, <1>2, <1>3, SamePath
<1>. QED
  BY <1>2, <1>3, <1>4

(* Between operations whatever the CPU has cached is what a walk of the    *)
(* tables would find: every store of map, unmap and protect is followed by *)
(* the invlpg it needs.                                                    *)
THEOREM PagingCacheCoherent == Spec => []CacheCoherent
<1>1. ASSUME PagingInv, pc = "idle", cached.prefix # <<>>
      PROVE  \E va \in Windows :
               /\ SubSeq(va, 1, Len(cached.prefix)) = cached.prefix
               /\ walk(va)[Len(cached.prefix)] = {entry(cached.page, cached.flags)}
  <2>1. Detached = {} /\ \E depth, route : Tree(depth, route)
    BY <1>1, IdleState
  <2>2. PICK depth, route : Tree(depth, route)
    BY <2>1
  <2>3. PICK p, n : p = cached.prefix /\ n = Len(p)
    OBVIOUS
  <2>4. /\ p \in Seq(Nat) /\ n <= 4 /\ (n > 0 => \E va \in Windows : p = SubSeq(va, 1, n))
        /\ n \in 1 .. 3 => /\ cached.page \in DOMAIN mem /\ depth[cached.page] = n
                           /\ On(cached.page, p, depth, route) /\ cached.flags = {"W", "X"}
        /\ n = 4 => LeafEntry(mem, depth, route, p) = {entry(cached.page, cached.flags)}
    BY <1>1, <2>2, <2>3 DEF Tree, CacheOK
  <2>5. n \in 1 .. 4
    <3>1. n \in Nat
      BY <2>3, <2>4, LenProperties
    <3>2. n # 0
      BY <1>1, <2>3, <2>4, EmptySeq
    <3>. QED
      BY <2>4, <3>1, <3>2
  <2>6. PICK va \in Windows : p = SubSeq(va, 1, n)
    BY <2>4, <2>5
  <2>7. Agree(p, va, n) /\ (n = 4 => p = va)
    BY <2>5, <2>6, PrefixOf
  <2>8. walk(va)[n] = {entry(cached.page, cached.flags)}
    <3>1. CASE n = 4
      <4>1. walk(va)[4] = LeafEntry(mem, depth, route, va)
        BY <2>2, LeafFound, WalkIs
      <4>. QED
        BY <2>4, <2>7, <3>1, <4>1
    <3>2. CASE n \in 1 .. 3
      <4>1. walk(va)[n] = Reached(mem, depth, route, Detached, n, va)
        BY <2>2, <3>2, WalkReaches
      <4>2. On(cached.page, va, depth, route)
        BY <2>4, <2>7, <3>2 DEF On, Agree
      <4>3. TablesOn(mem, depth, route, n, va) = {cached.page}
        BY <2>2, <2>4, <3>2, <4>2, OneTable DEF Tree, TablesOn
      <4>. QED
        BY <2>1, <2>4, <3>2, <4>1, <4>3 DEF Reached, link
    <3>. QED
      BY <2>5, <3>1, <3>2
  <2>. QED
    BY <2>3, <2>6, <2>8
<1>2. PagingInv => CacheCoherent
  BY <1>1 DEF CacheCoherent
<1>. QED
  BY PagingInvariant, <1>2, PTL

(* A dynamic address never shows a page that its callers do not hold, not  *)
(* even between the stores of an operation.                                *)
THEOREM PagingWindow == Spec => []WindowShowsOwnedPages
<1>1. ASSUME PagingInv, active, NEW va \in Windows, NEW e \in paging_query(va)
      PROVE  e.page \in owned
  <2>1. PICK depth, route : Tree(depth, route)
    BY <1>1, RunningTree
  <2>2. e \in LeafEntry(mem, depth, route, va)
    BY <1>1, <2>1, LeafFound DEF paging_query
  <2>3. PICK t \in DOMAIN mem : /\ depth[t] = 3 /\ On(t, va, depth, route)
                                /\ va[4] \in DOMAIN mem[t] /\ e = mem[t][va[4]]
    BY <2>2, LeafOnWalk
  <2>4. route[t][1] = DYNAMIC
    BY <2>3, WindowIndices DEF On, Agree
  <2>. QED
    BY <2>1, <2>3, <2>4 DEF Tree, WindowOK
<1>2. PagingInv => WindowShowsOwnedPages
  BY <1>1 DEF WindowShowsOwnedPages
<1>. QED
  BY PagingInvariant, <1>2, PTL
-----------------------------------------------------------------------------
(* A table has one parent, and one entry in it.                            *)
LEMMA OneParent ==
  ASSUME NEW m, NEW root, NEW depth, NEW route, Shape(m, root, depth, route),
         NEW t \in DOMAIN m, NEW u \in DOMAIN m, NEW c \in DOMAIN m, NEW i, NEW j,
         IsChild(c, t, i, depth, route), IsChild(c, u, j, depth, route)
  PROVE  t = u /\ i = j
<1>1. depth[t] \in 0 .. 3 /\ depth[u] \in 0 .. 3 /\ depth[c] = depth[t] + 1 /\ depth[c] = depth[u] + 1
  BY DEF Shape, Rooted, IsChild
<1>2. depth[t] = depth[u]
  BY <1>1
<1>3. Agree(route[t], route[u], depth[t])
  BY <1>2 DEF IsChild, Agree
<1>4. t = u
  BY <1>2, <1>3 DEF Shape, Unique
<1>. QED
  BY <1>4 DEF IsChild

(* The tables of one depth.                                                *)
Level(depth, n) == {t \in DOMAIN mem : depth[t] = n}

(* The entries of the tables of one depth lead to all tables of the next.  *)
LEMMA BelowLevel ==
  ASSUME NEW depth, NEW route, Tree(depth, route), Detached = {}, NEW n \in 0 .. 2
  PROVE  Below(Level(depth, n)) = Level(depth, n + 1)
<1>1. Shape(mem, paging_root, depth, route) /\ Attached(mem, paging_root, depth, route, {})
  BY DEF Tree
<1>2. ASSUME NEW c \in Below(Level(depth, n))
      PROVE  c \in Level(depth, n + 1)
  <2>1. PICK t \in DOMAIN mem : depth[t] = n /\ c \in {e.page : e \in Range(mem[t])}
    BY <1>2 DEF Below, Level
  <2>2. PICK i \in DOMAIN mem[t] : c = mem[t][i].page
    BY <2>1 DEF Range
  <2>3. depth[t] < 3
    BY <2>1
  <2>4. c \in DOMAIN mem /\ IsChild(c, t, i, depth, route)
    BY <1>1, <2>2, <2>3 DEF Shape, LinksDown
  <2>. QED
    BY <2>1, <2>4 DEF IsChild, Level
<1>3. ASSUME NEW c \in Level(depth, n + 1)
      PROVE  c \in Below(Level(depth, n))
  <2>1. c \in DOMAIN mem /\ depth[c] = n + 1
    BY <1>3 DEF Level
  <2>2. c # paging_root
    BY <1>1, <2>1 DEF Shape, Rooted
  <2>3. PICK t \in DOMAIN mem : \E i \in DOMAIN mem[t] : IsChild(c, t, i, depth, route)
    BY <1>1, <2>1, <2>2 DEF Attached
  <2>4. PICK i \in DOMAIN mem[t] : IsChild(c, t, i, depth, route)
    BY <2>3
  <2>5. mem[t][i] = link(c)
    BY <1>1, <2>1, <2>4, LinkedChild
  <2>6. mem[t][i].page = c
    BY <2>5 DEF link, entry
  <2>7. depth[t] = n
    <3>1. depth[c] = depth[t] + 1 /\ depth[t] \in 0 .. 3
      BY <1>1, <2>4 DEF IsChild, Shape, Rooted
    <3>. QED
      BY <2>1, <3>1
  <2>8. c \in {e.page : e \in Range(mem[t])}
    BY <2>4, <2>6 DEF Range
  <2>. QED
    BY <2>7, <2>8 DEF Below, Level
<1>. QED
  BY <1>2, <1>3

(* As many links as tables but the root.                                   *)
LEMMA LinksCounted ==
  ASSUME NEW depth, NEW route, Tree(depth, route), Detached = {}, Ownership, NEW Upper,
         Upper = {t \in DOMAIN mem : depth[t] < 3}
  PROVE  Cardinality(LinksIn(Upper)) = Len(table_pages) - 1
<1>1. Shape(mem, paging_root, depth, route) /\ Attached(mem, paging_root, depth, route, {})
  BY DEF Tree
<1>2. PICK n \in Nat : n = Len(table_pages)
  BY LenProperties DEF Ownership
<1>3. IsFiniteSet(DOMAIN mem) /\ Cardinality(DOMAIN mem) = n
  <2>1. DOMAIN table_pages = 1 .. n /\ IsInjective(table_pages) /\ DOMAIN mem = Range(table_pages)
        /\ table_pages \in [1 .. n -> Pages]
    BY <1>2, LenProperties DEF Ownership
  <2>2. table_pages \in [1 .. n -> DOMAIN mem]
    BY <2>1 DEF Range
  <2>3. table_pages \in Bijection(1 .. n, DOMAIN mem)
    BY <2>1, <2>2 DEF Bijection, Injection, Surjection, Range
  <2>4. ExistsBijection(1 .. n, DOMAIN mem)
    BY <2>3 DEF ExistsBijection
  <2>5. IsFiniteSet(1 .. n) /\ Cardinality(1 .. n) = n
    BY FS_Interval
  <2>. QED
    BY <2>4, <2>5, FS_Bijection
<1>4. PICK T : T = DOMAIN mem \ {paging_root}
  OBVIOUS
<1>5. IsFiniteSet(T) /\ Cardinality(T) = n - 1
  <2>1. paging_root \in DOMAIN mem
    BY <1>1 DEF Shape, Rooted
  <2>. QED
    BY <1>3, <1>4, <2>1, FS_RemoveElement
<1>6. PICK L : L = LinksIn(Upper)
  OBVIOUS
<1>7. \A x : x \in L <=> \E t \in Upper : \E i \in DOMAIN mem[t] : x = <<t, i>>
  BY <1>6 DEF LinksIn
<1>8. PICK f : f = [x \in L |-> mem[x[1]][x[2]].page]
  OBVIOUS
<1>9. ASSUME NEW x \in L
      PROVE  /\ x[1] \in DOMAIN mem /\ x = <<x[1], x[2]>> /\ f[x] \in T
             /\ IsChild(f[x], x[1], x[2], depth, route)
  <2>1. PICK t \in Upper : \E i \in DOMAIN mem[t] : x = <<t, i>>
    BY <1>7
  <2>2. PICK i \in DOMAIN mem[t] : x = <<t, i>>
    BY <2>1
  <2>3. t \in DOMAIN mem /\ depth[t] < 3 /\ f[x] = mem[t][i].page
    BY <1>8, <2>2
  <2>4. f[x] \in DOMAIN mem /\ IsChild(f[x], t, i, depth, route)
    BY <1>1, <2>2, <2>3 DEF Shape, LinksDown
  <2>5. f[x] # paging_root
    <3>1. depth[t] \in 0 .. 3 /\ depth[f[x]] = depth[t] + 1
      BY <1>1, <2>3, <2>4 DEF Shape, Rooted, IsChild
    <3>2. depth[paging_root] = 0
      BY <1>1 DEF Shape, Rooted
    <3>3. depth[t] + 1 # 0
      BY <3>1
    <3>. QED
      BY <3>1, <3>2, <3>3
  <2>. QED
    BY <1>4, <2>2, <2>3, <2>4, <2>5
<1>10. f \in [L -> T]
  BY <1>8, <1>9
<1>11. ASSUME NEW x \in L, NEW y \in L, f[x] = f[y]
       PROVE  x = y
  <2>1. x[1] = y[1] /\ x[2] = y[2]
    <3>1. /\ IsChild(f[x], x[1], x[2], depth, route) /\ IsChild(f[x], y[1], y[2], depth, route)
          /\ f[x] \in DOMAIN mem /\ x[1] \in DOMAIN mem /\ y[1] \in DOMAIN mem
      BY <1>4, <1>9, <1>11
    <3>. QED
      BY <1>1, <3>1, OneParent
  <2>2. x = <<x[1], x[2]>> /\ y = <<y[1], y[2]>>
    BY <1>9
  <2>. QED
    BY <2>1, <2>2
<1>12. ASSUME NEW c \in T
       PROVE  \E x \in L : f[x] = c
  <2>1. PICK t \in DOMAIN mem : \E i \in DOMAIN mem[t] : IsChild(c, t, i, depth, route)
    BY <1>1, <1>4 DEF Attached
  <2>2. PICK i \in DOMAIN mem[t] : IsChild(c, t, i, depth, route)
    BY <2>1
  <2>3. mem[t][i] = link(c) /\ depth[t] < 3
    BY <1>1, <1>4, <2>2, LinkedChild
  <2>4. mem[t][i].page = c
    BY <2>3 DEF link, entry
  <2>5. PICK x : x = <<t, i>>
    OBVIOUS
  <2>6. x \in L
    BY <1>7, <2>2, <2>3, <2>5
  <2>7. f[x] = c
    BY <1>8, <2>4, <2>5, <2>6
  <2>. QED
    BY <2>6, <2>7
<1>13. f \in Injection(L, T) /\ f \in Surjection(L, T)
  BY <1>10, <1>11, <1>12 DEF Injection, Surjection, IsInjective
<1>14. Cardinality(L) = Cardinality(T)
  BY <1>5, <1>13, FS_Injection
<1>. QED
  BY <1>2, <1>5, <1>6, <1>14

(* Between operations the tables form one tree under the root, which holds *)
(* every table that paging.c accounts for, and no table of the window is   *)
(* empty: no path through map, roll-back, unmap or reclaim loses a table.  *)
THEOREM PagingTree == Spec => []TablesFormTree
<1>1. ASSUME PagingInv, pc = "idle"
      PROVE  LET second == Below({paging_root})
                 third  == Below(second)
                 fourth == Below(third)
             IN  /\ Range(table_pages) = {paging_root} \cup second \cup third \cup fourth
                 /\ Cardinality(LinksIn({paging_root} \cup second \cup third)) = Len(table_pages) - 1
                 /\ \A va \in Windows : \A level \in 1 .. 3 :
                      \A e \in walk(va)[level] : DOMAIN mem[e.page] # {}
  <2>1. Detached = {} /\ Pending = {} /\ \E depth, route : Tree(depth, route)
    BY <1>1, IdleState
  <2>2. PICK depth, route : Tree(depth, route)
    BY <2>1
  <2>. DEFINE L(n) == Level(depth, n)
  <2>3. \A t \in DOMAIN mem : (depth[t] = 0 <=> t = paging_root) /\ depth[t] \in 0 .. 3
    BY <2>2, RootOnly DEF Tree
  <2>4. paging_root \in DOMAIN mem
    BY <2>2 DEF Tree, Shape, Rooted
  <2>5. {paging_root} = L(0)
    BY <2>3, <2>4 DEF Level
  <2>6. Below(L(0)) = L(1) /\ Below(L(1)) = L(2) /\ Below(L(2)) = L(3)
    <3>1. 0 \in 0 .. 2 /\ 1 \in 0 .. 2 /\ 2 \in 0 .. 2 /\ 0 + 1 = 1 /\ 1 + 1 = 2 /\ 2 + 1 = 3
      OBVIOUS
    <3>2. \A n \in 0 .. 2 : Below(L(n)) = L(n + 1)
      BY <2>1, <2>2, BelowLevel
    <3>. HIDE DEF L
    <3>. QED
      BY <3>1, <3>2
  <2>7. Range(table_pages) = L(0) \cup L(1) \cup L(2) \cup L(3)
    <3>1. DOMAIN mem = L(0) \cup L(1) \cup L(2) \cup L(3)
      BY <2>3 DEF Level
    <3>. QED
      BY <1>1, <3>1 DEF PagingInv, Ownership
  <2>8. L(0) \cup L(1) \cup L(2) = {t \in DOMAIN mem : depth[t] < 3}
    BY <2>3 DEF Level
  <2>9. Cardinality(LinksIn(L(0) \cup L(1) \cup L(2))) = Len(table_pages) - 1
    BY <1>1, <2>1, <2>2, <2>8, LinksCounted DEF PagingInv
  <2>10. ASSUME NEW va \in Windows, NEW level \in 1 .. 3, NEW e \in walk(va)[level]
         PROVE  DOMAIN mem[e.page] # {}
    <3>1. e \in Reached(mem, depth, route, Detached, level, va)
      BY <2>2, <2>10, WalkReaches
    <3>2. PICK t \in TablesOn(mem, depth, route, level, va) : e = link(t)
      BY <3>1 DEF Reached
    <3>3. t \in DOMAIN mem /\ depth[t] = level /\ On(t, va, depth, route) /\ e.page = t
      BY <3>2 DEF TablesOn, link, entry
    <3>4. route[t][1] = DYNAMIC
      BY <3>3, WindowIndices DEF On, Agree
    <3>. QED
      BY <2>1, <2>2, <3>3, <3>4 DEF Tree, NoneEmpty
  <2>. HIDE DEF L
  <2>11. /\ Below({paging_root}) = L(1) /\ Below(Below({paging_root})) = L(2)
         /\ Below(Below(Below({paging_root}))) = L(3)
    BY <2>5, <2>6
  <2>. QED
    BY <2>5, <2>7, <2>9, <2>10, <2>11
<1>2. PagingInv => TablesFormTree
  BY <1>1, Zenon DEF TablesFormTree
<1>. QED
  BY PagingInvariant, <1>2, PTL

(* Once CR3 points to it, the identity map has every page of boot RAM but  *)
(* the guards and nothing else, with the permissions of the kernel's       *)
(* sections, and every page of the allocator writable.                     *)
THEOREM PagingIdentity == Spec => []IdentityMapExact
<1>1. ASSUME PagingInv, active
      PROVE  /\ \A page \in Pages : leaf(identity(page)) # {} <=> page \in BootRam(boot_info) \ guards(boot_info)
             /\ \A page \in Pages : \A e \in leaf(identity(page)) :
                  /\ e.page = page
                  /\ "X" \in e.flags <=> page \in Text
                  /\ "W" \in e.flags <=> page \notin Text \cup Rodata
             /\ \A page \in eligible : leaf(identity(page)) = {entry(page, {"W"})}
  <2>1. PICK depth, route : Tree(depth, route)
    BY <1>1, RunningTree
  <2>2. \A page : leaf(identity(page)) = Found(depth, route, page)
    BY <2>1, LeafFound DEF Found
  <2>3. /\ \A page \in Pages : Found(depth, route, page) # {} =>
             Found(depth, route, page) = {entry(page, identity_flags(page))} /\ page \in Visited
        /\ Visited \subseteq Pages
        /\ \A page \in Visited \ guards(boot_info) : Found(depth, route, page) # {}
        /\ \A page \in guards(boot_info) : page \in Pages /\ Found(depth, route, page) = {}
    BY <1>1, <2>1 DEF Tree, IdentityOK
  <2>4. /\ boot_info \in BootInfos /\ valid_map_ranges(boot_info)
        /\ eligible = mark_usable_pages(boot_info) \ reserve_boot_regions(boot_info)
    <3>1. ready
      BY <1>1, RunningStages DEF PagingInv, Stages
    <3>. QED
      BY <1>1, <3>1 DEF PagingInv, Stages
  <2>5. Visited = BootRam(boot_info)
    BY <2>3, <2>4, BootRamExact DEF Visited
  <2>6. \A page : entry(page, identity_flags(page)).page = page
                  /\ entry(page, identity_flags(page)).flags = identity_flags(page)
    BY DEF entry
  <2>7. \A page : /\ "X" \in identity_flags(page) <=> page \in Text
                  /\ "W" \in identity_flags(page) <=> page \notin Text \cup Rodata
                  /\ page \notin Text \cup Rodata => identity_flags(page) = {"W"}
    BY DEF identity_flags
  <2>. HIDE DEF Found, Visited, guards
  <2>8. \A page \in Pages : leaf(identity(page)) # {} <=> page \in BootRam(boot_info) \ guards(boot_info)
    BY <2>2, <2>3, <2>5
  <2>9. ASSUME NEW page \in Pages, NEW e \in leaf(identity(page))
        PROVE  /\ e.page = page
               /\ "X" \in e.flags <=> page \in Text
               /\ "W" \in e.flags <=> page \notin Text \cup Rodata
    <3>1. e = entry(page, identity_flags(page))
      BY <2>2, <2>3, <2>9
    <3>2. e.page = page /\ e.flags = identity_flags(page)
      BY <2>6, <3>1
    <3>. QED
      BY <2>7, <3>2
  <2>10. ASSUME NEW page \in eligible
         PROVE  leaf(identity(page)) = {entry(page, {"W"})}
    <3>1. page \in Pages
      BY <1>1 DEF PagingInv, PmmInv, PmmTypeOK
    <3>2. page \notin Text \cup Rodata /\ page \notin guards(boot_info)
      BY <2>4, PlacementAssumption
    <3>3. page \in BootRam(boot_info)
      BY <2>4, ManagedInBootRam
    <3>4. Found(depth, route, page) = {entry(page, identity_flags(page))}
      BY <2>3, <2>5, <3>1, <3>2, <3>3
    <3>. QED
      BY <2>2, <2>7, <3>2, <3>4
  <2>. QED
    BY <2>8, <2>9, <2>10
<1>2. PagingInv => IdentityMapExact
  BY <1>1, Zenon DEF IdentityMapExact
<1>. QED
  BY PagingInvariant, <1>2, PTL
-----------------------------------------------------------------------------
(* The window implements an abstract map.                                  *)

(* What each address of the window shows.                                  *)
Showing == [va \in Windows |-> IF active THEN paging_query(va) ELSE {}]

(* What it shows after a step.                                             *)
LEMMA ShowingIs ==
  /\ \A va \in Windows : Showing[va] = IF active THEN leaf(va) ELSE {}
  /\ \A va \in Windows : Showing'[va] = IF active' THEN leaf(va)' ELSE {}
BY DEF Showing, paging_query

(* A step that nobody notices.                                             *)
LEMMA SameShowing ==
  ASSUME active' = active, ~active \/ Unseen
  PROVE  Showing' = Showing
BY DEF Showing, Unseen, paging_query

(* A step that at most the address of the operation shows.                 *)
LEMMA OneShowing ==
  ASSUME active, active', NEW va \in Windows, op'.va = va, SeenAt(va),
         \/ leaf(va) = {}
         \/ leaf(va)' = {}
         \/ {e.page : e \in leaf(va)'} = {e.page : e \in leaf(va)}
  PROVE  Space!SpaceNext
<1>1. Showing[va] = leaf(va) /\ Showing'[va] = leaf(va)'
  BY ShowingIs
<1>2. \A other \in Windows \ {va} : Showing'[other] = Showing[other]
  BY ShowingIs DEF SeenAt
<1>3. \/ Showing[va] = {}
      \/ Showing'[va] = {}
      \/ {e.page : e \in Showing'[va]} = {e.page : e \in Showing[va]}
  BY <1>1
<1>. QED
  BY <1>2, <1>3 DEF Showing, Space!SpaceNext, Space!Map, Space!Unmap, Space!Protect, Space!pages

(* Every step of paging.c is a step of the abstract map or changes nothing *)
(* in it.                                                                  *)
LEMMA WindowStep ==
  ASSUME PagingInv, WindowShowsOwnedPages', [Next]_vars
  PROVE  Space!SpaceNext \/ Showing' = Showing
<1>0. active <=> pc \in Running
  BY DEF PagingInv, Stages
<1>1. CASE mem' = mem /\ paging_root' = paging_root /\ active' = active
  BY <1>1, NoStoreUnseen, SameShowing
<1>2. CASE ~active /\ active' = active
  BY <1>2, SameShowing
<1>3. ASSUME NEW info \in BootInfos, boot(info)
      PROVE  mem' = mem /\ paging_root' = paging_root /\ active' = active
  BY <1>3 DEF boot
<1>4. ASSUME \/ paging_init \/ map_boot_ram \/ map_page_leaf \/ discard_page_tables
      PROVE  ~active /\ active' = active
  <2>1. pc \in {"root", "map_boot_ram", "map_page", "discard"} /\ active' = active
    BY <1>4 DEF paging_init, map_boot_ram, map_page_leaf, discard_page_tables
  <2>. QED
    BY <1>0, <2>1 DEF Running, Mapping, Unmapping
<1>5. CASE activate_page_tables
  <2>1. pc = "verify" /\ owned' = owned
    BY <1>5 DEF activate_page_tables
  <2>2. ~active /\ owned = {}
    <3>1. ~active
      BY <1>0, <2>1 DEF Running, Mapping, Unmapping
    <3>. QED
      BY <3>1 DEF PagingInv, Stages
  <2>3. CASE ~active'
    <3>1. active \in BOOLEAN /\ active' \in BOOLEAN
      BY <1>5 DEF activate_page_tables, PagingInv, Stages
    <3>2. active' = active
      BY <2>2, <2>3, <3>1
    <3>. QED
      BY <1>2, <2>2, <3>2
  <2>4. CASE active'
    <3>1. \A va \in Windows : paging_query(va)' = {}
      BY <2>1, <2>2, <2>4 DEF WindowShowsOwnedPages
    <3>2. Showing' = Showing
      BY <2>2, <2>4, <3>1 DEF Showing
    <3>. QED
      BY <3>2
  <2>. QED
    BY <2>3, <2>4
<1>6. CASE \/ descend("map_page") \/ descend("map")
           \/ out_of_tables("map_page", "discard") \/ out_of_tables("map", "roll_back")
  <2>1. CASE descend("map_page") \/ descend("map")
    BY <1>1, <2>1 DEF descend
  <2>2. CASE out_of_tables("map_page", "discard") \/ out_of_tables("map", "roll_back")
    BY <1>1, <2>2 DEF out_of_tables
  <2>. QED
    BY <1>6, <2>1, <2>2
<1>7. CASE add_table("map_page") \/ add_table("map")
  <2>1. Unseen
    BY <1>7, AddTableStep
  <2>2. active' = active
    BY <1>7 DEF add_table
  <2>. QED
    BY <2>1, <2>2, SameShowing
<1>8. ASSUME NEW va \in Windows \cup Outside, NEW page \in Pages, NEW flags \in FlagSets,
             paging_map(va, page, flags)
      PROVE  mem' = mem /\ paging_root' = paging_root /\ active' = active
  BY <1>8 DEF paging_map
<1>9. CASE map_leaf
  <2>1. pc = "map" /\ active' = active
    BY <1>9 DEF map_leaf
  <2>2. active
    BY <1>0, <2>1 DEF Running, Mapping
  <2>3. Unseen \/ \E va \in Windows : op'.va = va /\ SeenAt(va) /\ leaf(va) = {}
    BY <1>9, MapLeafBoth
  <2>. QED
    BY <2>1, <2>2, <2>3, SameShowing, OneShowing
<1>10. CASE \/ invalidate_and_return
            \/ invalidate_step("roll_back_invalidate", "roll_back_release")
            \/ invalidate_step("unmap_invalidate", "reclaim")
            \/ invalidate_step("reclaim_invalidate", "reclaim_release")
  BY <1>1, <1>10 DEF invalidate_and_return, invalidate_step
<1>11. CASE roll_back \/ roll_back_release \/ reclaim \/ reclaim_release
  <2>1. Unseen
    BY <1>11, RollBackBoth, RollBackReleaseStep, ReclaimBoth, ReclaimReleaseStep
  <2>2. active' = active
    BY <1>11 DEF roll_back, roll_back_release, reclaim, reclaim_release
  <2>. QED
    BY <2>1, <2>2, SameShowing
<1>12. ASSUME NEW va \in Windows \cup Outside, paging_unmap(va)
       PROVE  Space!SpaceNext
  <2>1. active /\ active' = active /\ op'.va = va
    BY <1>12 DEF paging_unmap, dynamic_address
  <2>2. va \in Windows /\ SeenAt(va) /\ leaf(va)' = {}
    BY <1>12, PagingUnmapStep
  <2>. QED
    BY <2>1, <2>2, OneShowing
<1>13. ASSUME NEW va \in Windows \cup Outside, NEW flags \in FlagSets, paging_protect(va, flags)
       PROVE  Space!SpaceNext
  <2>1. active /\ active' = active /\ op'.va = va
    BY <1>13 DEF paging_protect, dynamic_address
  <2>2. /\ va \in Windows /\ SeenAt(va)
        /\ {f.page : f \in leaf(va)'} = {f.page : f \in leaf(va)}
    BY <1>13, PagingProtectStep
  <2>. QED
    BY <2>1, <2>2, OneShowing
<1>14. CASE cpu_walk \/ caller_alloc \/ caller_free \/ boot_failure \/ UNCHANGED vars
  <2>1. mem' = mem /\ paging_root' = paging_root /\ active' = active
    BY <1>14 DEF cpu_walk, caller_alloc, caller_free, boot_failure, vars
  <2>. QED
    BY <1>1, <2>1
<1>. QED
  BY <1>1, <1>2, <1>3, <1>4, <1>5, <1>6, <1>7, <1>8, <1>9, <1>10, <1>11, <1>12, <1>13, <1>14, Zenon DEF Next

(* The dynamic API of paging.h keeps its promise: with all its table       *)
(* management, roll-back and reclaim, paging.c is a map from addresses to  *)
(* pages that changes only at the address a call names, where map never    *)
(* replaces a mapping and protect keeps the page.                          *)
THEOREM PagingImplementsMap == Spec => WindowIsMap
<1>1. Init => Space!SpaceInit
  BY DEF Init, Space!SpaceInit
<1>2. PagingInv /\ WindowShowsOwnedPages' /\ [Next]_vars => [Space!SpaceNext]_Showing
  BY WindowStep
<1>3. Showing = [va \in Windows |-> IF active THEN paging_query(va) ELSE {}]
  BY DEF Showing
<1>. QED
  BY PagingInvariant, PagingWindow, <1>1, <1>2, PTL DEF Spec, WindowIsMap, Space!SpaceSpec, Showing
=============================================================================
