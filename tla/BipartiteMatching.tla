------------------------- MODULE BipartiteMatching -------------------------
(***************************************************************************)
(* Hopcroft and Karp's maximum matching as drmkit-planes codes it, between *)
(* the layers 1..Len(adj) and the planes "rights": adj[u] is the sequence  *)
(* of the planes layer u may have, the preferred first.  0 is both "not    *)
(* matched" and the sentinel a free plane leads to.                        *)
(***************************************************************************)
EXTENDS Integers, Sequences

LOCAL INSTANCE Folds
LOCAL INSTANCE SequencesExt

Infinite == -1

NextLayer(m, v) == m.right[v]

Matches(adj, rights) ==
  [left : [DOMAIN adj -> rights \cup {0}], right : [rights -> 0..Len(adj)]]

\* Distances from the free layers; nothing past the first free plane.  A layer
\* is in the queue once.
Bfs(adj, m) ==
  LET visit(at) ==
        LET u == Head(at.queue)
            nexts == [k \in DOMAIN adj[u] |-> NextLayer(m, adj[u][k])]
            fresh == {nexts[k] : k \in DOMAIN nexts} \cap
                       {w \in DOMAIN at.dist : at.dist[w] = Infinite}
            closer == at.dist[0] = Infinite \/ at.dist[u] < at.dist[0]
        IN IF ~closer THEN [at EXCEPT !.queue = Tail(@)]
           ELSE [queue |-> Tail(at.queue) \o SelectSeq(nexts, LAMBDA w : w \in fresh \ {0}),
                 dist |-> [w \in DOMAIN at.dist |->
                             IF w \in fresh THEN at.dist[u] + 1 ELSE at.dist[w]]]
      start == [queue |-> SelectSeq([u \in DOMAIN adj |-> u], LAMBDA u : m.left[u] = 0),
                dist  |-> [w \in 0..Len(adj) |->
                             IF w # 0 /\ m.left[w] = 0 THEN 0 ELSE Infinite]]
  IN FoldLeft(LAMBDA at, i : IF at.queue = <<>> THEN at ELSE visit(at), start, adj).dist

\* An augmenting path from layer u, trying its planes from the k-th on.
Dfs(adj, matching, distances, layer) ==
  LET dfs[u \in DOMAIN adj, k \in Nat, m \in Matches(adj, DOMAIN matching.right),
          dist \in [0..Len(adj) -> Int]] ==
        LET v == adj[u][k]
            next == NextLayer(m, v)
            further == next # 0 /\ dist[next] = dist[u] + 1
            deeper == dfs[next, 1, m, dist]
            taken(from) == [found |-> TRUE, dist |-> from.dist,
                            m |-> [left  |-> [from.m.left  EXCEPT ![u] = v],
                                   right |-> [from.m.right EXCEPT ![v] = u]]]
        IN IF k > Len(adj[u])
             THEN [found |-> FALSE, m |-> m, dist |-> [dist EXCEPT ![u] = Infinite]]
           ELSE IF next = 0 /\ dist[0] = dist[u] + 1
             THEN taken([m |-> m, dist |-> dist])
           ELSE IF ~further THEN dfs[u, k + 1, m, dist]
           ELSE IF deeper.found THEN taken(deeper)
           ELSE dfs[u, k + 1, m, deeper.dist]
  IN dfs[layer, 1, matching, distances]

\* One phase: an augmenting path from each free layer in turn.
Phase(adj, matching, distances) ==
  LET augment(at, u) ==
        IF at.m.left[u] # 0 \/ at.dist[u] = Infinite THEN at
        ELSE LET path == Dfs(adj, at.m, at.dist, u) IN [m |-> path.m, dist |-> path.dist]
  IN FoldLeft(augment, [m |-> matching, dist |-> distances], [u \in DOMAIN adj |-> u]).m

\* Phases until no path is left, at most one for each layer.  left[u] is the
\* plane of layer u, or 0.
Solve(adj, rights) ==
  LET phase(m, i) ==
        LET dist == Bfs(adj, m) IN IF dist[0] = Infinite THEN m ELSE Phase(adj, m, dist)
      none == [left |-> [u \in DOMAIN adj |-> 0], right |-> [v \in rights |-> 0]]
  IN FoldLeft(phase, none, adj).left

-----------------------------------------------------------------------------
(* The reference definition: how many layers the best matching serves.     *)

Matchings(adj, rights) ==
  {f \in [DOMAIN adj -> rights \cup {0}] :
     \A u \in DOMAIN adj :
       f[u] # 0 => /\ \E k \in DOMAIN adj[u] : adj[u][k] = f[u]
                   /\ \A w \in DOMAIN adj \ {u} : f[w] # f[u]}

=============================================================================
