------------------------- MODULE CaptureOnceProofs --------------------------
(***************************************************************************)
(* What one run of cloud_capture makes of a document.                      *)
(*                                                                         *)
(* First the operators of CaptureOps: the retired list keeps the newest    *)
(* rows (NewestDrops), the moves are sound and leave out none that had a   *)
(* source (MovesDecided), and a merge does to each path what SaveRecord    *)
(* allows (ScanPath, AdoptMerge, RetireMerge).  Then the passes of         *)
(* CaptureOnce, over any number of paths and contents.                     *)
(***************************************************************************)
EXTENDS CaptureOnce, FiniteSetTheorems, FunctionTheorems,
        WellFoundedInduction, TLAPS

-----------------------------------------------------------------------------
(* The types of STEP 7 to STEP 9.                                          *)

(* What an adopt was asked, and that its copy is sealed once it merges.    *)
AdoptSealed(r, s) == r.mode = "adopt" => r.dest \in Path /\ s[r.dest] # None

(* Every path an operation writes an entry to is a sealed one.             *)
LEMMA OpsOnSealed ==
  ASSUME NEW r \in Request, NEW c \in Entries, NEW s \in Local,
         NEW h, AdoptSealed(r, s),
         NEW q \in Path,
         \/ q \in OpsOf(r, c, s, h).put \/ q \in OpsOf(r, c, s, h).meta
         \/ q \in OpsOf(r, c, s, h).copy \/ OpsOf(r, c, s, h).move[q] # None
  PROVE  s[q] \in Version
<1>1. s[q] # None
  <2>1. CASE r.mode \in ScanModes
    BY <2>1 DEF OpsOf, ScanOps, NoOps, Candidates, Moves, Destinations, ScanModes
  <2>2. CASE r.mode = "adopt"
    BY <2>2 DEF OpsOf, AdoptOps, NoOps, AdoptSealed, ScanModes
  <2>3. CASE r.mode = "retire"
    BY <2>3 DEF OpsOf, RetireOps, NoOps, ScanModes
  <2>4. QED  BY <2>1, <2>2, <2>3 DEF Request, Modes, ScanModes
<1>2. QED  BY <1>1 DEF Local

(* Every entry MERGE_JQ leaves is an entry, or none.                       *)
LEMMA MergedEntryType ==
  ASSUME NEW r \in Request, NEW d \in Doc, NEW c \in Entries, NEW s \in Local,
         NEW h, AdoptSealed(r, s), NEW q \in Path
  PROVE  MergedEntry(r, d, s, OpsOf(r, c, s, h), q) \in Entry \cup {None}
<1> DEFINE ops == OpsOf(r, c, s, h)
<1>1. Provenance(r) \in Nat
  BY DEF Provenance, Request
<1>2. ASSUME NEW source, s[q] \in Version
      PROVE  Carried(d, source, s[q]) \in Entry \cup {None}
  BY <1>2 DEF Carried, Doc, Entries, Entry, Version
<1>3. CASE \/ q \in ops.put \/ q \in ops.meta
           \/ q \in ops.copy \/ ops.move[q] # None
  <2>1. s[q] \in Version  BY <1>3, OpsOnSealed
  <2>2. \A source : Carried(d, source, s[q]) \in Entry \cup {None}
    BY <2>1, <1>2
  <2>3. QED
    BY <1>1, <2>1, <2>2, <1>3 DEF MergedEntry, Entry, Version
<1>4. CASE ~(\/ q \in ops.put \/ q \in ops.meta
             \/ q \in ops.copy \/ ops.move[q] # None)
  BY <1>4 DEF MergedEntry, Doc, Entries
<1>5. QED  BY <1>3, <1>4

(* So the merge of a document is a document.                               *)
LEMMA MergeType ==
  ASSUME NEW r \in Request, NEW d \in Doc, NEW c \in Entries, NEW s \in Local,
         NEW h, AdoptSealed(r, s), NEW at \in Nat
  PROVE  Merge(r, d, c, s, OpsOf(r, c, s, h), at) \in Doc
<1> DEFINE ops == OpsOf(r, c, s, h)
<1>1. [q \in Path |-> MergedEntry(r, d, s, ops, q)] \in Entries
  BY MergedEntryType DEF Entries
<1>2. RetiredRows(c, s, ops, at) \subseteq Row
  <2>1. \A q \in ops.retire :
          q \in Path /\ (c[q] # None => c[q] \in Entry)
                    /\ (c[q] = None => s[q] \in Version)
    <3>1. CASE r.mode = "retire"
      BY <3>1 DEF OpsOf, RetireOps, NoOps, ScanModes, Request, Entries, Local
    <3>2. CASE r.mode \in ScanModes
      BY <3>2 DEF OpsOf, ScanOps, NoOps
    <3>3. CASE r.mode = "adopt"
      BY <3>3 DEF OpsOf, AdoptOps, NoOps, ScanModes
    <3>4. QED  BY <3>1, <3>2, <3>3 DEF Request, Modes, ScanModes
  <2>2. QED
    BY <2>1 DEF RetiredRows, Row, Entry, Version
<1>3. Newest(d.retired \cup RetiredRows(c, s, ops, at)) \in SUBSET Row
  BY <1>2 DEF Newest, Doc
<1>4. QED  BY <1>1, <1>3 DEF Merge, Doc

-----------------------------------------------------------------------------
(***************************************************************************)
(* The retired list (STEP 9): a row leaves it only for RETIRED_MAX newer   *)
(* ones (RetiredRowsKept).  Newest counts, for each row, the newer ones;   *)
(* when no two rows are of one path and time, the counts are 0, 1, 2 and   *)
(* so on, and the rows counted below RETIRED_MAX are as many as that.      *)
(***************************************************************************)

Distinct(rows) ==
  \A r, s \in rows : r.at = s.at /\ r.path = s.path => r = s

Above(rows, r) == {s \in rows : Newer(s, r)}

(* Each row counts fewer newer ones than every row that is older.          *)
LEMMA Counts ==
  ASSUME NEW rows \in SUBSET Row, IsFiniteSet(rows)
  PROVE  /\ \A r \in rows : /\ IsFiniteSet(Above(rows, r))
                            /\ Cardinality(Above(rows, r)) \in Nat
                            /\ Cardinality(Above(rows, r)) < Cardinality(rows)
         /\ \A r, s \in rows : Newer(s, r) =>
              Cardinality(Above(rows, s)) < Cardinality(Above(rows, r))
<1>0. \A r \in rows : r.at \in Nat /\ r.path \in Nat
  BY PathAssumption DEF Row
<1>1. ASSUME NEW T \in SUBSET rows, NEW U \in SUBSET T, NEW x \in T, x \notin U
      PROVE  /\ IsFiniteSet(U) /\ Cardinality(U) \in Nat
             /\ Cardinality(U) < Cardinality(T)
  <2>1. IsFiniteSet(T)
    BY FS_Subset
  <2>2. IsFiniteSet(U) /\ Cardinality(U) <= Cardinality(T)
        /\ (Cardinality(U) = Cardinality(T) => U = T)
    BY <2>1, FS_Subset, Zenon
  <2>3. Cardinality(U) \in Nat /\ Cardinality(T) \in Nat
    BY <2>1, <2>2, FS_CardinalityType
  <2>4. U # T
    BY <1>1
  <2> QED
    BY <2>2, <2>3, <2>4
<1>2. ASSUME NEW r \in rows
      PROVE  /\ IsFiniteSet(Above(rows, r))
             /\ Cardinality(Above(rows, r)) \in Nat
             /\ Cardinality(Above(rows, r)) < Cardinality(rows)
  <2>1. Above(rows, r) \in SUBSET rows /\ r \notin Above(rows, r)
    BY <1>0 DEF Above, Newer
  <2> QED
    BY <1>1, <2>1
<1>3. ASSUME NEW r \in rows, NEW s \in rows, Newer(s, r)
      PROVE  Cardinality(Above(rows, s)) < Cardinality(Above(rows, r))
  <2>1. Above(rows, s) \subseteq Above(rows, r)
    BY <1>0, <1>3 DEF Above, Newer
  <2>2. s \in Above(rows, r) /\ s \notin Above(rows, s)
    BY <1>0, <1>3 DEF Above, Newer
  <2>3. Above(rows, r) \in SUBSET rows
    BY DEF Above
  <2> QED
    BY <1>1, <2>1, <2>2, <2>3
<1> QED
  BY <1>2, <1>3

(* The newest rows are their own newest.                                   *)
LEMMA NewestFixed ==
  ASSUME NEW rows \in SUBSET Row, IsFiniteSet(rows)
  PROVE  /\ Newest(rows) \in SUBSET rows /\ IsFiniteSet(Newest(rows))
         /\ Newest(Newest(rows)) = Newest(rows)
<1>1. Newest(rows) \in SUBSET rows
  BY DEF Newest
<1>2. IsFiniteSet(Newest(rows))
  BY <1>1, FS_Subset
<1>3. ASSUME NEW r \in Newest(rows) PROVE r \in Newest(Newest(rows))
  <2>1. /\ r \in rows /\ IsFiniteSet(Above(rows, r))
        /\ Cardinality(Above(rows, r)) \in Nat
        /\ Cardinality(Above(rows, r)) < RetiredMax
    BY <1>1, <1>3, Counts DEF Newest, Above
  <2>2. Above(Newest(rows), r) \in SUBSET Above(rows, r)
    BY <1>1 DEF Above
  <2>3. IsFiniteSet(Above(Newest(rows), r))
        /\ Cardinality(Above(Newest(rows), r)) <= Cardinality(Above(rows, r))
    BY <2>1, <2>2, FS_Subset
  <2>4. Cardinality(Above(Newest(rows), r)) \in Nat
    BY <2>3, FS_CardinalityType
  <2>5. Cardinality(Above(Newest(rows), r)) < RetiredMax
    BY <2>1, <2>3, <2>4, RetiredMaxAssumption
  <2> QED
    BY <2>5 DEF Newest, Above
<1>4. Newest(Newest(rows)) \in SUBSET Newest(rows)
  BY DEF Newest
<1> QED
  BY <1>1, <1>2, <1>3, <1>4

(* A row that is not among the newest has just RETIRED_MAX of them above.  *)
LEMMA NewestDrops ==
  ASSUME NEW rows \in SUBSET Row, IsFiniteSet(rows), Distinct(rows),
         NEW r \in rows, r \notin Newest(rows)
  PROVE  Cardinality({s \in Newest(rows) : Newer(s, r)}) = RetiredMax
<1> DEFINE n == Cardinality(rows)
           count(s) == Cardinality(Above(rows, s))
           f == [s \in rows |-> count(s)]
           K == Newest(rows)
           g == [s \in K |-> count(s)]
<1>0. n \in Nat /\ RetiredMax \in Nat /\ RetiredMax > 0
  BY FS_CardinalityType, RetiredMaxAssumption
<1>1. \A s \in rows : count(s) \in 0..n - 1
  BY <1>0, Counts
<1>2. \A s, t \in rows : Newer(s, t) => count(s) < count(t)
  BY Counts
<1>3. \A s, t \in rows : s = t \/ Newer(s, t) \/ Newer(t, s)
  <2>1. \A s \in rows : s.at \in Nat /\ s.path \in Nat
    BY PathAssumption DEF Row
  <2> QED
    BY <2>1 DEF Distinct, Newer
<1>4. f \in [rows -> 0..n - 1]
  BY <1>1
<1>5. \A s, t \in rows : f[s] = f[t] => s = t
  BY <1>1, <1>2, <1>3
<1>6. f \in Injection(rows, 0..n - 1)
  BY <1>4, <1>5, Fun_IsInj
<1>7. IsFiniteSet(0..n - 1) /\ Cardinality(0..n - 1) = n
  <2>1. 0 \in Int /\ n - 1 \in Int
    BY <1>0
  <2> HIDE DEF n
  <2>2. /\ IsFiniteSet(0..n - 1)
        /\ Cardinality(0..n - 1) = IF 0 > n - 1 THEN 0 ELSE (n - 1) - 0 + 1
    BY <2>1, FS_Interval
  <2> QED
    BY <1>0, <2>2
<1>8. f \in Surjection(rows, 0..n - 1)
  BY <1>6, <1>7, FS_Injection
<1>9. \A i \in 0..n - 1 : \E s \in rows : count(s) = i
  <2>1. \A i \in 0..n - 1 : \E s \in rows : f[s] = i
    BY <1>8, Zenon DEF Surjection
  <2> QED
    BY <2>1
<1>10. K = {s \in rows : count(s) < RetiredMax} /\ K \subseteq rows
  BY DEF Newest, Above
<1>11. count(r) \in 0..n - 1 /\ count(r) >= RetiredMax
  BY <1>0, <1>1, <1>10
<1> HIDE DEF count, n
<1>12. \A i \in 0..RetiredMax - 1 : \E s \in K : count(s) = i
  <2>1. ASSUME NEW i \in 0..RetiredMax - 1 PROVE \E s \in K : count(s) = i
    <3>1. i \in 0..n - 1 /\ i < RetiredMax
      BY <1>0, <1>11
    <3>2. PICK s \in rows : count(s) = i
      BY <1>9, <3>1
    <3> QED
      BY <1>10, <3>1, <3>2
  <2> QED
    BY <2>1
<1>13. \A s \in K : count(s) \in 0..RetiredMax - 1
  BY <1>0, <1>1, <1>10
<1> HIDE DEF K
<1>14. g \in Surjection(K, 0..RetiredMax - 1)
  <2>1. g \in [K -> 0..RetiredMax - 1]
    BY <1>13
  <2> QED
    BY <1>12, <2>1, Fun_IsSurj
<1>15. g \in Injection(K, 0..RetiredMax - 1)
  <2>1. \A s, t \in K : g[s] = g[t] => s = t
    BY <1>5, <1>10
  <2>2. g \in [K -> 0..RetiredMax - 1]
    BY <1>13
  <2> QED
    BY <2>1, <2>2, Fun_IsInj
<1>16. IsFiniteSet(K)
  BY <1>10, FS_Subset
<1>17. Cardinality(0..RetiredMax - 1) = Cardinality(K)
  BY <1>14, <1>15, <1>16, FS_Surjection
<1>18. Cardinality(0..RetiredMax - 1) = RetiredMax
  BY <1>0, FS_Interval
<1>19. {s \in K : Newer(s, r)} = K
  <2>1. ASSUME NEW s \in K PROVE Newer(s, r)
    <3>1. s \in rows /\ count(s) \in 0..RetiredMax - 1
      BY <1>10, <1>13
    <3>2. s # r /\ ~(count(r) < count(s))
      BY <1>0, <1>11, <3>1
    <3> QED
      BY <1>2, <1>3, <3>1, <3>2
  <2> QED
    BY <2>1
<1> QED
  BY <1>17, <1>18, <1>19 DEF K

-----------------------------------------------------------------------------
(***************************************************************************)
(* The matching of STEP 7: every move has a source that was free, with the *)
(* destination's bytes, and no source serves two destinations.  The fold   *)
(* is a recursive function on the sets of destinations; that there is one, *)
(* and what it decides, is said by induction on how many there are.        *)
(***************************************************************************)

(* Induction, said with a set.                                             *)
LEMMA LeastNumber ==
  ASSUME NEW T \in SUBSET Nat, T # {}
  PROVE  \E n \in T : \A m \in T : n <= m
<1> DEFINE below == {x \in Nat \X Nat : x[1] < x[2]}
<1>1. IsWellFoundedOn(below, Nat)
  BY NatLessThanWellFounded, Zenon DEF OpToRel
<1> HIDE DEF below
<1>2. PICK n \in T : \A m \in T : <<m, n>> \notin below
  BY <1>1, WFMin
<1> USE DEF below
<1>3. ASSUME NEW m \in T PROVE n <= m
  <2>1. m \in Nat /\ n \in Nat /\ <<m, n>> \notin below
    BY <1>2
  <2> QED
    BY <2>1
<1> QED
  BY <1>3

(* A finite set of numbers has its maximum.                                *)
LEMMA FiniteMax ==
  ASSUME NEW T \in SUBSET Nat, IsFiniteSet(T), T # {}
  PROVE  Max(T) \in T /\ \A y \in T : Max(T) >= y
<1> DEFINE Topped(U) == \E x \in U : \A y \in U : x >= y
           bad == {n \in Nat : \E U \in SUBSET T :
                     U # {} /\ Cardinality(U) = n /\ ~Topped(U)}
<1>1. bad = {}
  <2>1. SUFFICES ASSUME bad # {} PROVE FALSE
    OBVIOUS
  <2>2. PICK n \in bad : \A k \in bad : n <= k
    BY <2>1, LeastNumber
  <2>3. PICK U \in SUBSET T : U # {} /\ Cardinality(U) = n /\ ~Topped(U)
    BY <2>2
  <2>4. PICK x \in U : TRUE
    BY <2>3
  <2> DEFINE V == U \ {x}
  <2>5. IsFiniteSet(U)
    BY FS_Subset
  <2>6. Cardinality(V) = n - 1 /\ IsFiniteSet(V)
    BY <2>3, <2>4, <2>5, FS_RemoveElement
  <2>7. Cardinality(V) \in Nat /\ Cardinality(V) \notin bad
    <3>1. Cardinality(V) \in Nat
      BY <2>6, FS_CardinalityType
    <3>2. n \in Nat /\ \A k \in bad : n <= k
      BY <2>2
    <3> HIDE DEF bad
    <3> QED
      BY <3>1, <3>2, <2>6
  <2>8. V = {} \/ Topped(V)
    BY <2>7
  <2>9. CASE V = {}
    BY <2>3, <2>4, <2>9
  <2>10. CASE Topped(V)
    <3>1. PICK m \in V : \A y \in V : m >= y
      BY <2>10
    <3>2. CASE m >= x
      BY <2>3, <3>1, <3>2
    <3>3. CASE x > m
      <4>1. \A y \in U : x >= y
        BY <2>4, <3>1, <3>3
      <4> QED
        BY <2>3, <4>1
    <3> QED
      BY <2>4, <3>1, <3>2, <3>3
  <2> QED
    BY <2>8, <2>9, <2>10
<1>2. Cardinality(T) \in Nat /\ Cardinality(T) \notin bad
  BY <1>1, FS_CardinalityType
<1>3. \E x \in T : \A y \in T : x >= y
  BY <1>2
<1> QED
  BY <1>3 DEF Max

(* One step of the matching: a destination takes its best free source.     *)
Match(c, s, h, dest, mv) ==
  LET sources == FreeSources(c, s, h, dest, {mv[q] : q \in Path})
  IN  IF sources = {} THEN mv ELSE [mv EXCEPT ![dest] = BestSource(sources, h)]

(* The fold of Matched, at every set of destinations out of D.             *)
Folded(g, c, s, h, D) ==
  [t \in SUBSET D |->
     IF t = {} THEN [q \in Path |-> None]
     ELSE Match(c, s, h, Max(t), g[t \ {Max(t)}])]

LEMMA MatchedFolds ==
  ASSUME NEW c, NEW s, NEW h
  PROVE  LET D == Destinations(c, s)
         IN  Matched(c, s, h) = (CHOOSE g : g = Folded(g, c, s, h, D))[D]
  BY DEF Matched, MapThenFoldSet, Folded, Match

LEMMA FoldExists ==
  ASSUME NEW c, NEW s, NEW h, NEW D \in SUBSET Path
  PROVE  \E g : g = Folded(g, c, s, h, D)
<1>0. IsFiniteSet(D) /\ D \in SUBSET Nat
  BY PathAssumption, FS_Subset
<1> DEFINE bad == {n \in Nat : \E T \in SUBSET D :
                     Cardinality(T) = n /\ ~ \E g : g = Folded(g, c, s, h, T)}
<1>1. bad = {}
  <2>1. SUFFICES ASSUME bad # {} PROVE FALSE
    OBVIOUS
  <2>2. PICK n \in bad : \A k \in bad : n <= k
    BY <2>1, LeastNumber
  <2>3. PICK T \in SUBSET D :
          Cardinality(T) = n /\ ~ \E g : g = Folded(g, c, s, h, T)
    BY <2>2
  <2>4. IsFiniteSet(T) /\ T \in SUBSET Nat
    BY <1>0, FS_Subset
  <2>5. CASE T = {}
    <3> DEFINE g == [t \in SUBSET T |-> [q \in Path |-> None]]
    <3>1. g = Folded(g, c, s, h, T)
      BY <2>5 DEF Folded
    <3> QED
      BY <2>3, <3>1
  <2>6. CASE T # {}
    <3> DEFINE m == Max(T)
               U == T \ {m}
    <3>1. m \in T /\ \A y \in T : m >= y
      BY <2>4, <2>6, FiniteMax
    <3>2. Cardinality(U) = n - 1 /\ IsFiniteSet(U)
      BY <2>3, <2>4, <3>1, FS_RemoveElement
    <3>3. Cardinality(U) \in Nat /\ Cardinality(U) \notin bad
      <4>1. Cardinality(U) \in Nat
        BY <3>2, FS_CardinalityType
      <4>2. n \in Nat /\ \A k \in bad : n <= k
        BY <2>2
      <4> HIDE DEF bad
      <4> QED
        BY <4>1, <4>2, <3>2
    <3>4. PICK f : f = Folded(f, c, s, h, U)
      BY <3>3
    <3> DEFINE g == [t \in SUBSET T |->
                       IF m \in t THEN Match(c, s, h, m, f[t \ {m}]) ELSE f[t]]
    <3> HIDE DEF m
    <3>5. ASSUME NEW t \in SUBSET T
          PROVE  g[t] = IF t = {} THEN [q \in Path |-> None]
                        ELSE Match(c, s, h, Max(t), g[t \ {Max(t)}])
      <4>0. t # {} => Max(t) \in t /\ \A y \in t : Max(t) >= y
        BY <2>4, FiniteMax, FS_Subset
      <4>1. CASE m \in t
        <5>1. Max(t) = m
          <6>1. Max(t) \in T /\ Max(t) >= m /\ m >= Max(t)
            BY <3>1, <4>0, <4>1
          <6>2. Max(t) \in Nat /\ m \in Nat
            BY <2>4, <3>1, <6>1
          <6> QED
            BY <6>1, <6>2
        <5>2. g[t \ {m}] = f[t \ {m}]
          OBVIOUS
        <5> QED
          BY <4>1, <5>1, <5>2
      <4>2. CASE m \notin t
        <5>1. t \in SUBSET U /\ g[t] = f[t]
          BY <4>2
        <5>2. f[t] = IF t = {} THEN [q \in Path |-> None]
                     ELSE Match(c, s, h, Max(t), f[t \ {Max(t)}])
          BY <3>4, <5>1 DEF Folded
        <5>3. g[t \ {Max(t)}] = f[t \ {Max(t)}]
          BY <4>2
        <5> QED
          BY <5>1, <5>2, <5>3
      <4> QED
        BY <4>1, <4>2
    <3>6. g = Folded(g, c, s, h, T)
      <4> HIDE DEF g
      <4>1. g = [t \in SUBSET T |-> g[t]]
        BY DEF g
      <4> QED
        BY <3>5, <4>1 DEF Folded
    <3> QED
      BY <2>3, <3>6
  <2> QED
    BY <2>5, <2>6
<1>2. Cardinality(D) \in Nat /\ Cardinality(D) \notin bad
  BY <1>0, <1>1, FS_CardinalityType
<1> QED
  BY <1>2

(* The best of some sources is one of them.                                *)
LEMMA BestIsOne ==
  ASSUME NEW sources \in SUBSET Path, sources # {}, NEW h
  PROVE  BestSource(sources, h) \in sources
<1> DEFINE best == IF sources \ h # {} THEN sources \ h ELSE sources
<1>1. best \in SUBSET Nat /\ best # {} /\ best \subseteq sources
  BY PathAssumption
<1>2. \E q \in best : \A r \in best : q <= r
  BY <1>1, LeastNumber
<1> HIDE DEF best
<1>3. (CHOOSE q \in best : \A r \in best : q <= r) \in best
  BY <1>2
<1> QED
  BY <1>1, <1>3 DEF BestSource, best

(* Moves decided so far: each from a free source, each source once.        *)
Sound(c, s, h, mv) ==
  /\ mv \in [Path -> Path \cup {None}]
  /\ \A q \in Path : mv[q] # None => mv[q] \in FreeSources(c, s, h, q, {})
  /\ \A q, r \in Path : mv[q] # None /\ mv[q] = mv[r] => q = r

LEMMA MatchSound ==
  ASSUME NEW c, NEW s, NEW h, NEW dest \in Path, NEW mv, Sound(c, s, h, mv)
  PROVE  Sound(c, s, h, Match(c, s, h, dest, mv))
<1> DEFINE taken == {mv[q] : q \in Path}
           sources == FreeSources(c, s, h, dest, taken)
           best == BestSource(sources, h)
<1>1. CASE sources = {}
  BY <1>1 DEF Match
<1>2. CASE sources # {}
  <2>1. best \in sources
    BY <1>2, BestIsOne DEF FreeSources
  <2>2. /\ best \in Path /\ best \notin taken
        /\ best \in FreeSources(c, s, h, dest, {})
    BY <2>1 DEF FreeSources
  <2>3. Match(c, s, h, dest, mv) = [mv EXCEPT ![dest] = best]
    BY <1>2 DEF Match
  <2> HIDE DEF best
  <2>4. [mv EXCEPT ![dest] = best] \in [Path -> Path \cup {None}]
    BY <2>2 DEF Sound
  <2>5. \A q \in Path : [mv EXCEPT ![dest] = best][q]
                        = IF q = dest THEN best ELSE mv[q]
    BY DEF Sound
  <2>6. \A q \in Path : best # mv[q]
    BY <2>2
  <2> QED
    BY <2>2, <2>3, <2>4, <2>5, <2>6 DEF Sound
<1> QED
  BY <1>1, <1>2

(* Moves decided for the destinations in t: none elsewhere, and none left  *)
(* out that had a source.                                                  *)
Decided(c, s, h, t, mv) ==
  /\ Sound(c, s, h, mv)
  /\ \A q \in Path \ t : mv[q] = None
  /\ \A q \in t : mv[q] = None =>
       FreeSources(c, s, h, q, {}) \subseteq {mv[x] : x \in Path}

LEMMA MatchDecides ==
  ASSUME NEW c, NEW s, NEW h, NEW t \in SUBSET Path, NEW dest \in t,
         NEW mv, Decided(c, s, h, t \ {dest}, mv)
  PROVE  Decided(c, s, h, t, Match(c, s, h, dest, mv))
<1> DEFINE taken == {mv[q] : q \in Path}
           sources == FreeSources(c, s, h, dest, taken)
           best == BestSource(sources, h)
           new == Match(c, s, h, dest, mv)
<1>1. Sound(c, s, h, new)
  BY MatchSound DEF Decided
<1>2. CASE sources = {}
  <2>1. new = mv
    BY <1>2 DEF Match
  <2>2. FreeSources(c, s, h, dest, {}) \subseteq taken
    BY <1>2 DEF FreeSources
  <2> QED
    BY <1>1, <2>1, <2>2 DEF Decided
<1>3. CASE sources # {}
  <2>1. best \in Path
    BY <1>3, BestIsOne DEF FreeSources
  <2>2. new = [mv EXCEPT ![dest] = best]
    BY <1>3 DEF Match
  <2> HIDE DEF best
  <2>3. new[dest] = best /\ \A q \in Path \ {dest} : new[q] = mv[q]
    BY <2>2 DEF Decided, Sound
  <2> HIDE DEF new
  <2>4. mv[dest] = None
    BY DEF Decided
  <2>5. \A x \in Path : x \in taken => x \in {new[q] : q \in Path}
    BY <2>3, <2>4, NoneAssumption
  <2>6. ASSUME NEW q \in t, new[q] = None
        PROVE  FreeSources(c, s, h, q, {}) \subseteq {new[x] : x \in Path}
    <3>1. q # dest
      BY <2>1, <2>3, <2>6, NoneAssumption
    <3>2. FreeSources(c, s, h, q, {}) \subseteq taken
      BY <2>3, <2>6, <3>1 DEF Decided
    <3>3. FreeSources(c, s, h, q, {}) \subseteq Path
      BY DEF FreeSources
    <3> QED
      BY <2>5, <3>2, <3>3
  <2> QED
    BY <1>1, <2>3, <2>6 DEF Decided, new
<1> QED
  BY <1>2, <1>3

(* So are all the moves of a pass, none goes where it need not, and every  *)
(* destination that has a free source is moved to.                         *)
LEMMA MovesDecided ==
  ASSUME NEW c, NEW s, NEW h
  PROVE  Decided(c, s, h, Destinations(c, s), Moves(c, s, h))
<1> DEFINE D == Destinations(c, s)
           g == CHOOSE f : f = Folded(f, c, s, h, D)
<1>0. D \in SUBSET Path /\ D \in SUBSET Nat /\ IsFiniteSet(D)
  BY PathAssumption, FS_Subset DEF Destinations, Candidates
<1>1. g = Folded(g, c, s, h, D)
  BY <1>0, FoldExists
<1>2. Matched(c, s, h) = g[D]
  BY MatchedFolds
<1> HIDE DEF D, g
<1> DEFINE bad == {n \in Nat : \E t \in SUBSET D :
                     Cardinality(t) = n /\ ~Decided(c, s, h, t, g[t])}
<1>3. bad = {}
  <2>1. SUFFICES ASSUME bad # {} PROVE FALSE
    OBVIOUS
  <2>2. PICK n \in bad : \A k \in bad : n <= k
    BY <2>1, LeastNumber
  <2>3. PICK t \in SUBSET D : Cardinality(t) = n /\ ~Decided(c, s, h, t, g[t])
    BY <2>2
  <2>4. g[t] = IF t = {} THEN [q \in Path |-> None]
               ELSE Match(c, s, h, Max(t), g[t \ {Max(t)}])
    BY <1>1 DEF Folded
  <2>5. CASE t = {}
    <3>1. Decided(c, s, h, {}, [q \in Path |-> None])
      BY DEF Decided, Sound
    <3> QED
      BY <2>3, <2>4, <2>5, <3>1
  <2>6. CASE t # {}
    <3>1. IsFiniteSet(t) /\ t \in SUBSET Nat /\ t \in SUBSET Path
      BY <1>0, FS_Subset
    <3>2. Max(t) \in t
      BY <2>6, <3>1, FiniteMax
    <3>3. Cardinality(t \ {Max(t)}) = n - 1 /\ IsFiniteSet(t \ {Max(t)})
      BY <2>3, <3>1, <3>2, FS_RemoveElement
    <3>4. Cardinality(t \ {Max(t)}) \in Nat /\ Cardinality(t \ {Max(t)}) \notin bad
      <4>1. Cardinality(t \ {Max(t)}) \in Nat
        BY <3>3, FS_CardinalityType
      <4>2. n \in Nat /\ \A k \in bad : n <= k
        BY <2>2
      <4> HIDE DEF bad
      <4> QED
        BY <4>1, <4>2, <3>3
    <3>5. Decided(c, s, h, t \ {Max(t)}, g[t \ {Max(t)}])
      BY <3>4
    <3> HIDE DEF bad
    <3>6. Decided(c, s, h, t, Match(c, s, h, Max(t), g[t \ {Max(t)}]))
      BY <3>1, <3>2, <3>5, MatchDecides
    <3> QED
      BY <2>3, <2>4, <2>6, <3>6
  <2> QED
    BY <2>5, <2>6
<1>4. Cardinality(D) \in Nat /\ Cardinality(D) \notin bad
  BY <1>0, <1>3, FS_CardinalityType
<1>5. Decided(c, s, h, D, Matched(c, s, h))
  BY <1>2, <1>4
<1>6. Moves(c, s, h) = [q \in Path |-> IF q \in D THEN Matched(c, s, h)[q] ELSE None]
  BY DEF Moves, D
<1>7. Matched(c, s, h) = [q \in Path |-> Matched(c, s, h)[q]]
  BY <1>5 DEF Decided, Sound
<1>8. Moves(c, s, h) = Matched(c, s, h)
  BY <1>5, <1>6, <1>7 DEF Decided
<1> QED
  BY <1>5, <1>8 DEF D

LEMMA MovesSound ==
  ASSUME NEW c, NEW s, NEW h
  PROVE  /\ Sound(c, s, h, Moves(c, s, h))
         /\ \A q \in Path : Moves(c, s, h)[q] # None => q \in Destinations(c, s)
BY MovesDecided DEF Decided

-----------------------------------------------------------------------------
(* What one merge makes of the document it is computed from.               *)

USE DEF Local

(* The rows of one run: one for each path, all of one time.                *)
LEMMA RowsOfRun ==
  ASSUME NEW d \in Doc, NEW r \in Request, NEW s \in Local, NEW h,
         NEW at \in Nat, AdoptSealed(r, s),
         IsFiniteSet(d.retired), Distinct(d.retired),
         \A row \in d.retired : row.at < at
  PROVE  LET ops == OpsOf(r, d.entries, s, h)
             rows == RetiredRows(d.entries, s, ops, at)
             all == d.retired \cup rows
         IN  /\ ops.retire \in SUBSET Path
             /\ rows \in SUBSET Row /\ \A row \in rows : row.at = at
             /\ all \in SUBSET Row /\ IsFiniteSet(all) /\ Distinct(all)
             /\ \A row \in all : row.at \in Nat /\ row.at <= at
<1> DEFINE ops == OpsOf(r, d.entries, s, h)
           sha(q) == IF d.entries[q] # None THEN d.entries[q].sha ELSE s[q].sha
           rows == RetiredRows(d.entries, s, ops, at)
           all == d.retired \cup rows
<1>1. ops.retire \in SUBSET Path
      /\ \A q \in ops.retire : d.entries[q] # None \/ s[q] # None
  <2>1. CASE r.mode = "retire"
    BY <2>1 DEF OpsOf, RetireOps, NoOps, ScanModes, Request
  <2>2. CASE r.mode \in ScanModes
    BY <2>2 DEF OpsOf, ScanOps, NoOps
  <2>3. CASE r.mode = "adopt"
    BY <2>3 DEF OpsOf, AdoptOps, NoOps, ScanModes
  <2> QED
    BY <2>1, <2>2, <2>3 DEF Request, Modes, ScanModes
<1> HIDE DEF ops
<1>2. rows = {[path |-> q, at |-> at, sha |-> sha(q)] : q \in ops.retire}
  BY DEF RetiredRows
<1>3. \A q \in ops.retire : sha(q) \in Sha
  BY <1>1 DEF Doc, Entries, Entry, Version
<1> HIDE DEF sha, rows
<1>4. rows \in SUBSET Row /\ \A row \in rows : row.at = at
  BY <1>1, <1>2, <1>3 DEF Row
<1>5. \A v, w \in rows : v.path = w.path => v = w
  BY <1>2
<1>6. IsFiniteSet(rows)
  <2> DEFINE f == [q \in ops.retire |-> [path |-> q, at |-> at, sha |-> sha(q)]]
  <2>1. f \in Surjection(ops.retire, rows)
    BY <1>2, Fun_IsSurj
  <2>2. IsFiniteSet(ops.retire)
    BY <1>1, PathAssumption, FS_Subset
  <2> QED
    BY <2>1, <2>2, FS_Surjection
<1>7. d.retired \in SUBSET Row /\ \A row \in d.retired : row.at \in Nat
  BY DEF Doc, Row
<1>8. all \in SUBSET Row /\ IsFiniteSet(all)
  BY <1>4, <1>6, <1>7, FS_Union
<1>9. \A row \in all : row.at \in Nat /\ row.at <= at
  BY <1>4, <1>7
<1>10. Distinct(all)
  <2>1. ASSUME NEW v \in all, NEW w \in all, v.at = w.at, v.path = w.path
        PROVE  v = w
    <3>1. CASE v \in rows /\ w \in rows
      BY <1>5, <2>1, <3>1
    <3>2. CASE v \in d.retired /\ w \in d.retired
      BY <2>1, <3>2 DEF Distinct
    <3>3. \A x \in d.retired, y \in rows : x.at # y.at
      BY <1>4, <1>7
    <3> QED
      BY <2>1, <3>1, <3>2, <3>3
  <2> QED
    BY <2>1 DEF Distinct
<1> QED
  BY <1>1, <1>4, <1>8, <1>9, <1>10 DEF ops, rows

(* The record the manifest stands for: what a merge makes of one path, and *)
(* the step of the record that every merge is.                             *)

(* A pass over saves: what becomes of one path.                            *)
PathStep(d, n, q) ==
  LET old == d.entries[q]
      new == n.entries[q]
  IN  \/ new = old
      \/ old = None
      \/ new # None /\ (new.sha = old.sha => new.by = old.by)
      \/ /\ new = None
         /\ \E p \in Path \ {q} :
              /\ UnitOf[p] = UnitOf[q] /\ n.entries[p] # None
              /\ n.entries[p].sha = d.entries[q].sha
              /\ n.entries[p].by = d.entries[q].by

(* An entry carried is the source's, with another time.                    *)
LEMMA CarriedEntry ==
  ASSUME NEW d \in Doc, NEW q \in Path, d.entries[q] # None, NEW v \in Version
  PROVE  LET e == Carried(d, q, v)
         IN  /\ e \in Entry /\ e # None
             /\ e.sha = d.entries[q].sha /\ e.by = d.entries[q].by
             /\ e.mt = v.mt
<1>1. d.entries[q] \in Entry
  BY DEF Doc, Entries
<1>2. Carried(d, q, v) = [d.entries[q] EXCEPT !.mt = v.mt]
  BY DEF Carried
<1>3. Carried(d, q, v) \in Entry
  BY <1>1, <1>2 DEF Entry, Version
<1> QED
  BY <1>1, <1>2, <1>3, NoneAssumption DEF Entry

LEMMA ScanPath ==
  ASSUME NEW d \in Doc, NEW r \in Request, r.mode \in ScanModes,
         NEW s \in Local, NEW h, NEW at, NEW q \in Path
  PROVE  PathStep(d, Merge(r, d, d.entries, s, OpsOf(r, d.entries, s, h), at), q)
<1> DEFINE c == d.entries
           ops == OpsOf(r, c, s, h)
           mv == Moves(c, s, h)
           n == Merge(r, d, c, s, ops, at)
<1>1. /\ ops.retire = {} /\ ops.copy = {} /\ ops.move = mv
      /\ \A x \in ops.meta : x \in Path /\ s[x] # None /\ SameVersion(c, s, x)
      /\ \A x \in ops.put : /\ x \in Path /\ s[x] # None /\ mv[x] = None
                            /\ ~SameVersion(c, s, x)
  BY DEF OpsOf, ScanOps, NoOps, Candidates
<1>2. \A x \in Path : n.entries[x] = MergedEntry(r, d, s, ops, x)
  BY DEF Merge
<1>3. \A x \in Path : s[x] # None => s[x] \in Version
  BY DEF Local
<1>4. \A x \in Path : c[x] # None => c[x] \in Entry
  BY DEF Doc, Entries
<1>5. /\ Sound(c, s, h, mv)
      /\ \A x \in Path : mv[x] # None => x \in Destinations(c, s)
  BY MovesSound
<1>6. \A x \in Path : mv[x] # None =>
        /\ s[x] # None /\ ~SameVersion(c, s, x)
        /\ mv[x] \in Path \ {x} /\ c[mv[x]] # None
        /\ c[mv[x]].sha = s[x].sha /\ UnitOf[mv[x]] = UnitOf[x]
  BY <1>5 DEF Sound, FreeSources, Destinations, Candidates
<1> HIDE DEF c, ops, mv, n
<1> SUFFICES PathStep(d, n, q)
  BY DEF n, ops, c
<1>7. ASSUME NEW x \in Path, mv[x] # None
      PROVE  n.entries[x] = Carried(d, mv[x], s[x])
  BY <1>1, <1>2, <1>6, <1>7 DEF MergedEntry, DeadSources
<1>8. CASE q \in DeadSources(ops)
  <2>1. PICK x \in Path : mv[x] # None /\ q = mv[x]
    BY <1>1, <1>8 DEF DeadSources
  <2>2. /\ n.entries[x] # None
        /\ n.entries[x].sha = d.entries[q].sha
        /\ n.entries[x].by = d.entries[q].by
    BY <1>3, <1>6, <1>7, <2>1, CarriedEntry DEF c
  <2>3. n.entries[q] = None
    BY <1>1, <1>2, <1>8 DEF MergedEntry, DeadSources
  <2>4. x \in Path \ {q} /\ UnitOf[x] = UnitOf[q]
    BY <1>6, <2>1
  <2> QED
    BY <2>2, <2>3, <2>4 DEF PathStep
<1>9. CASE q \in ops.put /\ q \notin DeadSources(ops)
  <2>1. n.entries[q] = [sha |-> s[q].sha, mt |-> s[q].mt, by |-> Provenance(r)]
    BY <1>1, <1>2, <1>9 DEF MergedEntry
  <2>2. n.entries[q] \in Entry
    <3>1. Provenance(r) \in Nat
      BY DEF Provenance, Request
    <3> QED
      BY <1>1, <1>3, <1>9, <2>1, <3>1 DEF Version, Entry
  <2>3. c[q] = None \/ c[q].sha # s[q].sha
    BY <1>1, <1>9 DEF SameVersion
  <2> QED
    BY <2>1, <2>2, <2>3, NoneAssumption DEF PathStep, c
<1>10. CASE q \in ops.meta /\ q \notin DeadSources(ops) /\ q \notin ops.put
  <2>1. n.entries[q] = Carried(d, q, s[q])
    <3>1. SameVersion(c, s, q) /\ mv[q] = None
      BY <1>1, <1>6, <1>10
    <3> QED
      BY <1>1, <1>2, <1>10, <3>1 DEF MergedEntry
  <2>2. c[q] # None /\ s[q] \in Version
    BY <1>1, <1>3, <1>10 DEF SameVersion
  <2> QED
    BY <2>1, <2>2, CarriedEntry DEF PathStep, c
<1>11. CASE mv[q] # None
  <2>1. n.entries[q] # None /\ n.entries[q].sha = s[q].sha
    BY <1>3, <1>6, <1>7, <1>11, CarriedEntry DEF c
  <2>2. c[q] = None \/ c[q].sha # s[q].sha
    BY <1>6, <1>11 DEF SameVersion
  <2> QED
    BY <2>1, <2>2 DEF PathStep, c
<1>12. CASE /\ q \notin DeadSources(ops) /\ q \notin ops.put
            /\ q \notin ops.meta /\ mv[q] = None
  <2>1. n.entries[q] = d.entries[q]
    BY <1>1, <1>2, <1>12 DEF MergedEntry
  <2> QED
    BY <2>1 DEF PathStep
<1> QED
  BY <1>8, <1>9, <1>10, <1>11, <1>12

(* A deletion: one row for each path retired, and every other entry kept.  *)
LEMMA RetireMerge ==
  ASSUME NEW d \in Doc, NEW r \in Request, r.mode = "retire",
         NEW s \in Local, NEW h, NEW at \in Nat,
         IsFiniteSet(d.retired), Distinct(d.retired),
         \A row \in d.retired : row.at < at
  PROVE  LET ops == OpsOf(r, d.entries, s, h)
             n == Merge(r, d, d.entries, s, ops, at)
         IN  /\ \/ ops.retire = {}
                \/ at \in {row.at : row \in n.retired}
             /\ n.entries = [q \in Path |-> IF q \in ops.retire THEN None
                                           ELSE d.entries[q]]
             /\ ops.retire \in SUBSET Path
<1> DEFINE c == d.entries
           ops == OpsOf(r, c, s, h)
           rows == RetiredRows(c, s, ops, at)
           all == d.retired \cup rows
           n == Merge(r, d, c, s, ops, at)
<1>1. /\ ops.put = {} /\ ops.meta = {} /\ ops.copy = {}
      /\ ops.move = [q \in Path |-> None]
      /\ ops.retire = {q \in r.paths : c[q] # None \/ s[q] # None}
      /\ ops.retire \in SUBSET Path
  BY DEF OpsOf, RetireOps, NoOps, ScanModes, Request
<1>2. /\ IsFiniteSet(all) /\ Distinct(all) /\ all \in SUBSET Row
      /\ \A row \in all : row.at \in Nat /\ row.at <= at
      /\ \A row \in rows : row.at = at
  <2>1. AdoptSealed(r, s)
    BY DEF AdoptSealed
  <2>2. /\ all \in SUBSET Row /\ IsFiniteSet(all) /\ Distinct(all)
        /\ \A row \in all : row.at \in Nat /\ row.at <= at
    BY <2>1, RowsOfRun
  <2>3. \A row \in rows : row.at = at
    BY DEF RetiredRows
  <2> QED
    BY <2>2, <2>3
<1>3. rows = {[path |-> q, at |-> at,
              sha |-> IF c[q] # None THEN c[q].sha ELSE s[q].sha] : q \in ops.retire}
  BY DEF RetiredRows
<1>4. n.retired = Newest(all)
      /\ n.entries = [q \in Path |-> MergedEntry(r, d, s, ops, q)]
  BY DEF Merge
<1> HIDE DEF ops, rows, n
<1>5. ASSUME ops.retire # {} PROVE at \in {row.at : row \in n.retired}
  <2>1. PICK m \in ops.retire : \A q \in ops.retire : q <= m
    <3>1. IsFiniteSet(ops.retire) /\ ops.retire \in SUBSET Nat
      BY <1>1, PathAssumption, FS_Subset
    <3> QED
      BY <1>5, <3>1, FiniteMax
  <2> DEFINE top == [path |-> m, at |-> at,
                     sha |-> IF c[m] # None THEN c[m].sha ELSE s[m].sha]
  <2>2. top \in rows /\ top.path = m /\ top.at = at
    BY <1>3
  <2> HIDE DEF top
  <2>3. \A row \in all : ~Newer(row, top)
    <3>1. ASSUME NEW row \in all, Newer(row, top) PROVE FALSE
      <4>1. row.at \in Nat /\ row.at <= at /\ m \in Nat
        BY <1>1, <1>2, PathAssumption
      <4>2. row.at = at /\ row.path > m
        BY <2>2, <3>1, <4>1 DEF Newer
      <4>3. row \in rows
        BY <1>2, <4>2
      <4>4. row.path \in ops.retire
        BY <1>3, <4>3
      <4>5. row.path <= m /\ row.path \in Nat
        BY <1>1, <2>1, <4>4, PathAssumption
      <4> QED
        BY <4>1, <4>2, <4>5
    <3> QED
      BY <3>1
  <2>4. {row \in all : Newer(row, top)} = {}
    BY <2>3
  <2>5. Cardinality({row \in all : Newer(row, top)}) < RetiredMax
    BY <2>4, FS_EmptySet, RetiredMaxAssumption
  <2>6. top \in Newest(all)
    BY <2>2, <2>5, Zenon DEF Newest
  <2> QED
    BY <1>4, <2>2, <2>6
<1>6. n.entries = [q \in Path |-> IF q \in ops.retire THEN None ELSE d.entries[q]]
  <2>1. DeadSources(ops) = {}
    BY <1>1 DEF DeadSources
  <2>2. \A q \in Path : MergedEntry(r, d, s, ops, q)
                         = IF q \in ops.retire THEN None ELSE d.entries[q]
    BY <1>1, <2>1 DEF MergedEntry
  <2> QED
    BY <1>4, <2>2
<1> QED
  BY <1>1, <1>5, <1>6 DEF ops, n

(* A copy: its path gets an entry, and nothing else changes.               *)
LEMMA AdoptMerge ==
  ASSUME NEW d \in Doc, NEW r \in Request, r.mode = "adopt",
         NEW s \in Local, NEW h, NEW at, AdoptSealed(r, s), r.from \in Path
  PROVE  LET n == Merge(r, d, d.entries, s, OpsOf(r, d.entries, s, h), at)
         IN  /\ r.dest \in Path /\ n.entries[r.dest] \in Entry
             /\ n.entries = [d.entries EXCEPT ![r.dest] = n.entries[r.dest]]
<1> DEFINE c == d.entries
           ops == OpsOf(r, c, s, h)
           n == Merge(r, d, c, s, ops, at)
<1>1. /\ ops.meta = {} /\ ops.retire = {} /\ ops.move = [q \in Path |-> None]
      /\ \/ /\ ops.put = {} /\ ops.copy = {r.dest}
            /\ c[r.from] # None /\ c[r.from].sha = s[r.dest].sha
            /\ UnitOf[r.from] = UnitOf[r.dest]
         \/ ops.put = {r.dest} /\ ops.copy = {}
  BY DEF OpsOf, AdoptOps, NoOps, ScanModes
<1>2. n.entries = [q \in Path |-> MergedEntry(r, d, s, ops, q)]
  BY DEF Merge
<1>3. r.dest \in Path /\ s[r.dest] \in Version
  BY DEF AdoptSealed, Local
<1> HIDE DEF ops, n
<1>4. DeadSources(ops) = {}
  BY <1>1 DEF DeadSources
<1>5. \A q \in Path \ {r.dest} : n.entries[q] = d.entries[q]
  BY <1>1, <1>2, <1>4 DEF MergedEntry
<1>6. n.entries[r.dest] \in Entry
  <2>1. CASE ops.put = {r.dest} /\ ops.copy = {}
    <3>1. n.entries[r.dest] = [sha |-> s[r.dest].sha, mt |-> s[r.dest].mt,
                               by |-> Provenance(r)]
      BY <1>1, <1>2, <1>3, <1>4, <2>1 DEF MergedEntry
    <3>2. Provenance(r) \in Nat
      BY DEF Provenance, Request
    <3> QED
      BY <1>3, <3>1, <3>2 DEF Entry, Version
  <2>2. CASE /\ ops.put = {} /\ ops.copy = {r.dest} /\ c[r.from] # None
    <3>1. n.entries[r.dest] = Carried(d, r.from, s[r.dest])
      BY <1>1, <1>2, <1>3, <1>4, <2>2 DEF MergedEntry
    <3> QED
      BY <1>3, <2>2, <3>1, CarriedEntry
  <2> QED
    BY <1>1, <2>1, <2>2
<1>7. n.entries = [d.entries EXCEPT ![r.dest] = n.entries[r.dest]]
  <2>1. d.entries \in [Path -> Entry \cup {None}]
    BY DEF Doc, Entries
  <2> QED
    BY <1>2, <1>5, <2>1
<1> QED
  BY <1>3, <1>6, <1>7 DEF ops, n

-----------------------------------------------------------------------------
(***************************************************************************)
(* CaptureOnce.  A pass over saves says of each path what its entry        *)
(* becomes: that of the version sealed there, held already, moved or put,  *)
(* or what it was, unless its version was moved away (ScanEntry).  What    *)
(* the properties say of a document are the cases of that; that a second   *)
(* pass finds nothing to do needs the completeness of the moves as well.   *)
(***************************************************************************)

(* An entry for the version v, credited to the session by.                 *)
Records(e, v, by) ==
  e \in Entry /\ e # None /\ e.sha = v.sha /\ e.mt = v.mt /\ e.by = by

LEMMA ScanEntry ==
  ASSUME NEW d \in Doc, NEW r \in Request, r.mode \in ScanModes,
         NEW s \in Local, NEW h, \A x \in Path : s[x] # None => x \in h,
         NEW q \in Path
  PROVE  LET c == d.entries
             mv == Moves(c, s, h)
             e == MergedEntry(r, d, s, OpsOf(r, c, s, h), q)
         IN  /\ s[q] # None /\ SameVersion(c, s, q) => Records(e, s[q], c[q].by)
             /\ mv[q] # None =>
                  /\ s[q] # None /\ mv[q] \in Path /\ c[mv[q]] # None
                  /\ c[mv[q]].sha = s[q].sha /\ UnitOf[mv[q]] = UnitOf[q]
                  /\ Records(e, s[q], c[mv[q]].by)
             /\ /\ s[q] # None /\ ~SameVersion(c, s, q) /\ mv[q] = None
                /\ r.mode = "exit" \/ c[q] # None
                => Records(e, s[q], Provenance(r))
             /\ s[q] = None \/ (c[q] = None /\ mv[q] = None /\ r.mode # "exit")
                => e = IF q \in {mv[x] : x \in Path} THEN None ELSE c[q]
<1> DEFINE c == d.entries
           ops == OpsOf(r, c, s, h)
           mv == Moves(c, s, h)
           e == MergedEntry(r, d, s, ops, q)
<1>1. /\ ops.retire = {} /\ ops.copy = {} /\ ops.move = mv
      /\ ops.meta = {x \in Path : /\ s[x] # None /\ SameVersion(c, s, x)
                                  /\ s[x].mt # c[x].mt}
      /\ ops.put = {x \in Path : /\ s[x] # None /\ ~SameVersion(c, s, x)
                                 /\ mv[x] = None
                                 /\ r.mode = "exit" \/ c[x] # None}
  BY DEF OpsOf, ScanOps, NoOps, Candidates
<1>2. \A x \in Path : s[x] # None => s[x] \in Version
  BY DEF Local
<1>3. \A x \in Path : c[x] # None => c[x] \in Entry
  BY DEF Doc, Entries
<1>4. \A x \in Path : mv[x] # None =>
        /\ s[x] # None /\ ~SameVersion(c, s, x)
        /\ mv[x] \in Path /\ c[mv[x]] # None
        /\ c[mv[x]].sha = s[x].sha /\ UnitOf[mv[x]] = UnitOf[x]
        /\ ~EntryHolds(c, s, h, mv[x])
  BY MovesSound DEF Sound, FreeSources, Destinations, Candidates
<1> HIDE DEF c, ops, mv, e
<1>5. ASSUME s[q] # None, SameVersion(c, s, q)
      PROVE  Records(e, s[q], c[q].by)
  <2>1. mv[q] = None /\ q \notin ops.put
    BY <1>1, <1>4, <1>5
  <2>2. q \notin DeadSources(ops)
    BY <1>1, <1>4, <1>5 DEF DeadSources, EntryHolds
  <2>3. c[q] # None /\ c[q] \in Entry /\ c[q].sha = s[q].sha
    BY <1>3, <1>5 DEF SameVersion
  <2>4. CASE q \in ops.meta
    <3>1. e = Carried(d, q, s[q])
      BY <1>1, <2>1, <2>2, <2>4 DEF MergedEntry, e
    <3> QED
      BY <1>2, <1>5, <2>3, <3>1, CarriedEntry DEF Records, c
  <2>5. CASE q \notin ops.meta
    <3>1. e = c[q]
      BY <1>1, <2>1, <2>2, <2>5 DEF MergedEntry, e, c
    <3>2. s[q].mt = c[q].mt
      BY <1>1, <1>5, <2>5
    <3> QED
      BY <2>3, <3>1, <3>2 DEF Records
  <2> QED
    BY <2>4, <2>5
<1>6. ASSUME mv[q] # None
      PROVE  Records(e, s[q], c[mv[q]].by)
  <2>1. e = Carried(d, mv[q], s[q])
    BY <1>1, <1>4, <1>6 DEF MergedEntry, DeadSources, e
  <2> DEFINE w == mv[q]
  <2>2. w \in Path /\ c[w] # None /\ c[w] \in Entry /\ c[w].sha = s[q].sha
        /\ s[q] \in Version
    BY <1>2, <1>3, <1>4, <1>6
  <2>3. e = Carried(d, w, s[q])
    BY <2>1
  <2> HIDE DEF w
  <2>4. Records(e, s[q], c[w].by)
    BY <2>2, <2>3, CarriedEntry DEF Records, c
  <2> QED
    BY <2>4 DEF w
<1>7. ASSUME s[q] # None, ~SameVersion(c, s, q), mv[q] = None,
             r.mode = "exit" \/ c[q] # None
      PROVE  Records(e, s[q], Provenance(r))
  <2>1. q \in ops.put /\ q \notin DeadSources(ops)
    BY <1>1, <1>7 DEF DeadSources
  <2>2. e = [sha |-> s[q].sha, mt |-> s[q].mt, by |-> Provenance(r)]
    BY <1>1, <2>1 DEF MergedEntry, e
  <2>3. e \in Entry
    <3>1. Provenance(r) \in Nat
      BY DEF Provenance, Request
    <3> QED
      BY <1>2, <1>7, <2>2, <3>1 DEF Version, Entry
  <2> QED
    BY <2>2, <2>3, NoneAssumption DEF Records
<1>8. ASSUME s[q] = None \/ (c[q] = None /\ mv[q] = None /\ r.mode # "exit")
      PROVE  e = IF q \in {mv[x] : x \in Path} THEN None ELSE c[q]
  <2>1. mv[q] = None /\ q \notin ops.put /\ q \notin ops.meta
    BY <1>1, <1>4, <1>8 DEF SameVersion
  <2>2. q \in DeadSources(ops) <=> q \in {mv[x] : x \in Path}
    BY <1>1, <2>1, NoneAssumption DEF DeadSources
  <2> QED
    BY <1>1, <2>1, <2>2 DEF MergedEntry, e, c
<1> QED
  BY <1>4, <1>5, <1>6, <1>7, <1>8 DEF c, ops, mv, e

(* What a pass is run on.                                                  *)
Inputs ==
  /\ request \in Requests
  /\ folder \in Files
  /\ before \in {Credited(c) : c \in Files}

Holding == {q \in Path : folder[q] # None}
OpsOn(c) == OpsOf(request, c, Sealed(request, c), Holding)

LEMMA InputTypes ==
  ASSUME Inputs
  PROVE  /\ request \in Request /\ request.mode \in ScanModes
         /\ Provenance(request) \in 0..MaxTime
         /\ folder \in Local
         /\ before \in Doc /\ before.retired = {}
         /\ \A q \in Path : before.entries[q] # None =>
              before.entries[q].by = MaxTime + 1 + q
<1>1. PICK m \in ScanModes, u \in Unit :
        request = [mode |-> m, unit |-> IF m = "full" THEN None ELSE u,
                   started |-> IF m = "exit" THEN MaxTime ELSE 0, paths |-> {},
                   unlink |-> FALSE, dest |-> None, from |-> None]
  BY DEF Inputs, Requests
<1>2. /\ request \in Request /\ request.mode \in ScanModes
      /\ Provenance(request) \in 0..MaxTime
  BY <1>1, FilesAssumption DEF Request, Modes, ScanModes, Provenance
<1>3. \A c \in Files : c \in [Path -> [sha : Sha, mt : 0..MaxTime] \cup {None}]
  BY FilesAssumption
<1>4. folder \in Local
  BY <1>3, FilesAssumption DEF Inputs, Local, Version
<1>5. PICK c \in Files : before = Credited(c)
  BY DEF Inputs
<1>6. c \in [Path -> [sha : Sha, mt : 0..MaxTime] \cup {None}]
  BY <1>3
<1>7. before.retired = {}
      /\ before.entries = [q \in Path |-> IF c[q] = None THEN None ELSE
                            [sha |-> c[q].sha, mt |-> c[q].mt,
                             by |-> MaxTime + 1 + q]]
  BY <1>5 DEF Credited
<1>8. ASSUME NEW q \in Path, c[q] # None
      PROVE  /\ before.entries[q] \in Entry
             /\ before.entries[q].by = MaxTime + 1 + q
  <2>1. c[q].sha \in Sha /\ c[q].mt \in Nat /\ MaxTime + 1 + q \in Nat
    BY <1>6, <1>8, FilesAssumption, PathAssumption
  <2> QED
    BY <1>7, <1>8, <2>1 DEF Entry
<1>9. before.entries \in Entries
  BY <1>7, <1>8 DEF Entries
<1>10. before \in Doc
  BY <1>5, <1>7, <1>9 DEF Credited, Doc
<1> QED
  BY <1>2, <1>4, <1>7, <1>8, <1>10

(* A pass seals what is in the folder, at the members that changed.        *)
LEMMA SealedTypes ==
  ASSUME Inputs, NEW c
  PROVE  /\ Sealed(request, c) \in Local
         /\ \A q \in Path : Sealed(request, c)[q] # None =>
              /\ Sealed(request, c)[q] = folder[q] /\ q \in Holding
              /\ q \in Members(request, c) /\ Changed(request, c, q, folder[q])
         /\ \A q \in Members(request, c) :
              Changed(request, c, q, folder[q]) => Sealed(request, c)[q] = folder[q]
BY InputTypes DEF Sealed, Members, Local, Holding

(* A pass makes this of a manifest without retired rows.                   *)
Outcome(d) ==
  [entries |-> [q \in Path |->
     MergedEntry(request, d, Sealed(request, d.entries), OpsOn(d.entries), q)],
   retired |-> {}]

LEMMA PassOutcome ==
  ASSUME Inputs, NEW d, d.retired = {}
  PROVE  Pass(d) = Outcome(d)
<1> DEFINE s == Sealed(request, d.entries)
           ops == OpsOn(d.entries)
<1>1. Pass(d) = Merge(request, d, d.entries, s, ops, passes)
  BY DEF Pass, OpsOn, Holding
<1>2. ops.retire = {}
  BY InputTypes DEF OpsOn, OpsOf, ScanOps, NoOps
<1>3. d.retired \cup RetiredRows(d.entries, s, ops, passes) = {}
  BY <1>2 DEF RetiredRows
<1>4. Newest(d.retired \cup RetiredRows(d.entries, s, ops, passes)) = {}
  BY <1>3 DEF Newest
<1> QED
  BY <1>1, <1>4 DEF Merge, Outcome

(* The cases of ScanEntry, for the entry a pass leaves at q.               *)
LEMMA OutcomeEntry ==
  ASSUME Inputs, NEW d \in Doc, NEW q \in Path
  PROVE  LET c == d.entries
             s == Sealed(request, c)
             mv == Moves(c, s, Holding)
             e == Outcome(d).entries[q]
         IN  /\ s[q] # None /\ SameVersion(c, s, q) => Records(e, s[q], c[q].by)
             /\ mv[q] # None =>
                  /\ s[q] # None /\ mv[q] \in Path /\ c[mv[q]] # None
                  /\ c[mv[q]].sha = s[q].sha /\ UnitOf[mv[q]] = UnitOf[q]
                  /\ Records(e, s[q], c[mv[q]].by)
             /\ /\ s[q] # None /\ ~SameVersion(c, s, q) /\ mv[q] = None
                /\ request.mode = "exit" \/ c[q] # None
                => Records(e, s[q], Provenance(request))
             /\ \/ s[q] = None
                \/ c[q] = None /\ mv[q] = None /\ request.mode # "exit"
                => e = IF q \in {mv[x] : x \in Path} THEN None ELSE c[q]
<1>1. /\ request \in Request /\ request.mode \in ScanModes
      /\ Sealed(request, d.entries) \in Local
      /\ \A x \in Path : Sealed(request, d.entries)[x] # None => x \in Holding
  BY InputTypes, SealedTypes
<1>2. Outcome(d).entries[q]
        = MergedEntry(request, d, Sealed(request, d.entries),
                      OpsOf(request, d.entries, Sealed(request, d.entries),
                            Holding), q)
  BY DEF Outcome, OpsOn
<1> QED
  BY <1>1, <1>2, ScanEntry

LEMMA OutcomeType ==
  ASSUME Inputs, NEW d \in Doc
  PROVE  Outcome(d) \in Doc /\ Outcome(d).retired = {}
<1>1. /\ request \in Request /\ AdoptSealed(request, Sealed(request, d.entries))
      /\ Sealed(request, d.entries) \in Local /\ d.entries \in Entries
  BY InputTypes, SealedTypes DEF AdoptSealed, ScanModes, Doc
<1>2. ASSUME NEW q \in Path
      PROVE  MergedEntry(request, d, Sealed(request, d.entries),
                         OpsOn(d.entries), q) \in Entry \cup {None}
  BY <1>1, MergedEntryType DEF OpsOn
<1> QED
  BY <1>2 DEF Outcome, Doc, Entries

(* What was sealed and had an entry, or was a session's, has one that      *)
(* records it, and so has what was moved to.                               *)
LEMMA SealedRecorded ==
  ASSUME Inputs, NEW d \in Doc, NEW q \in Path,
         Sealed(request, d.entries)[q] # None,
         \/ d.entries[q] # None \/ request.mode = "exit"
         \/ Moves(d.entries, Sealed(request, d.entries), Holding)[q] # None
  PROVE  LET e == Outcome(d).entries[q]
         IN  e # None /\ e.sha = folder[q].sha /\ e.mt = folder[q].mt
<1> DEFINE s == Sealed(request, d.entries)
           mv == Moves(d.entries, s, Holding)
<1>1. s[q] = folder[q]
  BY SealedTypes
<1>2. CASE mv[q] # None
  BY <1>1, <1>2, OutcomeEntry DEF Records
<1>3. CASE SameVersion(d.entries, s, q)
  BY <1>1, <1>3, OutcomeEntry DEF Records
<1>4. CASE mv[q] = None /\ ~SameVersion(d.entries, s, q)
  BY <1>1, <1>4, OutcomeEntry DEF Records
<1> QED
  BY <1>2, <1>3, <1>4

(* What the first pass left out, the second has no source for either, and  *)
(* whatever else it seals its entry records already.                       *)
LEMMA NothingNew ==
  ASSUME Inputs, NEW d \in Doc, NEW q \in Path,
         Sealed(request, Outcome(d).entries)[q] # None
  PROVE  LET c == Outcome(d).entries
             s == Sealed(request, c)
         IN  \/ SameVersion(c, s, q) /\ s[q].mt = c[q].mt
             \/ /\ c[q] = None /\ request.mode # "exit"
                /\ FreeSources(c, s, Holding, q, {}) = {}
<1> DEFINE c0 == d.entries
           s0 == Sealed(request, c0)
           mv == Moves(c0, s0, Holding)
           c == Outcome(d).entries
           s == Sealed(request, c)
<1>0. Decided(c0, s0, Holding, Destinations(c0, s0), mv)
  BY MovesDecided
<1>1. \A x \in Path : s[x] # None =>
        /\ s[x] = folder[x] /\ x \in Holding
        /\ x \in Members(request, c) /\ Changed(request, c, x, folder[x])
  BY SealedTypes
<1>2. \A x \in Path : s0[x] # None => s0[x] = folder[x] /\ x \in Members(request, c0)
  BY SealedTypes
<1>3. \A x \in Path :
        /\ s0[x] # None
        /\ c0[x] # None \/ request.mode = "exit" \/ mv[x] # None
        => c[x] # None /\ c[x].sha = folder[x].sha /\ c[x].mt = folder[x].mt
  BY SealedRecorded
<1>4. \A x \in Path :
        s0[x] = None \/ (c0[x] = None /\ mv[x] = None /\ request.mode # "exit")
        => c[x] = IF x \in {mv[y] : y \in Path} THEN None ELSE c0[x]
  BY OutcomeEntry
<1>5. \A x \in Path : mv[x] # None => ~EntryHolds(c0, s0, Holding, mv[x])
  BY <1>0 DEF Decided, Sound, FreeSources
<1>6. request.mode \in ScanModes
  BY InputTypes
<1>7. \A x \in Members(request, c0) : Changed(request, c0, x, folder[x]) => s0[x] # None
  BY SealedTypes DEF Members
<1> HIDE DEF c, s, c0, s0, mv
<1>8. ASSUME NEW x \in Path, s[x] # None
      PROVE  s0[x] # None
  <2>1. x \in Holding /\ x \in Members(request, c) /\ Changed(request, c, x, folder[x])
    BY <1>1, <1>8
  <2>2. SUFFICES ASSUME s0[x] = None PROVE FALSE
    OBVIOUS
  <2>3. x \notin {mv[y] : y \in Path}
    BY <1>5, <2>1, <2>2, NoneAssumption DEF EntryHolds
  <2>4. c[x] = c0[x]
    BY <1>4, <2>2, <2>3
  <2>5. x \in Members(request, c0) /\ Changed(request, c0, x, folder[x])
    BY <2>1, <2>4 DEF Members, Changed
  <2> QED
    BY <1>7, <2>2, <2>5
<1>9. ASSUME NEW x \in Path, s[x] # None, c[x] # None
      PROVE  SameVersion(c, s, x) /\ s[x].mt = c[x].mt
  <2>1. s0[x] # None /\ s[x] = folder[x]
    BY <1>1, <1>8, <1>9
  <2>2. c0[x] # None \/ request.mode = "exit" \/ mv[x] # None
    BY <1>4, <1>9
  <2> QED
    BY <1>3, <1>9, <2>1, <2>2 DEF SameVersion
<1>10. ASSUME s[q] # None, c[q] = None
       PROVE  request.mode # "exit" /\ FreeSources(c, s, Holding, q, {}) = {}
  <2>1. s0[q] # None /\ s0[q] = folder[q] /\ s[q] = folder[q]
    BY <1>1, <1>2, <1>8, <1>10
  <2>2. c0[q] = None /\ request.mode # "exit" /\ mv[q] = None
    BY <1>3, <1>10, <2>1
  <2>3. q \in Destinations(c0, s0)
    BY <2>1, <2>2 DEF Destinations, Candidates, SameVersion
  <2>4. FreeSources(c0, s0, Holding, q, {}) \subseteq {mv[y] : y \in Path}
    BY <1>0, <2>2, <2>3 DEF Decided
  <2>5. ASSUME NEW x \in FreeSources(c, s, Holding, q, {}) PROVE FALSE
    <3>1. /\ x \in Path \ {q} /\ c[x] # None /\ c[x].sha = s[q].sha
          /\ UnitOf[x] = UnitOf[q] /\ ~EntryHolds(c, s, Holding, x)
      BY <2>5 DEF FreeSources
    <3>2. s[x] # None => SameVersion(c, s, x)
      BY <1>9, <3>1
    <3>3. x \notin Holding
      BY <3>1, <3>2 DEF EntryHolds
    <3>4. s0[x] = None
      BY <1>2, <3>1, <3>3 DEF Members, Holding
    <3>5. x \notin {mv[y] : y \in Path} /\ c[x] = c0[x]
      BY <1>4, <3>1, <3>4
    <3>6. x \in FreeSources(c0, s0, Holding, q, {})
      BY <2>1, <3>1, <3>3, <3>5 DEF FreeSources, EntryHolds
    <3> QED
      BY <2>4, <3>5, <3>6
  <2> QED
    BY <2>2, <2>5
<1> QED
  BY <1>9, <1>10 DEF c, s

LEMMA OutcomeFixed ==
  ASSUME Inputs, NEW d \in Doc
  PROVE  Outcome(Outcome(d)) = Outcome(d)
<1> DEFINE n == Outcome(d)
           c == n.entries
           s == Sealed(request, c)
           mv == Moves(c, s, Holding)
<1>1. n \in Doc /\ n.retired = {}
  BY OutcomeType
<1>2. \A x \in Path : s[x] # None =>
        \/ SameVersion(c, s, x) /\ s[x].mt = c[x].mt
        \/ /\ c[x] = None /\ request.mode # "exit"
           /\ FreeSources(c, s, Holding, x, {}) = {}
  BY NothingNew
<1>3. \A x \in Path : mv[x] # None =>
        /\ s[x] # None /\ ~SameVersion(c, s, x)
        /\ mv[x] \in FreeSources(c, s, Holding, x, {})
  BY MovesSound DEF Sound, Destinations, Candidates
<1> HIDE DEF n
<1>4. \A x \in Path : mv[x] = None
  BY <1>2, <1>3
<1>5. request \in Request /\ request.mode \in ScanModes
  BY InputTypes
<1>6. LET ops == OpsOn(c)
      IN  /\ ops.retire = {} /\ ops.copy = {} /\ ops.meta = {} /\ ops.put = {}
          /\ \A x \in Path : ops.move[x] = None
  BY <1>2, <1>4, <1>5 DEF OpsOn, OpsOf, ScanOps, NoOps, Candidates, SameVersion
<1>7. \A q \in Path : MergedEntry(request, n, s, OpsOn(c), q) = c[q]
  BY <1>6 DEF MergedEntry, DeadSources
<1>8. Outcome(n).entries = c
  <2>1. c \in [Path -> Entry \cup {None}]
    BY <1>1 DEF Doc, Entries
  <2> HIDE DEF c
  <2>2. Outcome(n).entries = [q \in Path |-> c[q]]
    BY <1>7 DEF Outcome, c
  <2> QED
    BY <2>1, <2>2 DEF c
<1>9. Outcome(n) = [entries |-> c, retired |-> {}]
  BY <1>8 DEF Outcome
<1>10. n = [entries |-> c, retired |-> {}]
  BY <1>1 DEF Doc
<1> QED
  BY <1>9, <1>10 DEF n

-----------------------------------------------------------------------------
(* The manifest is the one loaded, and after a pass, or two, its outcome.  *)
OnceInv ==
  /\ Inputs
  /\ passes \in Nat
  /\ doc = IF passes = 0 THEN before ELSE Outcome(before)

LEMMA OnceInit_Inv == OnceInit => OnceInv
BY DEF OnceInit, OnceInv, Inputs

LEMMA PassOfInv ==
  ASSUME OnceInv
  PROVE  Pass(doc) = Outcome(before)
<1>1. before \in Doc /\ before.retired = {}
  BY InputTypes DEF OnceInv
<1>2. Outcome(before) \in Doc /\ Outcome(before).retired = {}
  BY <1>1, OutcomeType DEF OnceInv
<1>3. CASE doc = before
  BY <1>1, <1>3, PassOutcome DEF OnceInv
<1>4. CASE doc = Outcome(before)
  BY <1>1, <1>2, <1>4, PassOutcome, OutcomeFixed DEF OnceInv
<1> QED
  BY <1>3, <1>4 DEF OnceInv

LEMMA OnceStep == OnceInv /\ [Again]_once => OnceInv'
<1> SUFFICES ASSUME OnceInv, [Again]_once PROVE OnceInv'
  OBVIOUS
<1>1. CASE Again
  <2>1. doc' = Outcome(before) /\ passes' = passes + 1
    BY <1>1, PassOfInv DEF Again
  <2>2. UNCHANGED <<request, folder, before>>
    BY <1>1 DEF Again
  <2>3. Outcome(before)' = Outcome(before)
    BY <2>2 DEF Outcome, Sealed, Members, OpsOn, Holding
  <2>4. Inputs'
    BY <2>2 DEF OnceInv, Inputs
  <2>5. passes' \in Nat /\ passes' # 0
    BY <2>1 DEF OnceInv
  <2> QED
    BY <2>1, <2>3, <2>4, <2>5 DEF OnceInv
<1>2. CASE UNCHANGED once
  <2>1. UNCHANGED <<request, folder, before, doc, passes>>
    BY <1>2 DEF once
  <2>2. Outcome(before)' = Outcome(before)
    BY <2>1 DEF Outcome, Sealed, Members, OpsOn, Holding
  <2> QED
    BY <2>1, <2>2 DEF OnceInv, Inputs
<1> QED
  BY <1>1, <1>2

THEOREM OnceAlways == OnceSpec => []OnceInv
BY OnceInit_Inv, OnceStep, PTL DEF OnceSpec

(* I8: whatever the player did with the files, a second pass over them     *)
(* writes the manifest it found (STEP 5 to STEP 9 are idempotent).         *)
THEOREM SecondPassQuiet == OnceSpec => SecondPassIsQuiet
<1>1. OnceInv /\ [Again]_once => [passes = 1 => doc' = doc]_once
  <2> SUFFICES ASSUME OnceInv, Again, passes = 1 PROVE doc' = doc
    OBVIOUS
  <2>1. doc' = Outcome(before)
    BY PassOfInv DEF Again
  <2> QED
    BY <2>1 DEF OnceInv
<1> QED
  BY <1>1, OnceAlways, PTL DEF OnceSpec, SecondPassIsQuiet

(* An exit records what its session wrote, a verify pass every claimed     *)
(* member's bytes (STEP 5's changed set misses none of them).              *)
THEOREM CandidatesAreRecorded == OnceSpec => []CandidatesRecorded
<1>1. OnceInv => CandidatesRecorded
  <2> SUFFICES ASSUME OnceInv, passes > 0,
                      NEW q \in Members(request, before.entries),
                      IF before.entries[q] = None
                        THEN request.mode = "exit" /\ folder[q].mt >= request.started
                        ELSE \/ request.mode # "exit"
                             \/ folder[q].mt # before.entries[q].mt
               PROVE  doc.entries[q] # None /\ doc.entries[q].sha = folder[q].sha
    BY DEF CandidatesRecorded
  <2>1. /\ Inputs /\ before \in Doc /\ doc = Outcome(before)
        /\ request.mode \in ScanModes
    BY InputTypes DEF OnceInv
  <2>2. q \in Path /\ folder[q] # None
    BY DEF Members
  <2>3. Changed(request, before.entries, q, folder[q])
    BY <2>1 DEF Changed, ScanModes
  <2>4. Sealed(request, before.entries)[q] # None
    BY <2>1, <2>2, <2>3, SealedTypes
  <2> QED
    BY <2>1, <2>2, <2>4, SealedRecorded
<1> QED
  BY <1>1, OnceAlways, PTL

(* Renamed, swapped or overwritten, no entry is credited to a session that *)
(* did not write its bytes in its unit (find_move_source, MERGE_JQ).       *)
THEOREM ProvenanceFollows == OnceSpec => []ProvenanceFollowsVersion
<1>1. OnceInv => ProvenanceFollowsVersion
  <2> SUFFICES ASSUME OnceInv, NEW q \in Path, doc.entries[q] # None,
                      doc.entries[q].by > MaxTime
               PROVE  \E p \in Path : /\ before.entries[p] # None
                                      /\ before.entries[p].by = doc.entries[q].by
                                      /\ before.entries[p].sha = doc.entries[q].sha
                                      /\ UnitOf[p] = UnitOf[q]
    BY DEF ProvenanceFollowsVersion
  <2> DEFINE c == before.entries
             s == Sealed(request, c)
             mv == Moves(c, s, Holding)
  <2>1. Inputs /\ before \in Doc /\ Provenance(request) \in 0..MaxTime
    BY InputTypes DEF OnceInv
  <2>2. CASE doc = before
    BY <2>2
  <2>3. CASE doc = Outcome(before)
    <3> HIDE DEF c, s, mv
    <3>1. CASE s[q] # None /\ SameVersion(c, s, q)
      <4>1. Records(doc.entries[q], s[q], c[q].by)
        BY <2>1, <2>3, <3>1, OutcomeEntry DEF c, s
      <4> QED
        BY <3>1, <4>1 DEF Records, SameVersion, c
    <3>2. CASE mv[q] # None
      BY <2>1, <2>3, <3>2, OutcomeEntry DEF c, s, mv, Records
    <3>3. CASE /\ s[q] # None /\ ~SameVersion(c, s, q) /\ mv[q] = None
               /\ request.mode = "exit" \/ c[q] # None
      <4>1. doc.entries[q].by = Provenance(request)
        BY <2>1, <2>3, <3>3, OutcomeEntry DEF c, s, mv, Records
      <4> QED
        BY <2>1, <4>1, FilesAssumption
    <3>4. CASE \/ s[q] = None
               \/ c[q] = None /\ mv[q] = None /\ request.mode # "exit"
      <4>1. doc.entries[q] = c[q]
        BY <2>1, <2>3, <3>4, OutcomeEntry DEF c, s, mv
      <4> QED
        BY <4>1 DEF c
    <3> QED
      BY <3>1, <3>2, <3>3, <3>4
  <2> QED
    BY <2>2, <2>3 DEF OnceInv
<1> QED
  BY <1>1, OnceAlways, PTL

(* A verify pass loses no version that is still on a member of its unit:   *)
(* every destination that has a free source is moved to (STEP 7).          *)
THEOREM VersionsSurvive == OnceSpec => []NoVersionLost
<1>1. OnceInv => NoVersionLost
  <2> SUFFICES ASSUME OnceInv, passes > 0, request.mode = "rescan",
                      NEW q \in Path, before.entries[q] # None,
                      NEW p \in Members(request, before.entries),
                      UnitOf[p] = UnitOf[q],
                      folder[p].sha = before.entries[q].sha
               PROVE  \E x \in Path : /\ doc.entries[x] # None
                                      /\ doc.entries[x].sha = before.entries[q].sha
                                      /\ UnitOf[x] = UnitOf[q]
    BY DEF NoVersionLost
  <2> DEFINE c == before.entries
             s == Sealed(request, c)
             mv == Moves(c, s, Holding)
  <2>1. Inputs /\ before \in Doc /\ doc = Outcome(before)
    BY InputTypes DEF OnceInv
  <2>2. p \in Path /\ folder[p] # None /\ UnitOf[p] = request.unit
    BY DEF Members
  <2>3. \A x \in Path : folder[x] # None /\ UnitOf[x] = request.unit =>
          s[x] # None /\ s[x] = folder[x]
    <3>1. ASSUME NEW x \in Path, folder[x] # None, UnitOf[x] = request.unit
          PROVE  s[x] # None /\ s[x] = folder[x]
      <4>1. x \in Members(request, c) /\ Changed(request, c, x, folder[x])
        BY <3>1 DEF Members, Changed
      <4> QED
        BY <2>1, <3>1, <4>1, SealedTypes
    <3> QED
      BY <3>1
  <2>4. s[p] # None /\ s[p] = folder[p]
    BY <2>2, <2>3
  <2>5. CASE c[p] # None \/ mv[p] # None
    <3>1. doc.entries[p] # None /\ doc.entries[p].sha = folder[p].sha
      BY <2>1, <2>2, <2>4, <2>5, SealedRecorded
    <3> QED
      BY <2>2, <3>1
  <2>6. CASE c[p] = None /\ mv[p] = None
    <3> HIDE DEF c, s, mv
    <3>1. CASE q \in Holding
      <4>1. s[q] # None
        BY <2>2, <2>3, <3>1 DEF Holding
      <4>2. doc.entries[q] # None /\ (SameVersion(c, s, q) =>
                                        doc.entries[q].sha = c[q].sha)
        <5>1. doc.entries[q] # None /\ doc.entries[q].sha = folder[q].sha
          BY <2>1, <4>1, SealedRecorded DEF c, s
        <5>2. s[q] = folder[q]
          BY <2>1, <4>1, SealedTypes DEF s
        <5> QED
          BY <5>1, <5>2 DEF SameVersion
      <4>3. CASE SameVersion(c, s, q)
        BY <4>2, <4>3 DEF c
      <4>4. CASE ~SameVersion(c, s, q)
        <5>1. q \in FreeSources(c, s, Holding, p, {})
          BY <2>2, <2>4, <2>6, <4>1, <4>4 DEF FreeSources, EntryHolds, c
        <5>2. \E x \in Path : mv[x] = q
          BY <2>2, <2>4, <2>6, <5>1, MovesDecided
             DEF Decided, Destinations, Candidates, SameVersion, mv
        <5> QED
          BY <2>1, <5>2, OutcomeEntry, NoneAssumption DEF c, s, mv, Records
      <4> QED
        BY <4>3, <4>4
    <3>2. CASE q \notin Holding
      <4>1. q \in FreeSources(c, s, Holding, p, {})
        BY <2>2, <2>4, <2>6, <3>2 DEF FreeSources, EntryHolds, c
      <4>2. \E x \in Path : mv[x] = q
        BY <2>2, <2>4, <2>6, <4>1, MovesDecided
           DEF Decided, Destinations, Candidates, SameVersion, mv
      <4> QED
        BY <2>1, <4>2, OutcomeEntry, NoneAssumption DEF c, s, mv, Records
    <3> QED
      BY <3>1, <3>2
  <2> QED
    BY <2>5, <2>6
<1> QED
  BY <1>1, OnceAlways, PTL

(* A claimed member that is gone stays declared unless its version moved:  *)
(* only a move deletes an entry (DeadSources).                             *)
THEOREM VanishedStays == OnceSpec => []VanishedStaysClaimed
<1>1. OnceInv => VanishedStaysClaimed
  <2> SUFFICES ASSUME OnceInv, NEW q \in Path, before.entries[q] # None,
                      folder[q] = None
               PROVE  \/ doc.entries[q] = before.entries[q]
                      \/ \E p \in Path : /\ UnitOf[p] = UnitOf[q]
                                         /\ folder[p] # None
                                         /\ folder[p].sha = before.entries[q].sha
                                         /\ doc.entries[p] # None
                                         /\ doc.entries[p].by = before.entries[q].by
    BY DEF VanishedStaysClaimed
  <2> DEFINE c == before.entries
             s == Sealed(request, c)
             mv == Moves(c, s, Holding)
  <2>1. Inputs /\ before \in Doc
    BY InputTypes DEF OnceInv
  <2>2. CASE doc = before
    BY <2>2
  <2>3. CASE doc = Outcome(before)
    <3>1. s[q] = None
      BY <2>1, SealedTypes DEF Holding
    <3>2. \A x \in Path : s[x] # None => s[x] = folder[x] /\ folder[x] # None
      BY <2>1, SealedTypes DEF Holding
    <3> HIDE DEF c, s, mv
    <3>3. doc.entries[q] = IF q \in {mv[x] : x \in Path} THEN None ELSE c[q]
      BY <2>1, <2>3, <3>1, OutcomeEntry DEF c, s, mv
    <3>4. CASE q \in {mv[x] : x \in Path}
      <4>1. PICK x \in Path : mv[x] = q
        BY <3>4
      <4>2. mv[x] # None
        BY <4>1, NoneAssumption
      <4>3. /\ s[x] # None /\ c[q].sha = s[x].sha /\ UnitOf[q] = UnitOf[x]
            /\ Records(doc.entries[x], s[x], c[q].by)
        BY <2>1, <2>3, <4>1, <4>2, OutcomeEntry DEF c, s, mv
      <4> QED
        BY <3>2, <4>3 DEF Records, c
    <3> QED
      BY <3>3, <3>4 DEF c
  <2> QED
    BY <2>2, <2>3 DEF OnceInv
<1> QED
  BY <1>1, OnceAlways, PTL
===============================================================================
