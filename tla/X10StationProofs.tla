--------------------------- MODULE X10StationProofs ---------------------------
(***************************************************************************)
(* Proofs about X10Station for every number of units, sensors, filter      *)
(* entries and waiting packets, every DUP_TIME and all traffic of the      *)
(* profiles.  The duplicate filter and the sensor table are treated apart  *)
(* from the record of the power line: no C function joins them.            *)
(***************************************************************************)
EXTENDS X10Station, NaturalSets, SequenceTheorems

-----------------------------------------------------------------------------
(* The duplicate filter.                                                   *)

Entries(p) == {Unused} \cup {Entry(fr, left) : fr \in p.rf, left \in Expired .. DupTime}
Tables(p)  == [1 .. DupMax -> Entries(p)]
Ages(p)    == [p.rf -> 0 .. DupTime + 1]

(* Frames that passed no earlier than g.                                   *)
Later(since, p, g) == {x \in p.rf \ {g} : since[x] <= since[g]}

(* An entry counts down exactly as its frame ages, no frame has two, and a *)
(* frame that was forgotten early made room.                               *)
FilterOK(dups, since, p) ==
  /\ \A i \in 1 .. DupMax : dups[i].used =>
       dups[i].frame \in p.rf /\ dups[i].left = DupTime - since[dups[i].frame]
  /\ \A i, j \in 1 .. DupMax :
       dups[i].used /\ dups[j].used /\ dups[i].frame = dups[j].frame => i = j
  /\ \A g \in p.rf : since[g] <= DupTime /\ ~is_dup(dups, g) =>
       Cardinality(Later(since, p, g)) >= DupMax

(* An entry's fields.                                                      *)
LEMMA EntryFields ==
  ASSUME NEW p \in Profiles, NEW e \in Entries(p)
  PROVE  /\ e.used \in BOOLEAN
         /\ e.used => e.frame \in p.rf /\ e.left \in Expired .. DupTime
                      /\ e = Entry(e.frame, e.left)
         /\ ~e.used => e = Unused
<1>1. CASE e = Unused
  BY <1>1 DEF Unused
<1>2. CASE e # Unused
  <2>1. PICK fr \in p.rf, left \in Expired .. DupTime : e = Entry(fr, left)
    BY <1>2, SMT DEF Entries
  <2>2. e.used = TRUE /\ e.frame = fr /\ e.left = left
    BY <2>1 DEF Entry
  <2>3. QED
    BY <2>1, <2>2
<1>3. QED
  BY <1>1, <1>2

(* A new entry.                                                            *)
LEMMA NewEntry ==
  ASSUME NEW p \in Profiles, NEW fr \in p.rf, NEW left \in Expired .. DupTime
  PROVE  /\ Entry(fr, left) \in Entries(p)
         /\ Entry(fr, left).used = TRUE
         /\ Entry(fr, left).frame = fr /\ Entry(fr, left).left = left
<1>1. Entry(fr, left) \in Entries(p)
  BY SMT DEF Entries
<1>2. /\ Entry(fr, left).used = TRUE
      /\ Entry(fr, left).frame = fr /\ Entry(fr, left).left = left
  BY DEF Entry
<1>3. QED
  BY <1>1, <1>2

(* The minimum of a set of indices.                                        *)
LEMMA FirstOf ==
  ASSUME NEW S \in SUBSET (1 .. DupMax), S # {}
  PROVE  First(S) \in S
<1>1. S \in SUBSET Nat
  BY DupAssumption
<1>2. QED
  BY <1>1, Least DEF First

(* The scan of dup_filter(): what it marks unused had expired, so that it  *)
(* forgets nothing that is still to be swallowed.                          *)
LEMMA Swept ==
  ASSUME NEW p \in Profiles, NEW dups \in Tables(p), NEW fr
  PROVE  LET rest == swept(dups, fr)
         IN  /\ rest \in Tables(p)
             /\ \A i \in 1 .. DupMax : rest[i] = dups[i] \/ ~rest[i].used
             /\ \A i \in 1 .. DupMax :
                  dups[i].used /\ dups[i].left # Expired => rest[i] = dups[i]
             /\ \A i \in 1 .. DupMax :
                  dups[i].used /\ dups[i].frame = fr => rest[i] = dups[i]
             /\ \A g : is_dup(rest, g) <=> is_dup(dups, g)
<1> DEFINE rest == swept(dups, fr)
           gone(i) == /\ dups[i].used /\ dups[i].left = Expired
                      /\ dups[i].frame # fr
                      /\ \A m \in Match(dups, fr) : i < m
<1>1. rest = [i \in 1 .. DupMax |-> IF gone(i) THEN Unused ELSE dups[i]]
  BY DEF swept
<1>2. Unused \in Entries(p) /\ ~Unused.used
  BY DEF Entries, Unused
<1>3. \A i \in 1 .. DupMax : dups[i] \in Entries(p)
  BY DEF Tables
<1>4. rest \in Tables(p)
  <2> HIDE DEF gone
  <2>1. QED
    BY <1>1, <1>2, <1>3 DEF Tables
<1>5. \A i \in 1 .. DupMax : rest[i] = IF gone(i) THEN Unused ELSE dups[i]
  BY <1>1
<1> HIDE DEF rest
<1>6. \A i \in 1 .. DupMax : /\ rest[i] = dups[i] \/ (gone(i) /\ rest[i] = Unused)
                             /\ ~gone(i) => rest[i] = dups[i]
  <2> HIDE DEF gone
  <2>1. QED
    BY <1>5
<1>7. \A i \in 1 .. DupMax : dups[i].used /\ dups[i].left # Expired => rest[i] = dups[i]
  BY <1>6
<1>8. \A i \in 1 .. DupMax : dups[i].used /\ dups[i].frame = fr => rest[i] = dups[i]
  BY <1>6
<1>9. \A i \in 1 .. DupMax : rest[i] = dups[i] \/ ~rest[i].used
  BY <1>6, <1>2
<1>10. \A g : is_dup(rest, g) <=> is_dup(dups, g)
  BY <1>7, <1>9 DEF is_dup, Match
<1>11. QED
  BY <1>4, <1>7, <1>8, <1>9, <1>10 DEF rest

(* A sweep keeps what the filter promises.                                 *)
LEMMA SweptOK ==
  ASSUME NEW p \in Profiles, NEW dups \in Tables(p), NEW since \in Ages(p),
         FilterOK(dups, since, p), NEW fr
  PROVE  FilterOK(swept(dups, fr), since, p)
<1> DEFINE rest == swept(dups, fr)
<1>1. /\ \A i \in 1 .. DupMax : rest[i] = dups[i] \/ ~rest[i].used
      /\ \A g : is_dup(rest, g) <=> is_dup(dups, g)
  BY Swept
<1> HIDE DEF rest
<1>2. \A i \in 1 .. DupMax : rest[i].used =>
        rest[i].frame \in p.rf /\ rest[i].left = DupTime - since[rest[i].frame]
  BY <1>1 DEF FilterOK
<1>3. \A i, j \in 1 .. DupMax :
        rest[i].used /\ rest[j].used /\ rest[i].frame = rest[j].frame => i = j
  <2>1. \A i \in 1 .. DupMax : rest[i].used => rest[i] = dups[i]
    BY <1>1
  <2>2. QED
    BY <2>1 DEF FilterOK
<1>4. \A g \in p.rf : since[g] <= DupTime /\ ~is_dup(rest, g) =>
        Cardinality(Later(since, p, g)) >= DupMax
  BY <1>1 DEF FilterOK
<1>5. QED
  BY <1>2, <1>3, <1>4 DEF FilterOK, rest

(* Frames that age no faster than g stay among those that passed no        *)
(* earlier.                                                                *)
LEMMA LaterGrows ==
  ASSUME NEW p \in Profiles, NEW g \in p.rf, NEW since \in Ages(p), NEW next \in Ages(p),
         \A x \in p.rf : since[x] <= since[g] => next[x] <= next[g],
         Cardinality(Later(since, p, g)) >= DupMax
  PROVE  Cardinality(Later(next, p, g)) >= DupMax
<1>1. IsFiniteSet(p.rf)
  BY StationAssumption
<1>2. Later(next, p, g) \in SUBSET p.rf /\ Later(since, p, g) \in SUBSET Later(next, p, g)
  BY DEF Later
<1>3. IsFiniteSet(Later(next, p, g))
  BY <1>1, <1>2, FS_Subset
<1>4. /\ IsFiniteSet(Later(since, p, g))
      /\ Cardinality(Later(since, p, g)) <= Cardinality(Later(next, p, g))
  BY <1>2, <1>3, FS_Subset
<1>5. Cardinality(Later(since, p, g)) \in Nat /\ Cardinality(Later(next, p, g)) \in Nat
  BY <1>3, <1>4, FS_CardinalityType
<1>6. QED
  BY <1>4, <1>5, DupAssumption

(* The entry that is replaced when the table is full belongs to the frame  *)
(* that passed first: all others and the new frame have passed since.      *)
LEMMA Evicted ==
  ASSUME NEW p \in Profiles, NEW rest \in Tables(p), NEW since \in Ages(p),
         FilterOK(rest, since, p), NEW fr \in p.rf,
         \A i \in 1 .. DupMax : rest[i].used /\ rest[i].frame # fr,
         NEW e \in 1 .. DupMax, \A j \in 1 .. DupMax : rest[e].left <= rest[j].left
  PROVE  Cardinality(Later([since EXCEPT ![fr] = 0], p, rest[e].frame)) >= DupMax
<1> DEFINE g == rest[e].frame
           next == [since EXCEPT ![fr] = 0]
           S == Later(next, p, g)
           f == [j \in 1 .. DupMax |-> IF j = e THEN fr ELSE rest[j].frame]
<1>1. SUFFICES ASSUME ~(Cardinality(S) >= DupMax)
               PROVE  FALSE
  OBVIOUS
<1>2. /\ \A j \in 1 .. DupMax : rest[j].frame \in p.rf
                              /\ rest[j].left = DupTime - since[rest[j].frame]
      /\ \A i, j \in 1 .. DupMax : rest[i].frame = rest[j].frame => i = j
  BY DEF FilterOK
<1>3. /\ \A x \in p.rf : since[x] \in 0 .. DupTime + 1 /\ next[x] = IF x = fr THEN 0 ELSE since[x]
      /\ DupTime \in Nat /\ DupMax \in Nat
  BY DupAssumption DEF Ages
<1> HIDE DEF next
<1>4. \A j \in 1 .. DupMax : f[j] \in S
  <2>1. TAKE j \in 1 .. DupMax
  <2>2. g \in p.rf /\ g # fr /\ next[g] = since[g] /\ since[g] \in Nat
    BY <1>2, <1>3
  <2>3. CASE j = e
    BY <2>2, <2>3, <1>3 DEF Later
  <2>4. CASE j # e
    <3>1. f[j] = rest[j].frame /\ rest[j].frame # g /\ rest[j].frame # fr /\ rest[j].frame \in p.rf
      BY <2>4, <1>2
    <3>2. rest[e].left = DupTime - since[g] /\ rest[j].left = DupTime - since[rest[j].frame]
      BY <1>2
    <3>3. rest[e].left <= rest[j].left
      OBVIOUS
    <3>4. since[rest[j].frame] <= since[g]
      BY <3>1, <3>2, <3>3, <2>2, <1>3
    <3>5. next[rest[j].frame] <= next[g]
      BY <3>1, <3>4, <2>2, <1>3
    <3>6. QED
      BY <3>1, <3>5 DEF Later
  <2>5. QED
    BY <2>3, <2>4
<1>5. f \in [1 .. DupMax -> S]
  <2> HIDE DEF S
  <2>1. \A j \in 1 .. DupMax : (IF j = e THEN fr ELSE rest[j].frame) \in S
    BY <1>4
  <2>2. QED
    BY <2>1
<1>6. IsFiniteSet(S) /\ Cardinality(S) \in Nat
  <2>1. S \in SUBSET p.rf /\ IsFiniteSet(p.rf)
    BY StationAssumption DEF Later
  <2> HIDE DEF S
  <2>2. QED
    BY <2>1, FS_Subset, FS_CardinalityType
<1>7. IsFiniteSet(1 .. DupMax) /\ Cardinality(1 .. DupMax) = DupMax
  <2>1. 1 \in Int /\ DupMax \in Int /\ ~(1 > DupMax) /\ DupMax - 1 + 1 = DupMax
    BY DupAssumption
  <2>2. QED
    BY <2>1, FS_Interval
<1>8. Cardinality(S) < Cardinality(1 .. DupMax)
  BY <1>1, <1>3, <1>6, <1>7
<1> HIDE DEF S, f, g
<1>9. \E x, y \in 1 .. DupMax : x # y /\ f[x] = f[y]
  BY <1>5, <1>6, <1>7, <1>8, FS_PigeonHole
<1>10. PICK x, y \in 1 .. DupMax : x # y /\ f[x] = f[y]
  BY <1>9
<1>11. QED
  BY <1>2, <1>10 DEF f

(* A frame that passes gets an entry with all of its time.                 *)
LEMMA FilterPass ==
  ASSUME NEW p \in Profiles, NEW dups \in Tables(p), NEW since \in Ages(p),
         FilterOK(dups, since, p), NEW fr \in p.rf, ~is_dup(dups, fr)
  PROVE  /\ dup_filter(dups, fr) \in Tables(p)
         /\ [since EXCEPT ![fr] = 0] \in Ages(p)
         /\ FilterOK(dup_filter(dups, fr), [since EXCEPT ![fr] = 0], p)
<1> DEFINE rest == swept(dups, fr)
           m    == Match(dups, fr)
           at   == IF m # {} THEN First(m) ELSE add_index(rest)
           new  == [rest EXCEPT ![at] = Entry(fr, DupTime)]
           next == [since EXCEPT ![fr] = 0]
           closest == {i \in 1 .. DupMax : \A j \in 1 .. DupMax : rest[i].left <= rest[j].left}
<1>1. dup_filter(dups, fr) = new
  BY DEF dup_filter
<1>2. /\ rest \in Tables(p)
      /\ \A i \in 1 .. DupMax : rest[i] = dups[i] \/ ~rest[i].used
      /\ \A i \in 1 .. DupMax : dups[i].used /\ dups[i].frame = fr => rest[i] = dups[i]
      /\ \A g : is_dup(rest, g) <=> is_dup(dups, g)
      /\ FilterOK(rest, since, p)
  BY Swept, SweptOK
<1>3. DupTime \in Nat /\ DupMax \in Nat \ {0}
  BY DupAssumption
<1>4. /\ next \in Ages(p)
      /\ \A x \in p.rf : since[x] \in 0 .. DupTime + 1 /\ next[x] = IF x = fr THEN 0 ELSE since[x]
  BY <1>3 DEF Ages
<1> HIDE DEF rest, next
<1>5. \A i \in 1 .. DupMax : /\ rest[i] \in Entries(p) /\ rest[i].used \in BOOLEAN
                             /\ rest[i].used => rest[i].left \in Expired .. DupTime
  BY <1>2, EntryFields DEF Tables
<1>6. m \in SUBSET (1 .. DupMax)
  BY DEF Match
<1>7. /\ at \in 1 .. DupMax
      /\ m # {} => rest[at].used /\ rest[at].frame = fr
      /\ m = {} => \A i \in 1 .. DupMax : rest[i].used => rest[i].frame # fr
      /\ m = {} => \/ ~rest[at].used
                   \/ /\ \A i \in 1 .. DupMax : rest[i].used
                      /\ \A j \in 1 .. DupMax : rest[at].left <= rest[j].left
  <2>1. CASE m # {}
    <3>1. at \in m
      BY <2>1, <1>6, FirstOf
    <3>2. QED
      BY <2>1, <3>1, <1>2 DEF Match
  <2>2. CASE m = {}
    <3> DEFINE free == {i \in 1 .. DupMax : ~rest[i].used}
    <3>1. at = IF free # {} THEN First(free) ELSE First(closest)
      BY <2>2 DEF add_index
    <3>2. \A i \in 1 .. DupMax : rest[i].used => rest[i].frame # fr
      BY <2>2, <1>2 DEF Match
    <3>3. CASE free # {}
      <4>1. at \in free
        <5>1. free \in SUBSET (1 .. DupMax)
          OBVIOUS
        <5> HIDE DEF free
        <5>2. QED
          BY <3>1, <3>3, <5>1, FirstOf
      <4>2. QED
        BY <2>2, <3>2, <4>1
    <3>4. CASE free = {}
      <4>1. \A i \in 1 .. DupMax : rest[i].used
        BY <3>4
      <4>2. closest # {}
        <5> DEFINE T == {rest[i].left + 1 : i \in 1 .. DupMax}
        <5>1. T \in SUBSET Nat /\ T # {}
          BY <4>1, <1>3, <1>5 DEF Expired
        <5>2. PICK n \in T : \A k \in T : n <= k
          BY <5>1, Least
        <5>3. PICK i \in 1 .. DupMax : n = rest[i].left + 1
          BY <5>2
        <5>4. \A j \in 1 .. DupMax : rest[i].left + 1 <= rest[j].left + 1
          BY <5>2, <5>3
        <5>5. \A j \in 1 .. DupMax : rest[i].left <= rest[j].left
          BY <4>1, <5>3, <5>4, <1>3, <1>5 DEF Expired
        <5>6. QED
          BY <5>5
      <4>3. at \in closest
        <5>1. closest \in SUBSET (1 .. DupMax)
          OBVIOUS
        <5> HIDE DEF closest
        <5>2. QED
          BY <3>1, <3>4, <4>2, <5>1, FirstOf
      <4>4. QED
        BY <2>2, <3>2, <4>1, <4>3
    <3>5. QED
      BY <3>3, <3>4
  <2>3. QED
    BY <2>1, <2>2
<1> HIDE DEF at, m
<1>8. /\ new \in Tables(p)
      /\ \A i \in 1 .. DupMax : new[i] = IF i = at THEN Entry(fr, DupTime) ELSE rest[i]
      /\ Entry(fr, DupTime).used /\ Entry(fr, DupTime).frame = fr
      /\ Entry(fr, DupTime).left = DupTime
  <2>1. DupTime \in Expired .. DupTime
    BY <1>3 DEF Expired
  <2> DEFINE entry == Entry(fr, DupTime)
  <2>2. entry \in Entries(p) /\ entry.used /\ entry.frame = fr /\ entry.left = DupTime
    BY <2>1, NewEntry
  <2> HIDE DEF entry
  <2>3. /\ new = [rest EXCEPT ![at] = entry]
        /\ rest \in [1 .. DupMax -> Entries(p)]
    BY <1>2 DEF Tables, entry
  <2> HIDE DEF new
  <2>4. new \in Tables(p) /\ \A i \in 1 .. DupMax : new[i] = IF i = at THEN entry ELSE rest[i]
    BY <2>2, <2>3 DEF Tables
  <2>5. QED
    BY <2>2, <2>4 DEF entry
<1> HIDE DEF new
<1>9. \A i \in 1 .. DupMax : i # at /\ rest[i].used => rest[i].frame # fr
  <2>1. CASE m = {}
    BY <2>1, <1>7
  <2>2. CASE m # {}
    BY <2>2, <1>2, <1>7 DEF FilterOK
  <2>3. QED
    BY <2>1, <2>2
<1>10. \A i \in 1 .. DupMax : new[i].used =>
         new[i].frame \in p.rf /\ new[i].left = DupTime - next[new[i].frame]
  <2>1. SUFFICES ASSUME NEW i \in 1 .. DupMax, new[i].used
                 PROVE  new[i].frame \in p.rf /\ new[i].left = DupTime - next[new[i].frame]
    OBVIOUS
  <2>2. CASE i = at
    BY <1>3, <1>4, <1>8, <2>2
  <2>3. CASE i # at
    <3>1. new[i] = rest[i] /\ rest[i].frame # fr
      BY <1>8, <1>9, <2>1, <2>3
    <3>2. rest[i].frame \in p.rf /\ rest[i].left = DupTime - since[rest[i].frame]
      BY <1>2, <2>1, <3>1 DEF FilterOK
    <3>3. QED
      BY <1>4, <3>1, <3>2
  <2>4. QED
    BY <2>2, <2>3
<1>11. \A i, j \in 1 .. DupMax :
         new[i].used /\ new[j].used /\ new[i].frame = new[j].frame => i = j
  <2>1. SUFFICES ASSUME NEW i \in 1 .. DupMax, NEW j \in 1 .. DupMax,
                        new[i].used, new[j].used, new[i].frame = new[j].frame, i # j
                 PROVE  FALSE
    OBVIOUS
  <2>2. CASE i = at
    BY <1>8, <1>9, <2>1, <2>2
  <2>3. CASE j = at
    BY <1>8, <1>9, <2>1, <2>3
  <2>4. CASE i # at /\ j # at
    <3>1. new[i] = rest[i] /\ new[j] = rest[j]
      BY <1>8, <2>4
    <3>2. QED
      BY <1>2, <2>1, <3>1 DEF FilterOK
  <2>5. QED
    BY <2>2, <2>3, <2>4
<1>12. \A g \in p.rf : next[g] <= DupTime /\ ~is_dup(new, g) =>
         Cardinality(Later(next, p, g)) >= DupMax
  <2>1. SUFFICES ASSUME NEW g \in p.rf, next[g] <= DupTime, ~is_dup(new, g)
                 PROVE  Cardinality(Later(next, p, g)) >= DupMax
    OBVIOUS
  <2>2. g # fr
    <3>1. SUFFICES ASSUME g = fr PROVE FALSE
      OBVIOUS
    <3>2. DupTime # Expired
      BY <1>3 DEF Expired
    <3>3. new[at] = Entry(fr, DupTime)
      BY <1>7, <1>8
    <3>4. at \in Match(new, fr) /\ new[at].left # Expired
      BY <1>7, <1>8, <3>2, <3>3 DEF Match
    <3>5. QED
      BY <2>1, <3>1, <3>4 DEF is_dup
  <2>3. next[g] = since[g]
    BY <1>4, <2>2
  <2>4. CASE ~is_dup(rest, g)
    <3>1. Cardinality(Later(since, p, g)) >= DupMax
      BY <1>2, <2>1, <2>3, <2>4 DEF FilterOK
    <3>2. \A x \in p.rf : since[x] <= since[g] => next[x] <= next[g]
      BY <1>4, <2>2, <2>3
    <3>3. QED
      BY <1>4, <3>1, <3>2, LaterGrows
  <2>5. CASE is_dup(rest, g)
    <3>1. PICK e \in 1 .. DupMax : rest[e].used /\ rest[e].frame = g /\ rest[e].left # Expired
      BY <2>5 DEF is_dup, Match
    <3>2. e = at
      <4>1. SUFFICES ASSUME e # at PROVE FALSE
        OBVIOUS
      <4>2. new[e] = rest[e]
        BY <1>8, <4>1
      <4>3. e \in Match(new, g) /\ new[e].left # Expired
        BY <3>1, <4>2 DEF Match
      <4>4. QED
        BY <2>1, <4>3 DEF is_dup
    <3>3. m = {}
      BY <1>7, <2>2, <3>1, <3>2
    <3>4. /\ \A i \in 1 .. DupMax : rest[i].used /\ rest[i].frame # fr
          /\ \A j \in 1 .. DupMax : rest[e].left <= rest[j].left
      BY <1>7, <3>1, <3>2, <3>3
    <3>5. Cardinality(Later([since EXCEPT ![fr] = 0], p, rest[e].frame)) >= DupMax
      BY <1>2, <3>4, Evicted
    <3>6. QED
      BY <3>1, <3>5 DEF next
  <2>6. QED
    BY <2>4, <2>5
<1>13. FilterOK(new, next, p)
  BY <1>10, <1>11, <1>12 DEF FilterOK
<1>14. QED
  BY <1>1, <1>4, <1>8, <1>13 DEF next

(* A tick of the clock brings each entry as much nearer to its end as its  *)
(* frame ages.                                                             *)
Aged(since, p) == [fr \in p.rf |-> IF since[fr] > DupTime THEN since[fr] ELSE since[fr] + 1]

(* The filter keeps its promise as the clock advances.                     *)
LEMMA FilterTick ==
  ASSUME NEW p \in Profiles, NEW dups \in Tables(p), NEW since \in Ages(p),
         FilterOK(dups, since, p)
  PROVE  /\ tick(dups) \in Tables(p) /\ Aged(since, p) \in Ages(p)
         /\ FilterOK(tick(dups), Aged(since, p), p)
<1> DEFINE new == tick(dups)
           next == Aged(since, p)
<1>1. DupTime \in Nat /\ \A x \in p.rf : since[x] \in 0 .. DupTime + 1
  BY DupAssumption DEF Ages
<1>2. /\ next \in Ages(p)
      /\ \A x \in p.rf : next[x] = IF since[x] > DupTime THEN since[x] ELSE since[x] + 1
  <2>1. \A x \in p.rf : (IF since[x] > DupTime THEN since[x] ELSE since[x] + 1) \in 0 .. DupTime + 1
    BY <1>1
  <2>2. QED
    BY <2>1 DEF Ages, Aged
<1>3. \A i \in 1 .. DupMax : /\ dups[i] \in Entries(p)
                             /\ dups[i].used \in BOOLEAN
                             /\ dups[i].used => dups[i].left \in Expired .. DupTime
                                                /\ dups[i].frame \in p.rf
  BY EntryFields DEF Tables
<1>4. \A i \in 1 .. DupMax :
        /\ new[i] \in Entries(p)
        /\ new[i].used = dups[i].used
        /\ new[i].used => /\ new[i].frame = dups[i].frame
                          /\ new[i].left = IF dups[i].left # Expired THEN dups[i].left - 1
                                                                      ELSE dups[i].left
  <2>1. SUFFICES ASSUME NEW i \in 1 .. DupMax
                 PROVE  /\ new[i] \in Entries(p)
                        /\ new[i].used = dups[i].used
                        /\ new[i].used => /\ new[i].frame = dups[i].frame
                                          /\ new[i].left = IF dups[i].left # Expired
                                               THEN dups[i].left - 1 ELSE dups[i].left
    OBVIOUS
  <2>2. CASE dups[i].used /\ dups[i].left # Expired
    <3>1. new[i] = Entry(dups[i].frame, dups[i].left - 1)
      BY <2>2 DEF tick
    <3>2. dups[i].left - 1 \in Expired .. DupTime /\ dups[i].frame \in p.rf
      BY <1>1, <1>3, <2>2 DEF Expired
    <3> HIDE DEF new
    <3> DEFINE fr == dups[i].frame
               left == dups[i].left - 1
    <3>3. fr \in p.rf /\ left \in Expired .. DupTime /\ new[i] = Entry(fr, left)
      BY <3>1, <3>2
    <3> HIDE DEF fr, left
    <3>4. /\ Entry(fr, left) \in Entries(p) /\ Entry(fr, left).used = TRUE
          /\ Entry(fr, left).frame = fr /\ Entry(fr, left).left = left
      BY <3>3, NewEntry
    <3>5. /\ new[i] \in Entries(p) /\ new[i].used = TRUE
          /\ new[i].frame = fr /\ new[i].left = left
      BY <3>3, <3>4, Zenon
    <3>6. QED
      BY <2>2, <3>5, <1>3 DEF fr, left
  <2>3. CASE ~(dups[i].used /\ dups[i].left # Expired)
    <3>1. new[i] = dups[i]
      BY <2>3 DEF tick
    <3> HIDE DEF new
    <3>2. QED
      BY <2>3, <3>1, <1>3
  <2>4. QED
    BY <2>2, <2>3
<1>5. new \in Tables(p)
  <2>1. new = [i \in 1 .. DupMax |-> new[i]]
    BY DEF tick
  <2> HIDE DEF new
  <2>2. QED
    BY <1>4, <2>1 DEF Tables
<1> HIDE DEF new, next
<1>6. \A i \in 1 .. DupMax : new[i].used =>
        new[i].frame \in p.rf /\ new[i].left = DupTime - next[new[i].frame]
  <2>1. SUFFICES ASSUME NEW i \in 1 .. DupMax, new[i].used
                 PROVE  new[i].frame \in p.rf /\ new[i].left = DupTime - next[new[i].frame]
    OBVIOUS
  <2>2. /\ dups[i].used /\ dups[i].frame \in p.rf /\ new[i].frame = dups[i].frame
        /\ dups[i].left = DupTime - since[dups[i].frame]
    BY <1>4, <2>1 DEF FilterOK
  <2>3. /\ next[dups[i].frame] = IF since[dups[i].frame] > DupTime
             THEN since[dups[i].frame] ELSE since[dups[i].frame] + 1
        /\ since[dups[i].frame] \in 0 .. DupTime + 1
    BY <1>1, <1>2, <2>2
  <2>4. new[i].left = IF dups[i].left # -1 THEN dups[i].left - 1 ELSE dups[i].left
    BY <1>4, <2>1 DEF Expired
  <2>5. QED
    BY <1>1, <2>2, <2>3, <2>4
<1>7. \A i, j \in 1 .. DupMax :
        new[i].used /\ new[j].used /\ new[i].frame = new[j].frame => i = j
  BY <1>4 DEF FilterOK
<1>8. \A g \in p.rf : next[g] <= DupTime /\ ~is_dup(new, g) =>
        Cardinality(Later(next, p, g)) >= DupMax
  <2>1. SUFFICES ASSUME NEW g \in p.rf, next[g] <= DupTime, ~is_dup(new, g)
                 PROVE  Cardinality(Later(next, p, g)) >= DupMax
    OBVIOUS
  <2>2. since[g] + 1 <= DupTime /\ next[g] = since[g] + 1 /\ since[g] \in Nat
    BY <1>1, <1>2, <2>1
  <2>3. ~is_dup(dups, g)
    <3>1. SUFFICES ASSUME NEW i \in 1 .. DupMax, dups[i].used, dups[i].frame = g
                   PROVE  dups[i].left = Expired
      BY DEF is_dup, Match
    <3>2. dups[i].left = DupTime - since[g]
      BY <3>1 DEF FilterOK
    <3>3. new[i].used /\ new[i].frame = g
          /\ new[i].left = IF dups[i].left # -1 THEN dups[i].left - 1 ELSE dups[i].left
      BY <1>4, <3>1 DEF Expired
    <3>4. new[i].left = Expired
      BY <2>1, <3>3 DEF is_dup, Match
    <3>5. QED
      BY <1>1, <2>2, <3>2, <3>3, <3>4 DEF Expired
  <2>4. Cardinality(Later(since, p, g)) >= DupMax
    BY <1>1, <2>2, <2>3 DEF FilterOK
  <2>5. \A x \in p.rf : since[x] <= since[g] => next[x] <= next[g]
    BY <1>1, <1>2, <2>2
  <2>6. QED
    BY <1>2, <2>4, <2>5, LaterGrows
<1>9. FilterOK(new, next, p)
  BY <1>6, <1>7, <1>8 DEF FilterOK
<1>10. QED
  BY <1>2, <1>5, <1>9 DEF new, next

-----------------------------------------------------------------------------
(* The sensor table.                                                       *)

SensorsOf(p) == {fr.sensor : fr \in {f \in p.rf : f.kind = "sec"}}
Records      == [addr : Int, short : BOOLEAN, status : 0 .. 255]
Heards(p)    == [SensorsOf(p) -> -1 .. 255]

Spoke(heard, p) == {x \in SensorsOf(p) : heard[x] # -1}
Addrs(heard, p) == {x.addr : x \in Spoke(heard, p)}

(* The only sensor of its address that has spoken.                         *)
Alone(heard, p, x) == \A y \in Spoke(heard, p) : y.addr = x.addr => y = x

(* Each record is of another address that has been heard; until there were *)
(* too many, each address has one; and a sensor that shares its address    *)
(* with no other finds its last status there.                              *)
SensorsOK(sensors, heard, p) ==
  /\ Len(sensors) < MaxSensors
  /\ \A i, j \in 1 .. Len(sensors) : sensors[i].addr = sensors[j].addr => i = j
  /\ \A i \in 1 .. Len(sensors) : sensors[i].addr \in Addrs(heard, p)
  /\ Cardinality(Addrs(heard, p)) < MaxSensors =>
       \A a \in Addrs(heard, p) : \E i \in 1 .. Len(sensors) : sensors[i].addr = a
  /\ \A x \in Spoke(heard, p) : Alone(heard, p, x) =>
       \A i \in 1 .. Len(sensors) : sensors[i].addr = x.addr =>
         sensors[i].short = x.short /\ sensors[i].status = heard[x]

(* Sensors have an address and a kind, and there are finitely many.        *)
LEMMA SensorTypes ==
  ASSUME NEW p \in Profiles
  PROVE  SensorsOf(p) \subseteq [addr : Int, short : BOOLEAN]
<1>1. SUFFICES ASSUME NEW fr \in p.rf, fr.kind = "sec"
               PROVE  fr.sensor \in [addr : Int, short : BOOLEAN]
  BY DEF SensorsOf
<1>2. IsFrame(fr)
  BY StationAssumption
<1>3. fr # DimFrame(fr.mark) /\ fr # CamFrame(fr.mark)
  BY <1>1 DEF DimFrame, CamFrame
<1>4. \A u \in Units, power \in Power : fr # UnitFrame(fr.mark, u, power)
  BY <1>1 DEF UnitFrame
<1>5. QED
  BY <1>2, <1>3, <1>4 DEF IsFrame

(* Only finitely many addresses have been heard.                           *)
LEMMA AddrsFinite ==
  ASSUME NEW p \in Profiles, NEW heard
  PROVE  IsFiniteSet(Addrs(heard, p)) /\ Cardinality(Addrs(heard, p)) \in Nat
<1> DEFINE S == {fr \in p.rf : fr.kind = "sec"}
           T == {fr.sensor.addr : fr \in S}
           f == [fr \in S |-> fr.sensor.addr]
<1>1. IsFiniteSet(S)
  <2>1. IsFiniteSet(p.rf) /\ S \in SUBSET p.rf
    BY StationAssumption
  <2> HIDE DEF S
  <2>2. QED
    BY <2>1, FS_Subset
<1>2. f \in Surjection(S, T)
  BY DEF Surjection
<1>3. IsFiniteSet(T)
  <2> HIDE DEF S, T, f
  <2>1. QED
    BY <1>1, <1>2, FS_Surjection
<1>4. Addrs(heard, p) \in SUBSET T
  BY DEF Addrs, Spoke, SensorsOf
<1> HIDE DEF T
<1>5. IsFiniteSet(Addrs(heard, p))
  BY <1>3, <1>4, FS_Subset
<1>6. QED
  BY <1>5, FS_CardinalityType

(* More records than addresses there cannot be.                            *)
LEMMA NoRoom ==
  ASSUME NEW p \in Profiles, NEW heard, NEW n \in Nat, NEW a \in [1 .. n -> Addrs(heard, p)],
         \A i, j \in 1 .. n : a[i] = a[j] => i = j
  PROVE  n <= Cardinality(Addrs(heard, p))
<1>1. IsFiniteSet(Addrs(heard, p)) /\ Cardinality(Addrs(heard, p)) \in Nat
  BY AddrsFinite
<1>2. IsFiniteSet(1 .. n) /\ Cardinality(1 .. n) = n
  <2>1. /\ IsFiniteSet(1 .. n)
        /\ Cardinality(1 .. n) = IF 1 > n THEN 0 ELSE n - 1 + 1
    BY FS_Interval
  <2>2. QED
    BY <2>1
<1>3. SUFFICES ASSUME Cardinality(Addrs(heard, p)) < Cardinality(1 .. n)
               PROVE  FALSE
  BY <1>1, <1>2
<1>4. \E x, y \in 1 .. n : x # y /\ a[x] = a[y]
  BY <1>1, <1>2, <1>3, FS_PigeonHole
<1>5. QED
  BY <1>4

(* hua_sec_event(): a sensor speaks.                                       *)
LEMMA SecEvent ==
  ASSUME NEW p \in Profiles, NEW sensors \in Seq(Records), NEW heard \in Heards(p),
         SensorsOK(sensors, heard, p), NEW x \in SensorsOf(p), NEW status \in 0 .. 255
  PROVE  LET new  == hua_sec_event(sensors, x.addr, x.short, status)
             next == [heard EXCEPT ![x] = status]
         IN  new \in Seq(Records) /\ next \in Heards(p) /\ SensorsOK(new, next, p)
<1> DEFINE new  == hua_sec_event(sensors, x.addr, x.short, status)
           next == [heard EXCEPT ![x] = status]
           n    == Len(sensors)
<1>1. /\ next \in Heards(p) /\ status # -1
      /\ \A y \in SensorsOf(p) : next[y] = IF y = x THEN status ELSE heard[y]
  BY DEF Heards
<1> HIDE DEF next
<1>2. /\ Spoke(next, p) = Spoke(heard, p) \cup {x}
      /\ Addrs(next, p) = Addrs(heard, p) \cup {x.addr}
  <2>1. Spoke(next, p) = Spoke(heard, p) \cup {x}
    BY <1>1 DEF Spoke
  <2>2. QED
    BY <2>1 DEF Addrs
<1>3. /\ n \in Nat /\ \A i \in 1 .. n : sensors[i] \in Records
      /\ x.addr \in Int /\ x.short \in BOOLEAN /\ MaxSensors \in Nat
  BY SensorTypes, StateAssumption
<1>4. \A y : Alone(next, p, y) => Alone(heard, p, y) /\ (y.addr = x.addr => x = y)
  BY <1>2 DEF Alone
<1>5. Cardinality(Addrs(next, p)) < MaxSensors => Cardinality(Addrs(heard, p)) < MaxSensors
  <2>1. /\ IsFiniteSet(Addrs(next, p)) /\ Cardinality(Addrs(next, p)) \in Nat
        /\ Cardinality(Addrs(heard, p)) \in Nat
    BY AddrsFinite
  <2>2. Addrs(heard, p) \in SUBSET Addrs(next, p)
    BY <1>2
  <2>3. Cardinality(Addrs(heard, p)) <= Cardinality(Addrs(next, p))
    BY <2>1, <2>2, FS_Subset
  <2>4. QED
    BY <1>3, <2>1, <2>3
<1>6. /\ n < MaxSensors
      /\ \A i, j \in 1 .. n : sensors[i].addr = sensors[j].addr => i = j
      /\ \A i \in 1 .. n : sensors[i].addr \in Addrs(next, p)
  BY <1>2 DEF SensorsOK
<1>7. \A y \in Spoke(next, p) : Alone(next, p, y) =>
        \A i \in 1 .. n : sensors[i].addr = y.addr =>
          /\ sensors[i].short = y.short
          /\ y # x => sensors[i].status = next[y]
  <2>1. SUFFICES ASSUME NEW y \in Spoke(next, p), Alone(next, p, y),
                        NEW i \in 1 .. n, sensors[i].addr = y.addr
                 PROVE  /\ sensors[i].short = y.short
                        /\ y # x => sensors[i].status = next[y]
    OBVIOUS
  <2>2. Alone(heard, p, y)
    BY <1>4, <2>1
  <2>3. y \in Spoke(heard, p)
    <3>1. PICK z \in Spoke(heard, p) : z.addr = sensors[i].addr
      BY <2>1 DEF SensorsOK, Addrs
    <3>2. z = y
      BY <1>2, <2>1, <3>1 DEF Alone
    <3>3. QED
      BY <3>1, <3>2
  <2>4. sensors[i].short = y.short /\ sensors[i].status = heard[y]
    BY <2>1, <2>2, <2>3 DEF SensorsOK
  <2>5. y \in SensorsOf(p)
    BY <2>3 DEF Spoke
  <2>6. QED
    BY <1>1, <2>4, <2>5
<1>8. CASE known(sensors, x.addr) # {}
  <2>1. new = [i \in DOMAIN sensors |->
                 IF i \in known(sensors, x.addr) THEN [sensors[i] EXCEPT !.status = status]
                                                 ELSE sensors[i]]
    BY <1>8 DEF hua_sec_event
  <2>2. /\ new \in Seq(Records) /\ Len(new) = n
        /\ \A i \in 1 .. n :
             /\ new[i].addr = sensors[i].addr /\ new[i].short = sensors[i].short
             /\ new[i].status = IF sensors[i].addr = x.addr THEN status ELSE sensors[i].status
    <3> DEFINE g(i) == IF i \in known(sensors, x.addr) THEN [sensors[i] EXCEPT !.status = status]
                                                      ELSE sensors[i]
    <3>1. \A i \in 1 .. n : /\ g(i) \in Records
                            /\ g(i).addr = sensors[i].addr /\ g(i).short = sensors[i].short
                            /\ g(i).status = IF sensors[i].addr = x.addr THEN status
                                                                         ELSE sensors[i].status
      <4>1. SUFFICES ASSUME NEW i \in 1 .. n
                     PROVE  /\ g(i) \in Records
                            /\ g(i).addr = sensors[i].addr /\ g(i).short = sensors[i].short
                            /\ g(i).status = IF sensors[i].addr = x.addr THEN status
                                                                         ELSE sensors[i].status
        OBVIOUS
      <4>2. i \in known(sensors, x.addr) <=> sensors[i].addr = x.addr
        BY DEF known
      <4>3. sensors[i] \in Records
        BY <1>3
      <4>4. QED
        BY <4>2, <4>3 DEF Records
    <3>2. new = [i \in 1 .. n |-> g(i)]
      BY <2>1
    <3> HIDE DEF g, new
    <3>3. new \in Seq(Records) /\ Len(new) = n /\ \A i \in 1 .. n : new[i] = g(i)
      BY <1>3, <3>1, <3>2
    <3>4. QED
      BY <3>1, <3>3
  <2> HIDE DEF new
  <2>3. PICK k \in 1 .. n : sensors[k].addr = x.addr
    BY <1>8 DEF known
  <2>4. Cardinality(Addrs(next, p)) < MaxSensors =>
          \A a \in Addrs(next, p) : \E i \in 1 .. n : sensors[i].addr = a
    BY <1>2, <1>5, <2>3 DEF SensorsOK
  <2>5. \A y \in Spoke(next, p) : Alone(next, p, y) =>
          \A i \in 1 .. n : new[i].addr = y.addr =>
            new[i].short = y.short /\ new[i].status = next[y]
    <3>1. SUFFICES ASSUME NEW y \in Spoke(next, p), Alone(next, p, y),
                          NEW i \in 1 .. n, new[i].addr = y.addr
                   PROVE  new[i].short = y.short /\ new[i].status = next[y]
      OBVIOUS
    <3>2. sensors[i].addr = y.addr /\ sensors[i].short = y.short
      BY <1>7, <2>2, <3>1
    <3>3. CASE y = x
      BY <1>1, <2>2, <3>2, <3>3
    <3>4. CASE y # x
      <4>1. sensors[i].addr # x.addr
        BY <1>4, <3>1, <3>2, <3>4
      <4>2. sensors[i].status = next[y]
        BY <1>7, <3>1, <3>2, <3>4
      <4>3. QED
        BY <2>2, <3>2, <4>1, <4>2
    <3>5. QED
      BY <3>3, <3>4
  <2>6. SensorsOK(new, next, p)
    BY <1>6, <2>2, <2>4, <2>5 DEF SensorsOK
  <2>7. QED
    BY <1>1, <2>2, <2>6 DEF new, next
<1>9. CASE known(sensors, x.addr) = {} /\ Len(sensors) + 1 >= MaxSensors
  <2>1. new = sensors
    BY <1>9 DEF hua_sec_event
  <2>2. \A i \in 1 .. n : sensors[i].addr # x.addr
    BY <1>9 DEF known
  <2>3. ~(Cardinality(Addrs(next, p)) < MaxSensors)
    <3> DEFINE a == [i \in 1 .. n + 1 |-> IF i = n + 1 THEN x.addr ELSE sensors[i].addr]
    <3>1. \A i \in 1 .. n + 1 : i # n + 1 => i \in 1 .. n
      BY <1>3
    <3>2. a \in [1 .. n + 1 -> Addrs(next, p)]
      BY <1>2, <1>6, <3>1
    <3>3. \A i, j \in 1 .. n + 1 : a[i] = a[j] => i = j
      BY <1>6, <2>2, <3>1
    <3>4. n + 1 \in Nat
      BY <1>3
    <3> HIDE DEF a
    <3>5. n + 1 <= Cardinality(Addrs(next, p))
      BY <3>2, <3>3, <3>4, NoRoom
    <3>6. Cardinality(Addrs(next, p)) \in Nat
      BY AddrsFinite
    <3>7. QED
      BY <1>3, <1>9, <3>5, <3>6
  <2>4. \A y \in Spoke(next, p) : Alone(next, p, y) =>
          \A i \in 1 .. n : sensors[i].addr = y.addr =>
            sensors[i].short = y.short /\ sensors[i].status = next[y]
    BY <1>7, <2>2
  <2>5. SensorsOK(sensors, next, p)
    BY <1>6, <2>3, <2>4 DEF SensorsOK
  <2>6. QED
    BY <1>1, <2>1, <2>5 DEF next
<1>10. CASE known(sensors, x.addr) = {} /\ ~(Len(sensors) + 1 >= MaxSensors)
  <2> DEFINE rec == [addr |-> x.addr, short |-> x.short, status |-> status]
  <2>1. new = Append(sensors, rec)
    BY <1>10 DEF hua_sec_event
  <2>2. rec \in Records /\ rec.addr = x.addr /\ rec.short = x.short /\ rec.status = status
    BY <1>3 DEF Records
  <2> HIDE DEF rec, new
  <2>3. /\ new \in Seq(Records) /\ Len(new) = n + 1 /\ new[n + 1] = rec
        /\ \A i \in 1 .. n : new[i] = sensors[i]
    BY <2>1, <2>2
  <2>4. \A i \in 1 .. n : sensors[i].addr # x.addr
    BY <1>10 DEF known
  <2>5. \A i \in 1 .. n + 1 : i # n + 1 => i \in 1 .. n
    BY <1>3
  <2>6. Len(new) < MaxSensors
    BY <1>3, <1>10, <2>3
  <2>7. \A i, j \in 1 .. n + 1 : new[i].addr = new[j].addr => i = j
    BY <1>6, <2>2, <2>3, <2>4, <2>5
  <2>8. \A i \in 1 .. n + 1 : new[i].addr \in Addrs(next, p)
    BY <1>2, <1>6, <2>2, <2>3, <2>5
  <2>9. Cardinality(Addrs(next, p)) < MaxSensors =>
          \A a \in Addrs(next, p) : \E i \in 1 .. n + 1 : new[i].addr = a
    <3>1. SUFFICES ASSUME Cardinality(Addrs(next, p)) < MaxSensors, NEW a \in Addrs(next, p)
                   PROVE  \E i \in 1 .. n + 1 : new[i].addr = a
      OBVIOUS
    <3>2. CASE a = x.addr
      <4>1. n + 1 \in 1 .. n + 1
        BY <1>3
      <4>2. QED
        BY <2>2, <2>3, <3>2, <4>1
    <3>3. CASE a # x.addr
      <4>1. PICK i \in 1 .. n : sensors[i].addr = a
        BY <1>2, <1>5, <3>1, <3>3 DEF SensorsOK
      <4>2. i \in 1 .. n + 1
        BY <1>3
      <4>3. QED
        BY <2>3, <4>1, <4>2
    <3>4. QED
      BY <3>2, <3>3
  <2>10. \A y \in Spoke(next, p) : Alone(next, p, y) =>
          \A i \in 1 .. n + 1 : new[i].addr = y.addr =>
            new[i].short = y.short /\ new[i].status = next[y]
    <3>1. SUFFICES ASSUME NEW y \in Spoke(next, p), Alone(next, p, y),
                          NEW i \in 1 .. n + 1, new[i].addr = y.addr
                   PROVE  new[i].short = y.short /\ new[i].status = next[y]
      OBVIOUS
    <3>2. CASE i = n + 1
      <4>1. y = x
        BY <1>4, <2>2, <2>3, <3>1, <3>2
      <4>2. QED
        BY <1>1, <2>2, <2>3, <3>2, <4>1
    <3>3. CASE i # n + 1
      <4>1. i \in 1 .. n /\ new[i] = sensors[i]
        BY <2>3, <2>5, <3>3
      <4>2. y # x
        BY <2>4, <3>1, <4>1
      <4>3. QED
        BY <1>7, <3>1, <4>1, <4>2
    <3>4. QED
      BY <3>2, <3>3
  <2>11. SensorsOK(new, next, p)
    BY <2>3, <2>6, <2>7, <2>8, <2>9, <2>10 DEF SensorsOK
  <2>12. QED
    BY <1>1, <2>3, <2>11 DEF new, next
<1>11. QED
  BY <1>8, <1>9, <1>10

(* "st": the sort of hua_show() loses no record and doubles none.          *)
LEMMA Sorted ==
  ASSUME NEW p \in Profiles, NEW sensors \in Seq(Records), NEW heard \in Heards(p),
         SensorsOK(sensors, heard, p), NEW order \in Bijection(DOMAIN sensors, DOMAIN sensors),
         LET shown == [i \in DOMAIN sensors |-> sensors[order[i]]]
         IN  \A i, j \in DOMAIN shown : i < j => shown[i].addr < shown[j].addr
  PROVE  LET shown == [i \in DOMAIN sensors |-> sensors[order[i]]]
         IN  shown \in Seq(Records) /\ SensorsOK(shown, heard, p)
<1> DEFINE shown == [i \in DOMAIN sensors |-> sensors[order[i]]]
           n == Len(sensors)
<1>1. /\ n \in Nat /\ DOMAIN sensors = 1 .. n
      /\ \A i \in 1 .. n : sensors[i] \in Records
  OBVIOUS
<1>2. /\ order \in [1 .. n -> 1 .. n]
      /\ \A w \in 1 .. n : \E v \in 1 .. n : order[v] = w
  BY <1>1 DEF Bijection, Injection, Surjection, IsInjective
<1>3. /\ \A i \in 1 .. n : shown[i] = sensors[order[i]] /\ order[i] \in 1 .. n
      /\ DOMAIN shown = 1 .. n
  BY <1>1, <1>2
<1>4. \A i, j \in 1 .. n : i < j => shown[i].addr < shown[j].addr
  BY <1>3
<1>5. shown \in Seq(Records) /\ Len(shown) = n
  <2>1. shown = [i \in 1 .. n |-> sensors[order[i]]]
    BY <1>1
  <2>2. \A i \in 1 .. n : sensors[order[i]] \in Records
    BY <1>1, <1>3
  <2> HIDE DEF shown
  <2>3. QED
    BY <1>1, <2>1, <2>2
<1> HIDE DEF shown
<1>6. \A i, j \in 1 .. n : shown[i].addr = shown[j].addr => i = j
  <2>1. \A i \in 1 .. n : shown[i].addr \in Int
    BY <1>1, <1>3 DEF Records
  <2>2. \A i, j \in 1 .. n : i = j \/ i < j \/ j < i
    BY <1>1
  <2>3. QED
    BY <1>4, <2>1, <2>2
<1>7. \A i \in 1 .. n : shown[i].addr \in Addrs(heard, p)
  BY <1>3 DEF SensorsOK
<1>8. Cardinality(Addrs(heard, p)) < MaxSensors =>
        \A a \in Addrs(heard, p) : \E i \in 1 .. n : shown[i].addr = a
  <2>1. SUFFICES ASSUME Cardinality(Addrs(heard, p)) < MaxSensors, NEW a \in Addrs(heard, p)
                 PROVE  \E i \in 1 .. n : shown[i].addr = a
    OBVIOUS
  <2>2. PICK w \in 1 .. n : sensors[w].addr = a
    BY <2>1 DEF SensorsOK
  <2>3. PICK v \in 1 .. n : order[v] = w
    BY <1>2
  <2>4. QED
    BY <1>3, <2>2, <2>3
<1>9. \A x \in Spoke(heard, p) : Alone(heard, p, x) =>
        \A i \in 1 .. n : shown[i].addr = x.addr =>
          shown[i].short = x.short /\ shown[i].status = heard[x]
  BY <1>3 DEF SensorsOK
<1>10. SensorsOK(shown, heard, p)
  BY <1>5, <1>6, <1>7, <1>8, <1>9 DEF SensorsOK
<1>11. QED
  BY <1>5, <1>10 DEF shown

(* "st 0": nothing is known of any sensor.                                 *)
LEMMA NoSensors ==
  ASSUME NEW p \in Profiles
  PROVE  /\ <<>> \in Seq(Records) /\ [x \in SensorsOf(p) |-> -1] \in Heards(p)
         /\ SensorsOK(<<>>, [x \in SensorsOf(p) |-> -1], p)
<1> DEFINE heard == [x \in SensorsOf(p) |-> -1]
<1>1. heard \in Heards(p) /\ Spoke(heard, p) = {}
  BY DEF Heards, Spoke
<1> HIDE DEF heard
<1>2. Addrs(heard, p) = {}
  BY <1>1 DEF Addrs
<1>3. Len(<<>>) = 0 /\ 0 < MaxSensors /\ \A i \in 1 .. 0 : FALSE
  BY StateAssumption
<1>4. SensorsOK(<<>>, heard, p)
  BY <1>1, <1>2, <1>3 DEF SensorsOK
<1>5. QED
  BY <1>1, <1>4 DEF heard

(* "getstatussec" after all that.                                          *)
LEMMA ReadBack ==
  ASSUME NEW p \in Profiles, NEW sensors \in Seq(Records), NEW heard \in Heards(p),
         SensorsOK(sensors, heard, p), Cardinality(Addrs(heard, p)) < MaxSensors,
         NEW x \in Spoke(heard, p), Alone(heard, p, x)
  PROVE  /\ hua_getstatus_sec(sensors, x.short, x.addr) = 1 <=> heard[x] \in Alert(x.short)
         /\ hua_getstatus_sec(sensors, x.short, x.addr) = 0 <=> heard[x] \in Normal(x.short)
<1> DEFINE reads(S) == \E i \in 1 .. Len(sensors) :
                         /\ sensors[i].addr = x.addr /\ sensors[i].short = x.short
                         /\ sensors[i].status \in S
<1>1. x.addr \in Addrs(heard, p)
  BY DEF Addrs
<1>2. PICK k \in 1 .. Len(sensors) : sensors[k].addr = x.addr
  BY <1>1 DEF SensorsOK
<1>3. \A i \in 1 .. Len(sensors) : sensors[i].addr = x.addr =>
        sensors[i].short = x.short /\ sensors[i].status = heard[x]
  BY DEF SensorsOK
<1>4. \A S : reads(S) <=> heard[x] \in S
  BY <1>2, <1>3
<1>5. hua_getstatus_sec(sensors, x.short, x.addr) =
        IF reads(Alert(x.short)) THEN 1 ELSE IF reads(Normal(x.short)) THEN 0 ELSE -1
  BY DEF hua_getstatus_sec
<1> HIDE DEF reads
<1>6. ~(heard[x] \in Alert(x.short) /\ heard[x] \in Normal(x.short))
  <2>1. \A a \in Alert(x.short) : a \in 0 .. 13
    BY DEF Alert
  <2>2. \A a \in Normal(x.short) : a >= 128
    BY <2>1 DEF Normal
  <2>3. QED
    BY <2>1, <2>2
<1>7. QED
  BY <1>4, <1>5, <1>6

-----------------------------------------------------------------------------
(* Packets and what the receivers make of them.                            *)

Codes == [kind : {"addr"}, unit : Units] \cup [kind : {"func"}, func : Functions]
           \cup [kind : {"ext"}, unit : Units, command : 0 .. 255, data : 0 .. 255]

Air == [kind : {"raw"}] \cup [kind : {"house", "cam"}, mark : {"rx", "tx"}]
         \cup [kind : {"unit"}, mark : {"rx", "tx"}, unit : Units, power : Power]
         \cup [kind : {"sec"}, mark : {"rx", "tx"},
               sensor : [addr : Int, short : BOOLEAN], status : 0 .. 255]

Packets == Codes \cup Air

Lines == [power : [Units -> Power], selected : SUBSET Units, closed : BOOLEAN]

(* The codes a client may name are packets.                                *)
LEMMA CodePackets ==
  /\ \A u \in Units : Addr(u) \in Codes
  /\ \A f \in Functions : Func(f) \in Codes
  /\ \A c : IsCode(c) => c \in Codes
  /\ \A c \in Codes : \/ c.kind = "addr" /\ c.unit \in Units /\ c = Addr(c.unit)
                      \/ c.kind = "func" /\ c.func \in Functions /\ c = Func(c.func)
                      \/ c.kind = "ext" /\ c.unit \in Units /\ c.data \in 0 .. 255
<1>1. /\ \A u \in Units : Addr(u) \in Codes
      /\ \A f \in Functions : Func(f) \in Codes
  BY DEF Codes, Addr, Func
<1>2. \A u \in Units, command, data \in 0 .. 255 : Ext(u, command, data) \in Codes
  BY DEF Codes, Ext
<1>3. \A c : IsCode(c) => c \in Codes
  BY <1>1, <1>2 DEF IsCode
<1>4. \A c \in Codes : \/ c.kind = "addr" /\ c.unit \in Units /\ c = Addr(c.unit)
                       \/ c.kind = "func" /\ c.func \in Functions /\ c = Func(c.func)
                       \/ c.kind = "ext" /\ c.unit \in Units /\ c.data \in 0 .. 255
  BY DEF Codes, Addr, Func
<1>5. QED
  BY <1>1, <1>3, <1>4

(* So are the frames, also as the repeater sends them.                     *)
LEMMA FramePackets ==
  ASSUME NEW p \in Profiles, NEW fr \in p.rf
  PROVE  /\ fr \in Air /\ [fr EXCEPT !.mark = "tx"] \in Air
         /\ \/ fr.kind \in {"house", "cam"}
            \/ fr.kind = "unit" /\ fr.unit \in Units /\ fr.power \in Power
            \/ fr.kind = "sec" /\ fr.sensor \in SensorsOf(p) /\ fr.status \in 0 .. 255
<1>1. IsFrame(fr)
  BY StationAssumption
<1>2. CASE fr \in {DimFrame(fr.mark), CamFrame(fr.mark)}
  <2>1. /\ fr.mark \in {"rx", "tx"}
        /\ \E k \in {"house", "cam"} : fr = [kind |-> k, mark |-> fr.mark]
    BY <1>1, <1>2 DEF IsFrame, DimFrame, CamFrame
  <2>2. fr \in [kind : {"house", "cam"}, mark : {"rx", "tx"}]
    BY <2>1
  <2>3. [fr EXCEPT !.mark = "tx"] \in [kind : {"house", "cam"}, mark : {"rx", "tx"}]
    BY <2>2
  <2>4. QED
    BY <2>2, <2>3 DEF Air
<1>3. CASE \E u \in Units, power \in Power : fr = UnitFrame(fr.mark, u, power)
  <2>1. fr \in [kind : {"unit"}, mark : {"rx", "tx"}, unit : Units, power : Power]
    BY <1>1, <1>3 DEF IsFrame, UnitFrame
  <2>2. [fr EXCEPT !.mark = "tx"]
          \in [kind : {"unit"}, mark : {"rx", "tx"}, unit : Units, power : Power]
    BY <2>1
  <2>3. QED
    BY <2>1, <2>2 DEF Air
<1>4. CASE /\ fr = SecFrame(fr.mark, fr.sensor, fr.status)
           /\ fr.sensor \in [addr : Int, short : BOOLEAN] /\ fr.status \in 0 .. 255
  <2> DEFINE Sec == [kind : {"sec"}, mark : {"rx", "tx"},
                     sensor : [addr : Int, short : BOOLEAN], status : 0 .. 255]
  <2>1. fr \in Sec
    BY <1>1, <1>4 DEF IsFrame, SecFrame
  <2>2. [fr EXCEPT !.mark = "tx"] \in Sec
    BY <2>1
  <2>3. fr.sensor \in SensorsOf(p)
    BY <2>1 DEF SensorsOf
  <2>4. QED
    BY <2>1, <2>2, <2>3 DEF Air
<1>5. QED
  BY <1>1, <1>2, <1>3, <1>4 DEF IsFrame

(* Receivers stay receivers, and radio means nothing to them.              *)
LEMMA Hear ==
  ASSUME NEW l \in Lines
  PROVE  /\ \A c \in Packets : hear(l, c) \in Lines
         /\ \A c \in Air : ~IsPl(c) /\ hear(l, c) = l
         /\ \A c \in Codes : IsPl(c)
<1>1. \A c \in Air : c.kind \notin {"addr", "func", "ext"}
  BY DEF Air
<1>2. \A c \in Air : ~IsPl(c) /\ hear(l, c) = l
  BY <1>1 DEF IsPl, hear
<1>3. \A c \in Codes : IsPl(c)
  BY DEF Codes, IsPl
<1>4. SUFFICES ASSUME NEW c \in Codes
               PROVE  hear(l, c) \in Lines
  BY <1>2, <1>3 DEF Packets
<1>5. l.power \in [Units -> Power] /\ l.selected \in SUBSET Units
  BY DEF Lines
<1> DEFINE sel == CASE c.kind = "addr" -> IF l.closed THEN {c.unit} ELSE l.selected \cup {c.unit}
                    [] c.kind = "func" -> l.selected
                    [] c.kind = "ext"  -> {c.unit}
           pow == [u \in Units |-> IF u \in Reached(l.selected, c) THEN Given(c) ELSE l.power[u]]
<1>6. hear(l, c) = [selected |-> sel, closed |-> c.kind # "addr", power |-> pow]
  BY <1>3 DEF hear
<1>7. sel \in SUBSET Units
  BY <1>5, CodePackets
<1>8. pow \in [Units -> Power]
  <2>1. Given(c) \in Power
    BY DEF Given, Power
  <2>2. QED
    BY <1>5, <2>1
<1> HIDE DEF sel, pow
<1>9. QED
  BY <1>6, <1>7, <1>8 DEF Lines

(* What they make of a code, unit by unit.                                 *)
LEMMA Heard ==
  ASSUME NEW e \in Lines, NEW c \in Codes
  PROVE  /\ hear(e, c).closed = (c.kind # "addr")
         /\ hear(e, c).selected =
              CASE c.kind = "addr" -> IF e.closed THEN {c.unit} ELSE e.selected \cup {c.unit}
                [] c.kind = "func" -> e.selected
                [] c.kind = "ext"  -> {c.unit}
         /\ \A u \in Units : hear(e, c).power[u] = IF u \in Reached(e.selected, c) THEN Given(c)
                                                                                 ELSE e.power[u]
<1>1. IsPl(c)
  BY Hear
<1>2. QED
  BY <1>1 DEF hear

-----------------------------------------------------------------------------
(* What waits to be sent.  After(l, q, e): receivers that are l now are e  *)
(* once they heard the packets q.                                          *)

After(l, q, e) ==
  \E f \in [0 .. Len(q) -> Lines] :
    /\ f[0] = l /\ f[Len(q)] = e
    /\ \A k \in 1 .. Len(q) : f[k] = hear(f[k - 1], q[k])

(* An empty queue.                                                         *)
LEMMA AfterNothing ==
  ASSUME NEW l \in Lines, NEW e
  PROVE  After(l, <<>>, e) <=> e = l
<1>1. Len(<<>>) = 0 /\ 0 .. 0 = {0} /\ 1 .. 0 = {}
  OBVIOUS
<1>2. [k \in {0} |-> l] \in [{0} -> Lines] /\ [k \in {0} |-> l][0] = l
  OBVIOUS
<1>3. ASSUME After(l, <<>>, e)
      PROVE  e = l
  BY <1>1, <1>3 DEF After
<1>4. ASSUME e = l
      PROVE  After(l, <<>>, e)
  BY <1>1, <1>2, <1>4 DEF After
<1>5. QED
  BY <1>3, <1>4

(* x10_write() puts a packet behind the others.                            *)
LEMMA AfterAppend ==
  ASSUME NEW l \in Lines, NEW q \in Seq(Packets), NEW e \in Lines, After(l, q, e),
         NEW c \in Packets
  PROVE  After(l, Append(q, c), hear(e, c))
<1> DEFINE n == Len(q)
           r == Append(q, c)
<1>1. PICK f \in [0 .. n -> Lines] : /\ f[0] = l /\ f[n] = e
                                     /\ \A k \in 1 .. n : f[k] = hear(f[k - 1], q[k])
  BY DEF After
<1>2. n \in Nat /\ Len(r) = n + 1 /\ r[n + 1] = c /\ \A k \in 1 .. n : r[k] = q[k]
  OBVIOUS
<1>3. hear(e, c) \in Lines
  BY Hear
<1> DEFINE g == [k \in 0 .. n + 1 |-> IF k = n + 1 THEN hear(e, c) ELSE f[k]]
<1>4. \A k \in 0 .. n + 1 : k # n + 1 => k \in 0 .. n
  BY <1>2
<1>5. g \in [0 .. n + 1 -> Lines]
  BY <1>1, <1>3, <1>4
<1>6. 0 \in 0 .. n + 1 /\ n + 1 \in 0 .. n + 1 /\ n \in 0 .. n + 1 /\ n # n + 1 /\ 0 # n + 1
  BY <1>2
<1>7. g[0] = l /\ g[n + 1] = hear(e, c) /\ g[n] = e
  BY <1>1, <1>6
<1>8. \A k \in 1 .. n : k \in 0 .. n + 1 /\ k - 1 \in 0 .. n + 1 /\ k # n + 1 /\ k - 1 # n + 1
  BY <1>2
<1>9. \A k \in 1 .. n : g[k] = f[k] /\ g[k - 1] = f[k - 1]
  BY <1>8
<1> HIDE DEF g, r
<1>10. \A k \in 1 .. n + 1 : g[k] = hear(g[k - 1], r[k])
  <2>1. SUFFICES ASSUME NEW k \in 1 .. n + 1
                 PROVE  g[k] = hear(g[k - 1], r[k])
    OBVIOUS
  <2>2. CASE k = n + 1
    <3>1. k - 1 = n
      BY <1>2, <2>2
    <3>2. QED
      BY <1>2, <1>7, <2>2, <3>1
  <2>3. CASE k # n + 1
    <3>1. k \in 1 .. n
      BY <1>2, <2>3
    <3>2. QED
      BY <1>1, <1>2, <1>9, <3>1
  <2>4. QED
    BY <2>2, <2>3
<1>11. g \in [0 .. Len(r) -> Lines] /\ g[0] = l /\ g[Len(r)] = hear(e, c)
       /\ \A k \in 1 .. Len(r) : g[k] = hear(g[k - 1], r[k])
  BY <1>2, <1>5, <1>7, <1>10
<1>12. QED
  BY <1>11 DEF After, r

(* The first packet is heard.                                              *)
LEMMA AfterHead ==
  ASSUME NEW l \in Lines, NEW q \in Seq(Packets), NEW e, After(l, q, e), q # <<>>
  PROVE  After(hear(l, q[1]), Tail(q), e)
<1> DEFINE n == Len(q)
           r == Tail(q)
<1>1. PICK f \in [0 .. n -> Lines] : /\ f[0] = l /\ f[n] = e
                                     /\ \A k \in 1 .. n : f[k] = hear(f[k - 1], q[k])
  BY DEF After
<1>2. /\ n \in Nat /\ n >= 1 /\ Len(r) = n - 1 /\ n - 1 \in Nat
      /\ \A k \in 1 .. n - 1 : r[k] = q[k + 1]
  OBVIOUS
<1> DEFINE g == [k \in 0 .. n - 1 |-> f[k + 1]]
<1>3. \A k \in 0 .. n - 1 : k + 1 \in 0 .. n
  BY <1>2
<1>4. g \in [0 .. n - 1 -> Lines]
  BY <1>1, <1>3
<1>5. 0 \in 0 .. n - 1 /\ n - 1 \in 0 .. n - 1 /\ n - 1 + 1 = n /\ 1 \in 1 .. n
      /\ 0 + 1 = 1 /\ 1 - 1 = 0
  BY <1>2
<1>6. g[0] = hear(l, q[1])
  <2>1. g[0] = f[1]
    BY <1>5
  <2>2. f[1] = hear(f[1 - 1], q[1])
    BY <1>1, <1>5
  <2>3. QED
    BY <1>1, <1>5, <2>1, <2>2
<1>7. g[n - 1] = e
  BY <1>1, <1>5
<1>8. \A k \in 1 .. n - 1 : g[k] = hear(g[k - 1], r[k])
  <2>1. SUFFICES ASSUME NEW k \in 1 .. n - 1
                 PROVE  g[k] = hear(g[k - 1], r[k])
    OBVIOUS
  <2>2. /\ k \in 0 .. n - 1 /\ k - 1 \in 0 .. n - 1 /\ k + 1 \in 1 .. n
        /\ k - 1 + 1 = k /\ k + 1 - 1 = k
    BY <1>2
  <2>3. g[k] = f[k + 1] /\ g[k - 1] = f[k]
    BY <2>2
  <2>4. f[k + 1] = hear(f[k + 1 - 1], q[k + 1])
    BY <1>1, <2>2
  <2>5. QED
    BY <1>2, <2>2, <2>3, <2>4
<1> HIDE DEF g, r
<1>9. g \in [0 .. Len(r) -> Lines] /\ g[0] = hear(l, q[1]) /\ g[Len(r)] = e
      /\ \A k \in 1 .. Len(r) : g[k] = hear(g[k - 1], r[k])
  BY <1>2, <1>4, <1>6, <1>7, <1>8
<1>10. QED
  BY <1>9 DEF After, r

-----------------------------------------------------------------------------
(* The station, and its record against the receivers.                      *)

Stations(p) ==
  [ h : House, sensors : Seq(Records), dups : Tables(p),
    RfToPl : BOOLEAN, RfToRf : BOOLEAN,
    active : BOOLEAN, flying : Seq(Packets), pending : Seq(Packets),
    tracked : BOOLEAN, ended : BOOLEAN, joined : BOOLEAN, divided : BOOLEAN,
    parted : SUBSET Units, since : Ages(p), heard : Heards(p) ]

QueueOK(s) ==
  /\ Len(s.flying) <= 1 /\ Len(s.pending) <= Capacity
  /\ Drained(s) \/ s.active

Queue(s) == s.flying \o s.pending

(* The record of every unit but those in U is what receivers e have        *)
(* switched.                                                               *)
Holds(s, e, U) == \A v \in Units \ (s.parted \cup U) : getstatus(s.h, v) = e.power[v]

(* Record and receivers agree, and the next code will select the same.     *)
InStep(s, e) ==
  /\ Holds(s, e, {})
  /\ s.h.selected = e.selected
  /\ s.ended = e.closed
  /\ s.h.function => s.ended

(* An RF command for u is recorded and not yet bridged.                    *)
Ahead(s, e, u) ==
  /\ Holds(s, e, {u})
  /\ s.h.function /\ s.h.selected = {u}
  /\ e.closed \/ e.selected \subseteq {u}

(* The address of its bridged form is out.                                 *)
Addressed(s, e, u) ==
  /\ Holds(s, e, {u})
  /\ s.h.selected = {u} /\ e.selected = {u}

(* What no power line function touches.                                    *)
RadioKept(s, t) ==
  t.sensors = s.sensors /\ t.heard = s.heard /\ t.dups = s.dups /\ t.since = s.since

(* The functions on a house row.                                           *)
LEMMA HouseRows ==
  ASSUME NEW h \in House
  PROVE  /\ \A u \in Units : hua_add(h, u) \in House
         /\ \A w \in Power : hua_func(h, w) \in House /\ hua_func_all(h, w) \in House
         /\ \A u \in Units, level \in 0 .. 255 : hua_setstatus_xdim(h, u, level) \in House
<1>1. \A u \in Units : hua_add(h, u) \in House
  BY DEF hua_add, House
<1>2. \A w \in Power, S \in SUBSET Units : switch(h, S, w) \in House
  <2>1. SUFFICES ASSUME NEW w \in Power, NEW S \in SUBSET Units
                 PROVE  switch(h, S, w) \in House
    OBVIOUS
  <2> DEFINE st == [v \in Units |-> IF v \in S THEN w ELSE h.state[v]]
             dm == [v \in Units |-> IF v \notin S THEN h.dim[v]
                                    ELSE IF w = "on" THEN FullDim ELSE 0]
  <2>2. st \in [Units -> Power \cup {"unknown"}]
    BY DEF House
  <2>3. dm \in [Units -> 0 .. 255]
    BY DEF House, FullDim
  <2>4. switch(h, S, w) = [h EXCEPT !.function = TRUE, !.state = st, !.dim = dm]
    BY DEF switch
  <2> HIDE DEF st, dm
  <2>5. QED
    BY <2>2, <2>3, <2>4 DEF House
<1>3. \A w \in Power : hua_func(h, w) \in House /\ hua_func_all(h, w) \in House
  BY <1>2 DEF hua_func, hua_func_all, House
<1>4. ASSUME NEW u \in Units, NEW level \in 0 .. 255
      PROVE  hua_setstatus_xdim(h, u, level) \in House
  <2> DEFINE st == [h.state EXCEPT ![u] = IF level > 0 THEN "on" ELSE "off"]
             dm == [h.dim EXCEPT ![u] = level]
  <2>1. st \in [Units -> Power \cup {"unknown"}]
    BY DEF House, Power
  <2>2. dm \in [Units -> 0 .. 255]
    BY DEF House
  <2> DEFINE sel == {u}
             g == [[h EXCEPT !.selected = sel, !.function = TRUE] EXCEPT !.dim = dm]
  <2>3. hua_setstatus_xdim(h, u, level) = [g EXCEPT !.state = st]
    BY DEF hua_setstatus_xdim
  <2>4. sel \in SUBSET Units
    OBVIOUS
  <2> HIDE DEF st, dm, sel
  <2>5. [h EXCEPT !.selected = sel, !.function = TRUE] \in House
    BY <2>4 DEF House
  <2>6. g \in House
    BY <2>2, <2>5 DEF House
  <2> HIDE DEF g
  <2>7. QED
    BY <2>1, <2>3, <2>6 DEF House
<1>5. QED
  BY <1>1, <1>3, <1>4

(* hua_add() for an address, as a station does it.                         *)
LEMMA Select ==
  ASSUME NEW p \in Profiles, NEW s \in Stations(p), NEW u \in Units
  PROVE  LET t == select(s, u)
         IN  /\ t \in Stations(p) /\ RadioKept(s, t) /\ t.h = hua_add(s.h, u)
             /\ t.joined = (s.joined \/ (s.ended /\ ~s.h.function /\ s.h.selected # {}))
             /\ t.ended = s.ended /\ t.tracked = s.tracked /\ t.divided = s.divided
             /\ t.parted = s.parted
             /\ t.active = s.active /\ t.flying = s.flying /\ t.pending = s.pending
<1> DEFINE row == hua_add(s.h, u)
           joins == s.joined \/ (s.ended /\ ~s.h.function /\ s.h.selected # {})
<1>1. select(s, u) = [s EXCEPT !.h = row, !.joined = joins]
  BY DEF select
<1>2. row \in House
  BY HouseRows DEF Stations
<1>3. joins \in BOOLEAN
  OBVIOUS
<1> HIDE DEF row, joins
<1>4. [s EXCEPT !.h = row, !.joined = joins] \in Stations(p)
  BY <1>2, <1>3 DEF Stations
<1>5. /\ [s EXCEPT !.h = row, !.joined = joins].h = row
      /\ [s EXCEPT !.h = row, !.joined = joins].joined = joins
  BY DEF Stations
<1>6. QED
  BY <1>1, <1>4, <1>5 DEF RadioKept, row, joins

(* A power line code is decoded: the row, and the history of it.           *)
LEMMA DecodePlc ==
  ASSUME NEW p \in Profiles, NEW s \in Stations(p), NEW c \in Codes
  PROVE  LET t == cm15a_decode_plc(s, c)
         IN  /\ t \in Stations(p) /\ RadioKept(s, t)
             /\ t.tracked = s.tracked /\ t.divided = s.divided
             /\ t.active = s.active /\ t.flying = s.flying /\ t.pending = s.pending
             /\ t.parted = parting(s, c)
             /\ c.kind = "addr" =>
                  /\ t.h = hua_add(s.h, c.unit) /\ t.ended = FALSE
                  /\ t.joined = (s.joined \/ (s.ended /\ ~s.h.function /\ s.h.selected # {}))
             /\ c.kind = "func" =>
                  t.h = hfc(s.h, c.func) /\ t.ended = TRUE /\ t.joined = s.joined
             /\ c.kind = "ext" =>
                  /\ t.h = hua_setstatus_xdim(s.h, c.unit, c.data)
                  /\ t.ended = TRUE /\ t.joined = s.joined
<1> DEFINE par == parting(s, c)
<1>p. par \in SUBSET Units
  <2>1. s.parted \in SUBSET Units /\ s.h.selected \in SUBSET Units
    BY DEF Stations, House
  <2>2. Parting(s.h.selected, c) \in SUBSET Units
    BY <2>1, CodePackets DEF Parting, Functions
  <2>3. QED
    BY <2>1, <2>2 DEF parting
<1>1. CASE c.kind = "addr"
  <2> DEFINE a == select(s, c.unit)
  <2>1. c.unit \in Units
    BY <1>1, CodePackets
  <2>2. /\ a \in Stations(p) /\ RadioKept(s, a) /\ a.h = hua_add(s.h, c.unit)
        /\ a.joined = (s.joined \/ (s.ended /\ ~s.h.function /\ s.h.selected # {}))
        /\ a.tracked = s.tracked /\ a.divided = s.divided /\ a.parted = s.parted
        /\ a.active = s.active /\ a.flying = s.flying /\ a.pending = s.pending
    BY <2>1, Select
  <2>3. cm15a_decode_plc(s, c) = [a EXCEPT !.ended = FALSE]
    BY <1>1 DEF cm15a_decode_plc
  <2>4. par = s.parted
    BY <1>1 DEF parting, Parting, Reached
  <2> HIDE DEF a, par
  <2>5. [a EXCEPT !.ended = FALSE].parted = par
    BY <2>2, <2>4 DEF Stations
  <2>6. QED
    BY <1>1, <2>2, <2>3, <2>5 DEF Stations, RadioKept, par
<1>2. CASE c.kind = "func"
  <2> DEFINE row == hfc(s.h, c.func)
  <2>1. cm15a_decode_plc(s, c) = [s EXCEPT !.h = row, !.ended = TRUE, !.parted = par]
    BY <1>2 DEF cm15a_decode_plc
  <2>2. row \in House
    <3>1. s.h \in House
      BY DEF Stations
    <3>2. \A w \in Power : hua_func(s.h, w) \in House /\ hua_func_all(s.h, w) \in House
      BY <3>1, HouseRows
    <3>3. "on" \in Power /\ "off" \in Power
      BY DEF Power
    <3>4. c.func \in Functions
      BY <1>2, CodePackets
    <3>5. QED
      BY <3>1, <3>2, <3>3, <3>4 DEF hfc, Functions
  <2> HIDE DEF row, par
  <2>3. QED
    BY <1>2, <1>p, <2>1, <2>2 DEF Stations, RadioKept, row, par
<1>3. CASE c.kind = "ext"
  <2> DEFINE row == hua_setstatus_xdim(s.h, c.unit, c.data)
  <2>1. cm15a_decode_plc(s, c) = [s EXCEPT !.h = row, !.ended = TRUE, !.parted = par]
    BY <1>3 DEF cm15a_decode_plc
  <2>2. row \in House
    BY <1>3, CodePackets, HouseRows DEF Stations
  <2> HIDE DEF row, par
  <2>3. QED
    BY <1>3, <1>p, <2>1, <2>2 DEF Stations, RadioKept, row, par
<1>4. QED
  BY <1>1, <1>2, <1>3, CodePackets

(* What a function leaves on a row ...                                     *)
LEMMA SwitchedRow ==
  ASSUME NEW h \in House, NEW S \in SUBSET Units, NEW w \in Power
  PROVE  switch(h, S, w).selected = h.selected /\ switch(h, S, w).function = TRUE
  BY DEF switch, House

(* ... and the units it does.                                              *)
LEMMA SwitchedState ==
  ASSUME NEW h \in House, NEW S \in SUBSET Units, NEW w \in Power
  PROVE  \A u \in Units : switch(h, S, w).state[u] = IF u \in S THEN w ELSE h.state[u]
  BY DEF switch, House

(* What a code writes in the record of a unit that it does not part.       *)
LEMMA Recorded ==
  ASSUME NEW p \in Profiles, NEW s \in Stations(p), NEW c \in Codes,
         NEW u \in Units, u \notin Parting(s.h.selected, c)
  PROVE  getstatus(cm15a_decode_plc(s, c).h, u) =
           IF u \in Reached(s.h.selected, c) THEN Given(c) ELSE getstatus(s.h, u)
<1> DEFINE t == cm15a_decode_plc(s, c)
           S == s.h.selected
<1>1. s.h \in House /\ S \in SUBSET Units
  BY DEF Stations, House
<1>2. CASE c.kind = "addr"
  <2>1. t.h = hua_add(s.h, c.unit)
    BY <1>2, DecodePlc
  <2> HIDE DEF t
  <2>2. t.h.state = s.h.state
    BY <1>1, <2>1 DEF hua_add, House
  <2>3. Reached(S, c) = {}
    BY <1>2 DEF Reached
  <2>4. QED
    BY <2>2, <2>3 DEF getstatus, t
<1>3. CASE c.kind = "ext"
  <2> DEFINE w == IF c.data > 0 THEN "on" ELSE "off"
             row == hua_setstatus_xdim(s.h, c.unit, c.data)
  <2>1. t.h = row
    BY <1>3, DecodePlc
  <2>2. row.state[u] = IF u = c.unit THEN w ELSE s.h.state[u]
    BY <1>1 DEF hua_setstatus_xdim, House
  <2>3. CASE u # c.unit
    <3>1. u \notin Reached(S, c)
      BY <1>3, <2>3 DEF Reached
    <3>2. row.state[u] = s.h.state[u]
      BY <2>2, <2>3
    <3> HIDE DEF t, row
    <3>3. QED
      BY <2>1, <3>1, <3>2 DEF getstatus, t
  <2>4. CASE u = c.unit
    <3>1. c.command = Preset /\ (c.data % 64 = 0 => c.data = 0)
      BY <1>3, <2>4 DEF Parting
    <3>2. c.data \in 0 .. 255
      BY <1>3, CodePackets
    <3>3. c.data % 64 # 0 <=> c.data > 0
      BY <3>1, <3>2
    <3>4. Given(c) = w /\ u \in Reached(S, c)
      BY <1>3, <2>4, <3>1, <3>3 DEF Given, Reached
    <3>5. row.state[u] = w /\ w \in {"on", "off"}
      BY <2>2, <2>4
    <3> HIDE DEF t, row, w
    <3>6. QED
      BY <2>1, <3>4, <3>5 DEF getstatus, t
  <2>5. QED
    BY <2>3, <2>4
<1>4. CASE c.kind = "func"
  <2> DEFINE g == Given(c)
             R == Reached(S, c)
  <2>1. c.func \in Functions
    BY <1>4, CodePackets
  <2>2. t.h = hfc(s.h, c.func)
    BY <1>4, DecodePlc
  <2> HIDE DEF t
  <2>3. CASE c.func = "dim"
    <3>1. t.h = s.h /\ R = {}
      BY <1>4, <2>2, <2>3 DEF hfc, Reached
    <3>2. QED
      BY <3>1 DEF t
  <2>4. CASE c.func \in {"status_on", "status_off"}
    <3>1. \E w \in Power : t.h = switch(s.h, S, w)
      BY <2>2, <2>4 DEF hfc, hua_func, Power
    <3>2. R = {} /\ u \notin S
      BY <1>4, <2>4 DEF Reached, Parting
    <3>3. t.h.state[u] = s.h.state[u]
      BY <1>1, <3>1, <3>2, SwitchedState
    <3> HIDE DEF S, R
    <3>4. QED
      BY <3>2, <3>3 DEF getstatus, t, R, S
  <2>5. CASE c.func \in {"on", "off", "all_on", "lights_off", "all_off"}
    <3>1. g = (IF c.func \in {"on", "all_on"} THEN "on" ELSE "off") /\ g \in Power
      BY <1>4 DEF Given, Power
    <3>2. \/ t.h = switch(s.h, S, g) /\ R = S
          \/ t.h = switch(s.h, Units, g) /\ (R = Units \/ (R = Lamps /\ u \in Lamps))
      <4>1. CASE c.func \in {"on", "off"}
        BY <1>4, <2>2, <3>1, <4>1 DEF hfc, hua_func, Reached
      <4>2. CASE c.func = "all_off"
        BY <1>4, <2>2, <3>1, <4>2 DEF hfc, hua_func_all, Reached
      <4>3. CASE c.func \in {"all_on", "lights_off"}
        <5>1. t.h = switch(s.h, Units, g) /\ R = Lamps
          BY <1>4, <2>2, <3>1, <4>3 DEF hfc, hua_func_all, Reached
        <5>2. u \in Lamps
          BY <1>4, <4>3 DEF Parting
        <5>3. QED
          BY <5>1, <5>2
      <4>4. QED
        BY <2>5, <4>1, <4>2, <4>3
    <3> HIDE DEF g, R
    <3>3. t.h.state[u] = IF u \in R THEN g ELSE s.h.state[u]
      BY <1>1, <3>1, <3>2, SwitchedState
    <3>4. getstatus(t.h, u) = IF u \in R THEN g ELSE getstatus(s.h, u)
      BY <3>1, <3>3 DEF getstatus, Power
    <3>5. QED
      BY <3>4 DEF t, R, g
  <2>6. QED
    BY <2>1, <2>3, <2>4, <2>5 DEF Functions
<1>5. QED
  BY <1>2, <1>3, <1>4, CodePackets

(* So a code that the selected units hear keeps the record right where it  *)
(* was, and makes it right where it switches.                              *)
LEMMA HoldsOn ==
  ASSUME NEW p \in Profiles, NEW s \in Stations(p), NEW e \in Lines, NEW c \in Codes,
         NEW U, Holds(s, e, U), s.h.selected = e.selected
  PROVE  Holds(cm15a_decode_plc(s, c), hear(e, c), U \ Reached(e.selected, c))
<1> DEFINE t == cm15a_decode_plc(s, c)
           x == hear(e, c)
           S == e.selected
<1>1. t.parted = (s.parted \ Reached(S, c)) \cup Parting(S, c)
  <2>1. t.parted = parting(s, c)
    BY DecodePlc
  <2> HIDE DEF t, x
  <2>2. QED
    BY <2>1 DEF parting
<1>2. \A v \in Units : v \notin Parting(S, c) =>
        getstatus(t.h, v) = IF v \in Reached(S, c) THEN Given(c) ELSE getstatus(s.h, v)
  BY Recorded
<1>3. \A v \in Units : x.power[v] = IF v \in Reached(S, c) THEN Given(c) ELSE e.power[v]
  BY Heard
<1> HIDE DEF t, x
<1>4. ASSUME NEW v \in Units, v \notin t.parted, v \notin U \ Reached(S, c)
      PROVE  getstatus(t.h, v) = x.power[v]
  <2>1. v \notin Parting(S, c) /\ (v \in Reached(S, c) \/ v \notin s.parted \cup U)
    BY <1>1, <1>4
  <2>2. CASE v \in Reached(S, c)
    BY <1>2, <1>3, <2>1, <2>2
  <2>3. CASE v \notin Reached(S, c)
    BY <1>2, <1>3, <2>1, <2>3 DEF Holds
  <2>4. QED
    BY <2>2, <2>3
<1>5. QED
  BY <1>4 DEF Holds, t, x

(* Record and receivers that are in step stay in step over any code, but   *)
(* for an address that joins a selection a dim has used.                   *)
LEMMA StaysInStep ==
  ASSUME NEW p \in Profiles, NEW s \in Stations(p), NEW e \in Lines, NEW c \in Codes,
         InStep(s, e), ~cm15a_decode_plc(s, c).joined
  PROVE  InStep(cm15a_decode_plc(s, c), hear(e, c))
<1> DEFINE t == cm15a_decode_plc(s, c)
           x == hear(e, c)
<1>1. /\ s.h \in House /\ s.h.selected \in SUBSET Units
      /\ s.h.function \in BOOLEAN /\ s.ended \in BOOLEAN
  BY DEF Stations, House
<1>2. Holds(t, x, {})
  <2>1. Holds(t, x, {} \ Reached(e.selected, c))
    BY HoldsOn DEF InStep
  <2>2. {} \ Reached(e.selected, c) = {}
    OBVIOUS
  <2>3. QED
    BY <2>1, <2>2
<1>3. CASE c.kind = "addr"
  <2>1. x.closed = FALSE /\ x.selected = IF e.closed THEN {c.unit} ELSE e.selected \cup {c.unit}
    BY <1>3, Heard
  <2>2. /\ t.h = hua_add(s.h, c.unit) /\ t.ended = FALSE
        /\ ~(s.ended /\ ~s.h.function /\ s.h.selected # {})
    BY <1>3, DecodePlc
  <2> HIDE DEF t, x
  <2>3. /\ t.h.function = FALSE
        /\ t.h.selected = IF s.h.function THEN {c.unit} ELSE s.h.selected \cup {c.unit}
    BY <1>1, <2>2 DEF hua_add, House
  <2>4. t.h.selected = x.selected
    BY <1>1, <2>1, <2>2, <2>3 DEF InStep
  <2>5. QED
    BY <1>2, <2>1, <2>2, <2>3, <2>4 DEF InStep, t, x
<1>4. CASE c.kind = "ext"
  <2> DEFINE row == hua_setstatus_xdim(s.h, c.unit, c.data)
  <2>1. t.h = row /\ t.ended = TRUE
    BY <1>4, DecodePlc
  <2>2. x.selected = {c.unit} /\ x.closed = TRUE
    BY <1>4, Heard
  <2>3. row.selected = {c.unit} /\ row.function = TRUE
    BY <1>1 DEF hua_setstatus_xdim, House
  <2> HIDE DEF t, x, row
  <2>4. QED
    BY <1>2, <2>1, <2>2, <2>3 DEF InStep, t, x
<1>5. CASE c.kind = "func"
  <2>1. c.func \in Functions
    BY <1>5, CodePackets
  <2>2. t.h = hfc(s.h, c.func) /\ t.ended = TRUE
    BY <1>5, DecodePlc
  <2>3. x.selected = e.selected /\ x.closed = TRUE
    BY <1>5, Heard
  <2> HIDE DEF t, x
  <2>4. t.h = s.h \/ \E S \in SUBSET Units, w \in Power : t.h = switch(s.h, S, w)
    BY <1>1, <2>1, <2>2 DEF hfc, hua_func, hua_func_all, Functions, Power
  <2>5. t.h.selected = s.h.selected
    <3>1. \A S \in SUBSET Units, w \in Power : switch(s.h, S, w).selected = s.h.selected
      BY <1>1, SwitchedRow
    <3>2. QED
      BY <2>4, <3>1
  <2>6. QED
    BY <1>2, <2>2, <2>3, <2>5 DEF InStep, t, x
<1>6. QED
  BY <1>3, <1>4, <1>5, CodePackets

(* A bridged RF command: its address ...                                   *)
LEMMA BridgedAddress ==
  ASSUME NEW p \in Profiles, NEW s \in Stations(p), NEW e \in Lines,
         NEW c \in Codes, c.kind = "addr", Ahead(s, e, c.unit)
  PROVE  LET t == cm15a_decode_plc(s, c)
         IN  Addressed(t, hear(e, c), c.unit) /\ (t.joined => s.joined)
<1> DEFINE t == cm15a_decode_plc(s, c)
           x == hear(e, c)
           u == c.unit
<1>1. s.h \in House
  BY DEF Stations
<1>2. /\ t.h = hua_add(s.h, c.unit) /\ t.parted = parting(s, c)
      /\ t.joined = (s.joined \/ (s.ended /\ ~s.h.function /\ s.h.selected # {}))
  BY DecodePlc
<1>3. \A S : Reached(S, c) = {} /\ Parting(S, c) = {}
  BY DEF Reached, Parting
<1>4. /\ \A v \in Units : x.power[v] = e.power[v]
      /\ x.selected = IF e.closed THEN {c.unit} ELSE e.selected \cup {c.unit}
  BY <1>3, Heard
<1> HIDE DEF t, x
<1>5. t.joined => s.joined
  BY <1>2 DEF Ahead
<1>6. t.h.state = s.h.state /\ t.h.selected = {u}
  BY <1>1, <1>2 DEF hua_add, House, Ahead
<1>7. t.parted = s.parted
  BY <1>2, <1>3 DEF parting
<1>8. x.selected = {u}
  BY <1>4 DEF Ahead
<1>9. Holds(t, x, {u})
  BY <1>4, <1>6, <1>7 DEF Ahead, Holds, getstatus
<1>10. QED
  BY <1>5, <1>6, <1>8, <1>9 DEF Addressed, t, x

(* ... and its function.                                                   *)
LEMMA BridgedFunction ==
  ASSUME NEW p \in Profiles, NEW s \in Stations(p), NEW e \in Lines, NEW u \in Units,
         NEW c \in Codes, c.kind = "func", c.func \in Power, Addressed(s, e, u)
  PROVE  LET t == cm15a_decode_plc(s, c)
         IN  InStep(t, hear(e, c)) /\ (t.joined => s.joined)
<1> DEFINE t == cm15a_decode_plc(s, c)
           x == hear(e, c)
<1>1. s.h \in House /\ s.h.selected \in SUBSET Units
  BY DEF Stations, House
<1>2. t.h = hfc(s.h, c.func) /\ t.ended = TRUE /\ t.joined = s.joined
  BY DecodePlc
<1>3. t.h = switch(s.h, s.h.selected, c.func)
  BY <1>2 DEF hfc, hua_func, Power
<1>4. x.selected = e.selected /\ x.closed = TRUE
  BY Heard
<1>5. Holds(t, x, {})
  <2>1. Holds(t, x, {u} \ Reached(e.selected, c))
    BY HoldsOn DEF Addressed
  <2>2. Reached(e.selected, c) = {u}
    BY DEF Reached, Addressed, Power
  <2>3. {u} \ {u} = {}
    OBVIOUS
  <2>4. QED
    BY <2>1, <2>2, <2>3
<1> HIDE DEF t, x
<1>6. t.h.selected = s.h.selected
  <2>1. switch(s.h, s.h.selected, c.func).selected = s.h.selected
    BY <1>1, SwitchedRow
  <2>2. QED
    BY <1>3, <2>1
<1>7. InStep(t, x)
  BY <1>2, <1>4, <1>5, <1>6 DEF Addressed, InStep
<1>8. QED
  BY <1>2, <1>7 DEF t, x

-----------------------------------------------------------------------------
(* Transmission: the record and what the receivers will have heard.        *)

Sound(s, p) == s \in Stations(p) /\ QueueOK(s)

RecordKept(s, t) ==
  /\ t.h = s.h /\ t.ended = s.ended /\ t.joined = s.joined /\ t.divided = s.divided
  /\ t.parted = s.parted

(* No exception of RecordMatchesLine applies.                              *)
Comparable(s) == s.tracked /\ ~s.joined /\ ~s.divided

(* Receivers that are l now will be in step with the record.               *)
Follows(s, l) == \E e \in Lines : After(l, Queue(s), e) /\ InStep(s, e)

FollowsAhead(s, l, u)     == \E e \in Lines : After(l, Queue(s), e) /\ Ahead(s, e, u)
FollowsAddressed(s, l, u) == \E e \in Lines : After(l, Queue(s), e) /\ Addressed(s, e, u)

(* x10_write() touches the queue only, and tells of a code it lost.        *)
LEMMA Write ==
  ASSUME NEW p \in Profiles, NEW s \in Stations(p), QueueOK(s),
         NEW c \in Packets, NEW t \in x10_write(s, c)
  PROVE  /\ Sound(t, p) /\ RadioKept(s, t) /\ RecordKept(s, t)
         /\ t.tracked => s.tracked
         /\ \/ Queue(t) = Append(Queue(s), c)
            \/ Queue(t) = Queue(s) /\ (t.tracked => ~IsPl(c))
<1>1. /\ s.flying \in Seq(Packets) /\ s.pending \in Seq(Packets)
      /\ s.active \in BOOLEAN /\ s.tracked \in BOOLEAN
  BY DEF Stations
<1>2. CASE t = Lost(s, c)
  <2>1. (s.tracked /\ ~IsPl(c)) \in BOOLEAN
    OBVIOUS
  <2>2. t = [s EXCEPT !.tracked = s.tracked /\ ~IsPl(c)]
    BY <1>2 DEF Lost
  <2>3. t \in Stations(p) /\ RadioKept(s, t) /\ RecordKept(s, t)
    BY <2>1, <2>2 DEF Stations, RadioKept, RecordKept
  <2>4. /\ t.flying = s.flying /\ t.pending = s.pending /\ t.active = s.active
        /\ t.tracked = (s.tracked /\ ~IsPl(c))
    BY <2>2 DEF Stations
  <2>5. QED
    BY <2>3, <2>4 DEF Sound, QueueOK, Drained, Queue
<1>3. CASE ~s.active /\ t = [s EXCEPT !.active = TRUE, !.flying = <<c>>]
  <2>1. <<c>> \in Seq(Packets) /\ Len(<<c>>) = 1
    OBVIOUS
  <2> DEFINE q == <<c>>
  <2> HIDE DEF q
  <2>2. t = [s EXCEPT !.active = TRUE, !.flying = q]
    BY <1>3 DEF q
  <2>3. t \in Stations(p) /\ RadioKept(s, t) /\ RecordKept(s, t)
    BY <2>1, <2>2 DEF Stations, RadioKept, RecordKept, q
  <2>4. /\ t.flying = q /\ t.pending = s.pending /\ t.active = TRUE
        /\ t.tracked = s.tracked
    BY <2>2 DEF Stations
  <2>5. s.flying = <<>> /\ s.pending = <<>>
    BY <1>3 DEF QueueOK, Drained
  <2>6. <<c>> \o <<>> = Append(<<>> \o <<>>, c)
    OBVIOUS
  <2>7. Queue(t) = Append(Queue(s), c)
    BY <2>4, <2>5, <2>6 DEF Queue, q
  <2>8. QueueOK(t)
    BY <2>1, <2>4 DEF QueueOK, q
  <2>9. QED
    BY <2>3, <2>4, <2>7, <2>8 DEF Sound
<1>4. CASE s.active /\ Len(s.pending) < Capacity /\ t = [s EXCEPT !.pending = Append(@, c)]
  <2> DEFINE q == Append(s.pending, c)
  <2>1. q \in Seq(Packets) /\ Len(q) = Len(s.pending) + 1 /\ Len(s.pending) \in Nat
    BY <1>1
  <2>2. s.flying \o q = Append(s.flying \o s.pending, c)
    <3> DEFINE a == s.flying
               b == s.pending
               one == <<c>>
    <3>1. a \in Seq(Packets) /\ b \in Seq(Packets) /\ one \in Seq(Packets)
      BY <1>1
    <3>2. q = b \o one
      BY <1>1, AppendIsConcat
    <3>3. a \o b \in Seq(Packets)
      BY <1>1, ConcatProperties
    <3>4. Append(a \o b, c) = (a \o b) \o one
      BY <3>3, AppendIsConcat
    <3> HIDE DEF a, b, one, q
    <3>5. (a \o b) \o one = a \o (b \o one)
      BY <3>1, ConcatAssociative
    <3>6. Append(a \o b, c) = a \o q
      BY <3>2, <3>4, <3>5
    <3>7. QED
      BY <3>6 DEF a, b
  <2> HIDE DEF q
  <2>3. t = [s EXCEPT !.pending = q]
    BY <1>4 DEF q
  <2>4. t \in Stations(p) /\ RadioKept(s, t) /\ RecordKept(s, t)
    BY <2>1, <2>3 DEF Stations, RadioKept, RecordKept
  <2>5. /\ t.flying = s.flying /\ t.pending = q /\ t.active = s.active
        /\ t.tracked = s.tracked
    BY <2>3 DEF Stations
  <2>6. QueueOK(t)
    BY <1>4, <2>1, <2>5, StationAssumption DEF QueueOK
  <2>7. QED
    BY <2>2, <2>4, <2>5, <2>6 DEF Sound, Queue
<1>5. QED
  BY <1>1, <1>2, <1>3, <1>4 DEF x10_write

(* What a packet means to the receivers once it is written.                *)
LEMMA Written ==
  ASSUME NEW p \in Profiles, NEW s \in Stations(p), QueueOK(s),
         NEW c \in Packets, NEW t \in x10_write(s, c), t.tracked,
         NEW l \in Lines, NEW e \in Lines, After(l, Queue(s), e)
  PROVE  After(l, Queue(t), hear(e, c)) /\ hear(e, c) \in Lines
<1>1. Queue(s) \in Seq(Packets)
  <2>1. s.flying \in Seq(Packets) /\ s.pending \in Seq(Packets)
    BY DEF Stations
  <2>2. QED
    BY <2>1, ConcatProperties DEF Queue
<1>2. hear(e, c) \in Lines
  BY Hear
<1>3. CASE Queue(t) = Append(Queue(s), c)
  BY <1>1, <1>2, <1>3, AfterAppend
<1>4. CASE Queue(t) = Queue(s) /\ ~IsPl(c)
  <2>1. hear(e, c) = e
    BY <1>4, Hear DEF Packets
  <2>2. QED
    BY <1>2, <1>4, <2>1
<1>5. QED
  BY <1>3, <1>4, Write

(* A radio packet is queued.                                               *)
LEMMA WriteRadio ==
  ASSUME NEW p \in Profiles, NEW s \in Stations(p), QueueOK(s),
         NEW c \in Air, NEW t \in x10_write(s, c)
  PROVE  /\ Sound(t, p) /\ RadioKept(s, t)
         /\ Comparable(t) => Comparable(s)
         /\ \A l \in Lines : Comparable(t) /\ Follows(s, l) => Follows(t, l)
         /\ \A l \in Lines, u \in Units :
              Comparable(t) /\ FollowsAhead(s, l, u) => FollowsAhead(t, l, u)
<1>1. c \in Packets
  BY DEF Packets
<1>2. Sound(t, p) /\ RadioKept(s, t) /\ RecordKept(s, t) /\ (t.tracked => s.tracked)
  BY <1>1, Write
<1>3. \A l, e \in Lines : t.tracked /\ After(l, Queue(s), e) => After(l, Queue(t), e)
  <2>1. SUFFICES ASSUME NEW l \in Lines, NEW e \in Lines, t.tracked, After(l, Queue(s), e)
                 PROVE  After(l, Queue(t), e)
    OBVIOUS
  <2>2. After(l, Queue(t), hear(e, c))
    BY <1>1, <2>1, Written
  <2>3. hear(e, c) = e
    BY Hear
  <2>4. QED
    BY <2>2, <2>3
<1>4. Comparable(t) => Comparable(s)
  BY <1>2 DEF Comparable, RecordKept
<1>5. ASSUME NEW l \in Lines, Comparable(t), Follows(s, l)
      PROVE  Follows(t, l)
  <2>1. PICK e \in Lines : After(l, Queue(s), e) /\ InStep(s, e)
    BY <1>5 DEF Follows
  <2>2. InStep(t, e)
    BY <1>2, <2>1 DEF InStep, Holds, RecordKept
  <2>3. After(l, Queue(t), e)
    BY <1>3, <1>5, <2>1 DEF Comparable
  <2>4. QED
    BY <2>2, <2>3 DEF Follows
<1>6. ASSUME NEW l \in Lines, NEW u \in Units, Comparable(t), FollowsAhead(s, l, u)
      PROVE  FollowsAhead(t, l, u)
  <2>1. PICK e \in Lines : After(l, Queue(s), e) /\ Ahead(s, e, u)
    BY <1>6 DEF FollowsAhead
  <2>2. Ahead(t, e, u)
    BY <1>2, <2>1 DEF Ahead, Holds, RecordKept
  <2>3. After(l, Queue(t), e)
    BY <1>3, <1>6, <2>1 DEF Comparable
  <2>4. QED
    BY <2>2, <2>3 DEF FollowsAhead
<1>7. QED
  BY <1>2, <1>4, <1>5, <1>6

(* A power line code is recorded and queued.                               *)
LEMMA WriteCode ==
  ASSUME NEW p \in Profiles, NEW s \in Stations(p), QueueOK(s),
         NEW c \in Codes, NEW t \in x10_write(cm15a_decode_plc(s, c), c)
  PROVE  /\ Sound(t, p) /\ RadioKept(s, t)
         /\ Comparable(t) => Comparable(s)
         /\ \A l \in Lines : Comparable(t) /\ Follows(s, l) => Follows(t, l)
<1> DEFINE v == cm15a_decode_plc(s, c)
<1>1. /\ v \in Stations(p) /\ RadioKept(s, v)
      /\ v.tracked = s.tracked /\ v.divided = s.divided
      /\ v.active = s.active /\ v.flying = s.flying /\ v.pending = s.pending
  BY DecodePlc
<1>2. s.joined => v.joined
  BY DecodePlc, CodePackets
<1>3. QueueOK(v) /\ Queue(v) = Queue(s)
  BY <1>1 DEF QueueOK, Queue, Drained
<1>4. c \in Packets
  BY DEF Packets
<1>5. Sound(t, p) /\ RadioKept(v, t) /\ RecordKept(v, t) /\ (t.tracked => v.tracked)
  BY <1>1, <1>3, <1>4, Write
<1>6. Comparable(t) => Comparable(s) /\ ~v.joined
  <2> HIDE DEF v
  <2>1. QED
    BY <1>1, <1>2, <1>5 DEF Comparable, RecordKept
<1>7. ASSUME NEW l \in Lines, Comparable(t), Follows(s, l)
      PROVE  Follows(t, l)
  <2>1. PICK e \in Lines : After(l, Queue(s), e) /\ InStep(s, e)
    BY <1>7 DEF Follows
  <2>2. InStep(v, hear(e, c))
    BY <1>6, <1>7, <2>1, StaysInStep
  <2>3. After(l, Queue(t), hear(e, c)) /\ hear(e, c) \in Lines
    BY <1>1, <1>3, <1>4, <1>7, <2>1, Written DEF Comparable
  <2> HIDE DEF v
  <2>4. InStep(t, hear(e, c))
    BY <1>5, <2>2 DEF InStep, Holds, RecordKept
  <2>5. QED
    BY <2>3, <2>4 DEF Follows
<1>8. RadioKept(s, t)
  <2> HIDE DEF v
  <2>1. QED
    BY <1>1, <1>5 DEF RadioKept
<1>9. QED
  BY <1>5, <1>6, <1>7, <1>8

(* The address of a bridged RF command is queued ...                       *)
LEMMA WriteAddress ==
  ASSUME NEW p \in Profiles, NEW s \in Stations(p), QueueOK(s),
         NEW c \in Codes, c.kind = "addr", NEW t \in x10_write(cm15a_decode_plc(s, c), c),
         NEW l \in Lines, Comparable(t), FollowsAhead(s, l, c.unit)
  PROVE  FollowsAddressed(t, l, c.unit)
<1> DEFINE v == cm15a_decode_plc(s, c)
<1>1. /\ v \in Stations(p)
      /\ v.active = s.active /\ v.flying = s.flying /\ v.pending = s.pending
  BY DecodePlc
<1>2. QueueOK(v) /\ Queue(v) = Queue(s)
  BY <1>1 DEF QueueOK, Queue, Drained
<1>3. c \in Packets
  BY DEF Packets
<1>4. RecordKept(v, t)
  BY <1>1, <1>2, <1>3, Write
<1>5. PICK e \in Lines : After(l, Queue(s), e) /\ Ahead(s, e, c.unit)
  BY DEF FollowsAhead
<1>6. Addressed(v, hear(e, c), c.unit)
  BY <1>5, BridgedAddress
<1>7. After(l, Queue(t), hear(e, c)) /\ hear(e, c) \in Lines
  BY <1>1, <1>2, <1>3, <1>5, Written DEF Comparable
<1> HIDE DEF v
<1>8. Addressed(t, hear(e, c), c.unit)
  BY <1>4, <1>6 DEF Addressed, Holds, RecordKept
<1>9. QED
  BY <1>7, <1>8 DEF FollowsAddressed

(* ... and its function.                                                   *)
LEMMA WriteFunction ==
  ASSUME NEW p \in Profiles, NEW s \in Stations(p), QueueOK(s),
         NEW c \in Codes, c.kind = "func", c.func \in Power,
         NEW t \in x10_write(cm15a_decode_plc(s, c), c),
         NEW l \in Lines, NEW u \in Units, Comparable(t), FollowsAddressed(s, l, u)
  PROVE  Follows(t, l)
<1> DEFINE v == cm15a_decode_plc(s, c)
<1>1. /\ v \in Stations(p)
      /\ v.active = s.active /\ v.flying = s.flying /\ v.pending = s.pending
  BY DecodePlc
<1>2. QueueOK(v) /\ Queue(v) = Queue(s)
  BY <1>1 DEF QueueOK, Queue, Drained
<1>3. c \in Packets
  BY DEF Packets
<1>4. RecordKept(v, t)
  BY <1>1, <1>2, <1>3, Write
<1>5. PICK e \in Lines : After(l, Queue(s), e) /\ Addressed(s, e, u)
  BY DEF FollowsAddressed
<1>6. InStep(v, hear(e, c))
  BY <1>5, BridgedFunction
<1>7. After(l, Queue(t), hear(e, c)) /\ hear(e, c) \in Lines
  BY <1>1, <1>2, <1>3, <1>5, Written DEF Comparable
<1> HIDE DEF v
<1>8. InStep(t, hear(e, c))
  BY <1>4, <1>6 DEF InStep, Holds, RecordKept
<1>9. QED
  BY <1>7, <1>8 DEF Follows

-----------------------------------------------------------------------------
(* Radio.                                                                  *)

RadioOK(s, p) == FilterOK(s.dups, s.since, p) /\ SensorsOK(s.sensors, s.heard, p)

Full(s, p) == Sound(s, p) /\ RadioOK(s, p)

(* What the filter, the sensors and the switches leave alone.              *)
CoreKept(s, t) ==
  /\ RecordKept(s, t) /\ t.tracked = s.tracked
  /\ t.active = s.active /\ t.flying = s.flying /\ t.pending = s.pending

(* What every function does: it keeps the station sound, and what the      *)
(* receivers will be in step with the record, unless it names an exception *)
(* of RecordMatchesLine.                                                   *)
Leads(s, t, p) ==
  /\ Full(t, p)
  /\ Comparable(t) => Comparable(s)
  /\ \A l \in Lines : Comparable(t) /\ Follows(s, l) => Follows(t, l)

(* A step of the filter, the sensors or the switches leaves the record as  *)
(* much in step as it was.                                                 *)
LEMMA CoreLeads ==
  ASSUME NEW p \in Profiles, NEW s \in Stations(p), QueueOK(s),
         NEW t \in Stations(p), CoreKept(s, t), RadioOK(t, p)
  PROVE  Leads(s, t, p)
<1>1. QueueOK(t) /\ Queue(t) = Queue(s)
  BY DEF CoreKept, QueueOK, Queue, Drained
<1>2. Comparable(t) => Comparable(s)
  BY DEF CoreKept, RecordKept, Comparable
<1>3. \A e : InStep(s, e) => InStep(t, e)
  BY DEF CoreKept, RecordKept, InStep, Holds
<1>4. QED
  BY <1>1, <1>2, <1>3 DEF Leads, Full, Sound, Follows

(* Steps of one C function add up.                                         *)
LEMMA LeadsOn ==
  ASSUME NEW p, NEW s, NEW t, NEW v, Leads(s, t, p), Leads(t, v, p)
  PROVE  Leads(s, v, p)
  BY DEF Leads

(* Filter and sensors are untouched by what touches only the record.       *)
LEMMA RadioStays ==
  ASSUME NEW p, NEW s, NEW t, RadioOK(s, p), RadioKept(s, t)
  PROVE  RadioOK(t, p)
  BY DEF RadioOK, RadioKept

(* The three ways to transmit.                                             *)
LEMMA SendRadio ==
  ASSUME NEW p \in Profiles, NEW s, Full(s, p), NEW c \in Air, NEW t \in x10_write(s, c)
  PROVE  Leads(s, t, p)
<1>1. s \in Stations(p) /\ QueueOK(s) /\ RadioOK(s, p)
  BY DEF Full, Sound
<1>2. /\ Sound(t, p) /\ RadioKept(s, t)
      /\ Comparable(t) => Comparable(s)
      /\ \A l \in Lines : Comparable(t) /\ Follows(s, l) => Follows(t, l)
  BY <1>1, WriteRadio
<1>3. QED
  BY <1>1, <1>2, RadioStays DEF Leads, Full

(* A power line code, pl_tx_...(): decoded, then written.                  *)
LEMMA SendCode ==
  ASSUME NEW p \in Profiles, NEW S, \A s \in S : Full(s, p), NEW c \in Codes,
         NEW t \in pl_tx(S, c)
  PROVE  \E s \in S : Leads(s, t, p) /\ t \in x10_write(cm15a_decode_plc(s, c), c)
<1>1. PICK s \in S : t \in x10_write(cm15a_decode_plc(s, c), c)
  BY DEF pl_tx
<1>2. s \in Stations(p) /\ QueueOK(s) /\ RadioOK(s, p)
  BY DEF Full, Sound
<1>3. /\ Sound(t, p) /\ RadioKept(s, t)
      /\ Comparable(t) => Comparable(s)
      /\ \A l \in Lines : Comparable(t) /\ Follows(s, l) => Follows(t, l)
  BY <1>1, <1>2, WriteCode
<1>4. Leads(s, t, p)
  BY <1>2, <1>3, RadioStays DEF Leads, Full
<1>5. QED
  BY <1>1, <1>4

(* The RF repeater, also between a command's record and its bridging.      *)
LEMMA Repeat ==
  ASSUME NEW p \in Profiles, NEW s, Full(s, p), NEW fr \in p.rf, NEW t \in repeatRF(s, fr)
  PROVE  /\ Leads(s, t, p)
         /\ \A l \in Lines, u \in Units :
              Comparable(t) /\ FollowsAhead(s, l, u) => FollowsAhead(t, l, u)
<1> DEFINE c == [fr EXCEPT !.mark = "tx"]
<1>1. c \in Air
  BY FramePackets
<1>2. s \in Stations(p) /\ QueueOK(s) /\ RadioOK(s, p)
  BY DEF Full, Sound
<1>3. CASE t \in x10_write(s, c)
  <2> HIDE DEF c
  <2>1. Leads(s, t, p)
    BY <1>1, <1>3, SendRadio
  <2>2. \A l \in Lines, u \in Units :
          Comparable(t) /\ FollowsAhead(s, l, u) => FollowsAhead(t, l, u)
    BY <1>1, <1>2, <1>3, WriteRadio
  <2>3. QED
    BY <2>1, <2>2
<1>4. CASE t = s
  BY <1>4 DEF Leads
<1>5. QED
  BY <1>3, <1>4 DEF repeatRF

(* What an RF command for a unit does to the record before it is repeated  *)
(* and bridged.                                                            *)
UnitRecorded(v, fr) ==
  LET a == select(v, fr.unit)
  IN  [a EXCEPT !.h = hua_func(@, fr.power), !.tracked = @ /\ bridges(a),
                !.divided = @ \/ a.h.selected # {fr.unit}]

(* The selection and the function of an RF command are recorded: the       *)
(* record is ahead of the line by that unit, unless it is not bridged.     *)
LEMMA RecordUnit ==
  ASSUME NEW p \in Profiles, NEW s, Full(s, p), NEW fr, fr.unit \in Units, fr.power \in Power
  PROVE  LET b == UnitRecorded(s, fr)
         IN  /\ Full(b, p) /\ (Comparable(b) => Comparable(s) /\ bridges(b))
             /\ \A l \in Lines : Comparable(b) /\ Follows(s, l) => FollowsAhead(b, l, fr.unit)
<1> DEFINE u == fr.unit
           a == select(s, fr.unit)
           row == hua_func(a.h, fr.power)
           tr == a.tracked /\ bridges(a)
           dv == a.divided \/ a.h.selected # {fr.unit}
           b == [a EXCEPT !.h = row, !.tracked = tr, !.divided = dv]
<1>1. s \in Stations(p) /\ QueueOK(s) /\ RadioOK(s, p)
  BY DEF Full, Sound
<1>2. /\ a \in Stations(p) /\ RadioKept(s, a) /\ a.h = hua_add(s.h, u)
      /\ a.joined = (s.joined \/ (s.ended /\ ~s.h.function /\ s.h.selected # {}))
      /\ a.ended = s.ended /\ a.tracked = s.tracked /\ a.divided = s.divided
      /\ a.parted = s.parted
      /\ a.active = s.active /\ a.flying = s.flying /\ a.pending = s.pending
  BY <1>1, Select
<1>3. UnitRecorded(s, fr) = b
  BY DEF UnitRecorded
<1> HIDE DEF a
<1>4. a.h \in House /\ a.h.selected \in SUBSET Units
  BY <1>2 DEF Stations, House
<1>5. row = switch(a.h, a.h.selected, fr.power)
  BY DEF hua_func
<1>6. row \in House
  BY <1>4, HouseRows
<1>7. row.selected = a.h.selected /\ row.function = TRUE
  <2> DEFINE h == a.h
             w == fr.power
             sw == switch(h, h.selected, w)
  <2>1. h \in House /\ h.selected \in SUBSET Units /\ w \in Power
    BY <1>4
  <2>2. row = sw
    BY <1>5
  <2> HIDE DEF h, w, row
  <2>3. sw.selected = h.selected /\ sw.function = TRUE
    BY <2>1, SwitchedRow
  <2>4. QED
    BY <2>2, <2>3 DEF h
<1>8. \A v \in Units : row.state[v] = IF v \in a.h.selected THEN fr.power ELSE a.h.state[v]
  BY <1>4, <1>5, SwitchedState
<1>9. /\ a.h.state = s.h.state
      /\ a.h.selected = IF s.h.function THEN {u} ELSE s.h.selected \cup {u}
  BY <1>1, <1>2 DEF Stations, House, hua_add
<1>10. tr \in BOOLEAN /\ dv \in BOOLEAN
  OBVIOUS
<1>11. bridges(b) = bridges(a)
  BY <1>2 DEF bridges, Stations
<1>12. (tr => a.tracked /\ bridges(a)) /\ (~dv => ~a.divided /\ a.h.selected = {u})
  OBVIOUS
<1> HIDE DEF row, tr, dv
<1>13. /\ b \in Stations(p) /\ RadioKept(a, b)
       /\ b.h = row /\ b.tracked = tr /\ b.divided = dv
       /\ b.joined = a.joined /\ b.ended = a.ended /\ b.parted = a.parted
       /\ b.active = a.active /\ b.flying = a.flying /\ b.pending = a.pending
  BY <1>2, <1>6, <1>10 DEF Stations, RadioKept
<1> HIDE DEF b
<1>14. Full(b, p) /\ Queue(b) = Queue(s)
  <2>1. RadioKept(s, b)
    BY <1>2, <1>13 DEF RadioKept
  <2>2. RadioOK(b, p)
    BY <1>1, <2>1, RadioStays
  <2>3. QueueOK(b) /\ Queue(b) = Queue(s)
    BY <1>1, <1>2, <1>13 DEF QueueOK, Drained, Queue
  <2>4. QED
    BY <1>13, <2>2, <2>3 DEF Full, Sound
<1>15. Comparable(b) => Comparable(s) /\ bridges(b)
  BY <1>2, <1>11, <1>12, <1>13 DEF Comparable
<1>16. ASSUME NEW l \in Lines, Comparable(b), Follows(s, l)
       PROVE  FollowsAhead(b, l, u)
  <2>1. PICK e \in Lines : After(l, Queue(s), e) /\ InStep(s, e)
    BY <1>16 DEF Follows
  <2>2. /\ a.h.selected = {u}
        /\ ~(s.ended /\ ~s.h.function /\ s.h.selected # {})
    BY <1>2, <1>12, <1>13, <1>16 DEF Comparable
  <2>3. \A v \in Units \ {u} : b.h.state[v] = s.h.state[v]
    BY <1>8, <1>9, <1>13, <2>2
  <2>4. e.closed \/ e.selected \subseteq {u}
    <3>1. CASE s.h.function
      BY <2>1, <3>1 DEF InStep
    <3>2. CASE ~s.h.function
      BY <1>9, <2>1, <2>2, <3>2 DEF InStep
    <3>3. QED
      BY <3>1, <3>2
  <2>5. Holds(b, e, {u})
    BY <1>2, <1>13, <2>1, <2>3 DEF InStep, Holds, getstatus
  <2>6. Ahead(b, e, u)
    BY <1>7, <1>13, <2>1, <2>2, <2>4, <2>5 DEF Ahead
  <2>7. QED
    BY <1>14, <2>1, <2>6 DEF FollowsAhead
<1>17. QED
  BY <1>3, <1>14, <1>15, <1>16

(* The RF command for a unit, whole.                                       *)
LEMMA DecodeUnit ==
  ASSUME NEW p \in Profiles, NEW s, Full(s, p), NEW fr \in p.rf,
         fr.unit \in Units, fr.power \in Power,
         NEW t,
         LET b == UnitRecorded(s, fr)
         IN  t \in IF bridges(b) THEN pl_unit_func(repeatRF(b, fr), fr.unit, fr.power)
                                 ELSE repeatRF(b, fr)
  PROVE  Leads(s, t, p)
<1> DEFINE b == UnitRecorded(s, fr)
<1>1. /\ Full(b, p) /\ (Comparable(b) => Comparable(s) /\ bridges(b))
      /\ \A l \in Lines : Comparable(b) /\ Follows(s, l) => FollowsAhead(b, l, fr.unit)
  BY RecordUnit
<1>2. t \in IF bridges(b) THEN pl_unit_func(repeatRF(b, fr), fr.unit, fr.power)
                          ELSE repeatRF(b, fr)
  OBVIOUS
<1> HIDE DEF b
<1>3. CASE ~bridges(b)
  <2>1. Leads(b, t, p)
    BY <1>1, <1>2, <1>3, Repeat
  <2>2. QED
    BY <1>1, <1>3, <2>1 DEF Leads
<1>4. CASE bridges(b)
  <2>1. PICK c : c = Addr(fr.unit)
    OBVIOUS
  <2>2. c \in Codes /\ c.kind = "addr" /\ c.unit = fr.unit
    BY <2>1, CodePackets DEF Addr
  <2>3. PICK f : f = Func(fr.power)
    OBVIOUS
  <2>4. fr.power \in Functions
    BY DEF Power, Functions
  <2>5. f \in Codes /\ f.kind = "func" /\ f.func \in Power
    BY <2>3, <2>4, CodePackets DEF Func
  <2>6. t \in pl_tx(pl_tx(repeatRF(b, fr), c), f)
    BY <1>2, <1>4, <2>1, <2>3 DEF pl_unit_func
  <2>7. \A m \in repeatRF(b, fr) : Full(m, p)
    BY <1>1, Repeat DEF Leads
  <2>8. \A n \in pl_tx(repeatRF(b, fr), c) :
          \E m \in repeatRF(b, fr) :
            Leads(m, n, p) /\ n \in x10_write(cm15a_decode_plc(m, c), c)
    BY <2>2, <2>7, SendCode
  <2>9. \A n \in pl_tx(repeatRF(b, fr), c) : Full(n, p)
    BY <2>8 DEF Leads
  <2>10. PICK n \in pl_tx(repeatRF(b, fr), c) :
           Leads(n, t, p) /\ t \in x10_write(cm15a_decode_plc(n, f), f)
    BY <2>5, <2>6, <2>9, SendCode
  <2>11. PICK m \in repeatRF(b, fr) :
           Leads(m, n, p) /\ n \in x10_write(cm15a_decode_plc(m, c), c)
    BY <2>8
  <2>12. /\ Leads(b, m, p)
         /\ \A l \in Lines, u \in Units :
              Comparable(m) /\ FollowsAhead(b, l, u) => FollowsAhead(m, l, u)
    BY <1>1, <2>11, Repeat
  <2>13. Comparable(t) => Comparable(n) /\ Comparable(m) /\ Comparable(b) /\ Comparable(s)
    BY <1>1, <2>10, <2>11, <2>12 DEF Leads
  <2>14. ASSUME NEW l \in Lines, Comparable(t), Follows(s, l)
         PROVE  Follows(t, l)
    <3>1. FollowsAhead(m, l, c.unit)
      BY <1>1, <2>2, <2>12, <2>13, <2>14
    <3>2. m \in Stations(p) /\ QueueOK(m) /\ n \in Stations(p) /\ QueueOK(n)
      BY <2>7, <2>9, <2>10, <2>11 DEF Full, Sound
    <3>3. FollowsAddressed(n, l, c.unit)
      BY <2>2, <2>11, <2>13, <2>14, <3>1, <3>2, WriteAddress
    <3>4. QED
      BY <2>2, <2>5, <2>10, <2>14, <3>2, <3>3, WriteFunction
  <2>15. Full(t, p)
    BY <2>10 DEF Leads
  <2>16. QED
    BY <2>13, <2>14, <2>15 DEF Leads
<1>5. QED
  BY <1>3, <1>4

(* cm15a_decode_rf().                                                      *)
LEMMA DecodeRf ==
  ASSUME NEW p \in Profiles, NEW s, Full(s, p), NEW fr \in p.rf,
         NEW t \in cm15a_decode_rf(s, fr)
  PROVE  Leads(s, t, p)
<1> DEFINE dups == dup_filter(s.dups, fr)
           ages == [s.since EXCEPT ![fr] = 0]
           v == [s EXCEPT !.dups = dup_filter(@, fr), !.since[fr] = 0]
<1>1. s \in Stations(p) /\ QueueOK(s) /\ RadioOK(s, p)
  BY DEF Full, Sound
<1>2. /\ s.dups \in Tables(p) /\ s.since \in Ages(p)
      /\ s.sensors \in Seq(Records) /\ s.heard \in Heards(p)
      /\ FilterOK(s.dups, s.since, p) /\ SensorsOK(s.sensors, s.heard, p)
  BY <1>1 DEF Stations, RadioOK
<1>3. CASE is_dup(s.dups, fr)
  <2>1. t = [s EXCEPT !.dups = dups]
    BY <1>3 DEF cm15a_decode_rf
  <2>2. dups = swept(s.dups, fr)
    BY <1>3 DEF dup_filter
  <2>3. dups \in Tables(p) /\ FilterOK(dups, s.since, p)
    BY <1>2, <2>2, Swept, SweptOK
  <2> HIDE DEF dups
  <2>4. /\ t \in Stations(p) /\ CoreKept(s, t)
        /\ t.dups = dups /\ t.since = s.since /\ t.sensors = s.sensors /\ t.heard = s.heard
    BY <1>1, <2>1, <2>3 DEF Stations, CoreKept, RecordKept
  <2>5. RadioOK(t, p)
    BY <1>2, <2>3, <2>4 DEF RadioOK
  <2>6. QED
    BY <1>1, <2>4, <2>5, CoreLeads
<1>4. CASE ~is_dup(s.dups, fr)
  <2>1. dups \in Tables(p) /\ ages \in Ages(p) /\ FilterOK(dups, ages, p)
    BY <1>2, <1>4, FilterPass
  <2>2. v = [s EXCEPT !.dups = dups, !.since = ages]
    OBVIOUS
  <2> HIDE DEF dups, ages, v
  <2>3. /\ v \in Stations(p) /\ CoreKept(s, v)
        /\ v.dups = dups /\ v.since = ages /\ v.sensors = s.sensors /\ v.heard = s.heard
    BY <1>1, <2>1, <2>2 DEF Stations, CoreKept, RecordKept
  <2>4. Leads(s, v, p) /\ Full(v, p)
    <3>1. RadioOK(v, p)
      BY <1>2, <2>1, <2>3 DEF RadioOK
    <3>2. QED
      BY <1>1, <2>3, <3>1, CoreLeads DEF Leads
  <2>5. CASE fr.kind = "cam"
    <3>1. t \in repeatRF(v, fr)
      BY <1>4, <2>5 DEF cm15a_decode_rf, v
    <3>2. QED
      BY <2>4, <3>1, Repeat, LeadsOn
  <2>6. CASE fr.kind = "sec"
    <3> DEFINE x == fr.sensor
               sens == hua_sec_event(v.sensors, x.addr, x.short, fr.status)
               last == [v.heard EXCEPT ![x] = fr.status]
               w == [v EXCEPT !.sensors = sens, !.heard = last]
    <3>1. t \in repeatRF(w, fr)
      BY <1>4, <2>6 DEF cm15a_decode_rf, v
    <3>2. x \in SensorsOf(p) /\ fr.status \in 0 .. 255
      BY <2>6, FramePackets
    <3>3. /\ sens \in Seq(Records) /\ last \in Heards(p) /\ SensorsOK(sens, last, p)
      BY <1>2, <2>3, <3>2, SecEvent
    <3> HIDE DEF sens, last
    <3>4. /\ w \in Stations(p) /\ CoreKept(v, w)
          /\ w.dups = v.dups /\ w.since = v.since /\ w.sensors = sens /\ w.heard = last
      BY <2>3, <3>3 DEF Stations, CoreKept, RecordKept
    <3> HIDE DEF w
    <3>5. RadioOK(w, p)
      BY <2>1, <2>3, <3>3, <3>4 DEF RadioOK
    <3>6. Leads(v, w, p) /\ Full(w, p)
      BY <2>3, <2>4, <3>4, <3>5, CoreLeads DEF Full, Sound, Leads
    <3>7. Leads(w, t, p)
      BY <3>1, <3>6, Repeat
    <3>8. QED
      BY <2>4, <3>6, <3>7, LeadsOn
  <2>7. CASE fr.kind = "house"
    <3>1. CASE bridges(v)
      <4>1. PICK c : c = Func("dim")
        OBVIOUS
      <4>2. c \in Codes
        BY <4>1, CodePackets DEF Functions
      <4>3. t \in pl_tx(repeatRF(v, fr), c)
        BY <1>4, <2>7, <3>1, <4>1 DEF cm15a_decode_rf, v
      <4>4. \A m \in repeatRF(v, fr) : Leads(v, m, p) /\ Full(m, p)
        BY <2>4, Repeat DEF Leads
      <4>5. PICK m \in repeatRF(v, fr) : Leads(m, t, p)
        BY <4>2, <4>3, <4>4, SendCode
      <4>6. Leads(v, m, p)
        BY <4>4
      <4>7. QED
        BY <2>4, <4>5, <4>6, LeadsOn
    <3>2. CASE ~bridges(v)
      <4>1. t \in repeatRF(v, fr)
        BY <1>4, <2>7, <3>2 DEF cm15a_decode_rf, v
      <4>2. QED
        BY <2>4, <4>1, Repeat, LeadsOn
    <3>3. QED
      BY <3>1, <3>2
  <2>8. CASE fr.kind = "unit"
    <3>1. fr.unit \in Units /\ fr.power \in Power
      BY <2>8, FramePackets
    <3>2. LET b == UnitRecorded(v, fr)
          IN  t \in IF bridges(b) THEN pl_unit_func(repeatRF(b, fr), fr.unit, fr.power)
                                  ELSE repeatRF(b, fr)
      BY <1>4, <2>8 DEF cm15a_decode_rf, UnitRecorded, v
    <3>3. Leads(v, t, p)
      BY <2>4, <3>1, <3>2, DecodeUnit
    <3>4. QED
      BY <2>4, <3>3, LeadsOn
  <2>9. QED
    BY <2>5, <2>6, <2>7, <2>8, FramePackets
<1>5. QED
  BY <1>3, <1>4

-----------------------------------------------------------------------------
(* The invariant.                                                          *)

StationIInv ==
  /\ profile \in Profiles
  /\ Full(d, profile)
  /\ line \in Lines
  /\ Comparable(d) => Follows(d, line)

(* At startup nothing is known, heard, swallowed or queued.                *)
LEMMA InitIInv == Init => StationIInv
<1> SUFFICES ASSUME Init
             PROVE  StationIInv
  OBVIOUS
<1> USE DEF Init
<1> DEFINE ages == [fr \in profile.rf |-> DupTime + 1]
           none == [s \in Sensors |-> -1]
           lit  == Units \cap profile.lit
<1>1. profile \in Profiles
  OBVIOUS
<1>2. InitHouse \in House
  BY DEF InitHouse, House
<1>3. InitDups \in Tables(profile) /\ \A i \in 1 .. DupMax : ~InitDups[i].used
  BY DEF InitDups, Tables, Entries, Unused
<1>4. ages \in Ages(profile) /\ \A fr \in profile.rf : ages[fr] = DupTime + 1
  BY DupAssumption DEF Ages
<1>5. /\ <<>> \in Seq(Records) /\ none \in Heards(profile) /\ SensorsOK(<<>>, none, profile)
  BY NoSensors DEF Sensors, SensorsOf
<1>6. <<>> \in Seq(Packets) /\ Len(<<>>) = 0
  OBVIOUS
<1>7. /\ d.h = InitHouse /\ d.sensors = <<>> /\ d.dups = InitDups
      /\ d.flying = <<>> /\ d.pending = <<>> /\ d.active = FALSE
      /\ d.ended = FALSE /\ d.since = ages /\ d.heard = none /\ d.parted = lit
  OBVIOUS
<1>a. line \in Lines /\ line.selected = {} /\ line.closed = FALSE
      /\ \A u \in Units : line.power[u] = IF u \in lit THEN "on" ELSE "off"
  BY DEF Lines, Power
<1> HIDE DEF ages, none, lit
<1>8. d \in Stations(profile)
  <2>1. d = [ h |-> InitHouse, sensors |-> <<>>, dups |-> InitDups,
              RfToPl |-> TRUE, RfToRf |-> FALSE,
              active |-> FALSE, flying |-> <<>>, pending |-> <<>>,
              tracked |-> TRUE, ended |-> FALSE, joined |-> FALSE, divided |-> FALSE,
              parted |-> lit, since |-> ages, heard |-> none ]
    BY DEF ages, none, lit
  <2>2. lit \in SUBSET Units
    BY DEF lit
  <2>3. QED
    BY <2>2, <1>2, <1>3, <1>4, <1>5, <1>6, <2>1 DEF Stations
<1>9. QueueOK(d)
  BY <1>6, <1>7, StationAssumption DEF QueueOK, Drained
<1>10. FilterOK(InitDups, ages, profile)
  BY <1>3, <1>4, DupAssumption DEF FilterOK
<1>11. Full(d, profile)
  BY <1>5, <1>7, <1>8, <1>9, <1>10 DEF Full, Sound, RadioOK
<1>12. line \in Lines
  BY <1>a
<1>13. InStep(d, line)
  BY <1>7, <1>a DEF InStep, Holds, getstatus, InitHouse
<1>14. After(line, Queue(d), line)
  <2>1. Queue(d) = <<>>
    BY <1>7 DEF Queue
  <2>2. QED
    BY <1>12, <2>1, AfterNothing
<1>15. Follows(d, line)
  BY <1>12, <1>13, <1>14 DEF Follows
<1>16. QED
  BY <1>1, <1>11, <1>12, <1>15 DEF StationIInv

(* Steps the receivers do not hear.                                        *)
LEMMA Quiet ==
  ASSUME StationIInv, Leads(d, d', profile), UNCHANGED <<profile, line>>
  PROVE  StationIInv'
<1>1. /\ Full(d', profile) /\ line \in Lines
      /\ Comparable(d') => Comparable(d) /\ Follows(d, line)
      /\ Comparable(d') => Follows(d', line)
  BY DEF StationIInv, Leads
<1>2. QED
  BY <1>1 DEF StationIInv

(* "pl a1", "pl a on", "pl a1 xdim": recorded and queued.                  *)
LEMMA PlCodeStep == StationIInv /\ PlCode => StationIInv'
<1> SUFFICES ASSUME StationIInv, PlCode
             PROVE  StationIInv'
  OBVIOUS
<1>1. PICK c \in profile.pl : d' \in pl_tx({d}, c)
  BY DEF PlCode
<1>2. profile \in Profiles /\ Full(d, profile) /\ c \in Codes
  BY <1>1, StationAssumption, CodePackets DEF StationIInv
<1>3. Leads(d, d', profile)
  BY <1>1, <1>2, SendCode
<1>4. QED
  BY <1>3, Quiet DEF PlCode

(* "pl a1 on": the function only after its address, each a packet.         *)
LEMMA PlUnitFuncStep == StationIInv /\ PlUnitFunc => StationIInv'
<1> SUFFICES ASSUME StationIInv, PlUnitFunc
             PROVE  StationIInv'
  OBVIOUS
<1>1. PICK a \in profile.pl, f \in profile.pl :
        /\ a.kind = "addr" /\ f.kind = "func"
        /\ d' \in pl_unit_func({d}, a.unit, f.func)
  BY DEF PlUnitFunc
<1>2. profile \in Profiles /\ Full(d, profile) /\ a \in Codes /\ f \in Codes
  BY <1>1, StationAssumption, CodePackets DEF StationIInv
<1>3. a = Addr(a.unit) /\ f = Func(f.func)
  BY <1>1, <1>2, CodePackets
<1>4. d' \in pl_tx(pl_tx({d}, a), f)
  BY <1>1, <1>3 DEF pl_unit_func
<1>5. \A n \in pl_tx({d}, a) : Leads(d, n, profile) /\ Full(n, profile)
  BY <1>2, SendCode DEF Leads
<1>6. PICK n \in pl_tx({d}, a) : Leads(n, d', profile)
  BY <1>2, <1>4, <1>5, SendCode
<1>7. Leads(d, d', profile)
  BY <1>5, <1>6, LeadsOn
<1>8. QED
  BY <1>7, Quiet DEF PlUnitFunc

(* "rf a1 on": decoded as if received, then sent by radio.                 *)
LEMMA RfCommandStep == StationIInv /\ RfCommand => StationIInv'
<1> SUFFICES ASSUME StationIInv, RfCommand
             PROVE  StationIInv'
  OBVIOUS
<1>1. PICK fr \in profile.rf : d' \in UNION {x10_write(s, fr) : s \in cm15a_decode_rf(d, fr)}
  BY DEF RfCommand
<1>2. PICK s \in cm15a_decode_rf(d, fr) : d' \in x10_write(s, fr)
  BY <1>1
<1>3. profile \in Profiles /\ Full(d, profile) /\ fr \in Air
  BY FramePackets DEF StationIInv
<1>4. Leads(d, s, profile) /\ Full(s, profile)
  BY <1>3, DecodeRf DEF Leads
<1>5. Leads(s, d', profile)
  BY <1>2, <1>3, <1>4, SendRadio
<1>6. Leads(d, d', profile)
  BY <1>4, <1>5, LeadsOn
<1>7. QED
  BY <1>6, Quiet DEF RfCommand

(* A frame from a remote or a sensor.                                      *)
LEMMA ReceiveRfStep == StationIInv /\ ReceiveRf => StationIInv'
<1> SUFFICES ASSUME StationIInv, ReceiveRf
             PROVE  StationIInv'
  OBVIOUS
<1>1. PICK fr \in profile.rf : d' \in cm15a_decode_rf(d, fr)
  BY DEF ReceiveRf
<1>2. Leads(d, d', profile)
  BY <1>1, DecodeRf DEF StationIInv
<1>3. QED
  BY <1>2, Quiet DEF ReceiveRf

(* "pt": a packet that is queued and recorded nowhere.                     *)
LEMMA RawPacketStep == StationIInv /\ RawPacket => StationIInv'
<1> SUFFICES ASSUME StationIInv, RawPacket
             PROVE  StationIInv'
  OBVIOUS
<1>1. PICK c : c = [kind |-> "raw"]
  OBVIOUS
<1>2. c \in Air
  BY <1>1 DEF Air
<1>3. d' \in x10_write(d, c)
  BY <1>1 DEF RawPacket
<1>4. Leads(d, d', profile)
  BY <1>2, <1>3, SendRadio DEF StationIInv
<1>5. QED
  BY <1>4, Quiet DEF RawPacket

(* The repeater commands set a switch that the record does not depend on.  *)
LEMMA RepeaterSwitchStep == StationIInv /\ RepeaterSwitch => StationIInv'
<1> SUFFICES ASSUME StationIInv, RepeaterSwitch
             PROVE  StationIInv'
  OBVIOUS
<1>1. d \in Stations(profile) /\ QueueOK(d) /\ RadioOK(d, profile)
  BY DEF StationIInv, Full, Sound
<1>2. PICK b \in BOOLEAN : d' = [d EXCEPT !.RfToPl = b] \/ d' = [d EXCEPT !.RfToRf = b]
  BY DEF RepeaterSwitch
<1>3. /\ d' \in Stations(profile) /\ CoreKept(d, d')
      /\ d'.dups = d.dups /\ d'.since = d.since
      /\ d'.sensors = d.sensors /\ d'.heard = d.heard
  BY <1>1, <1>2 DEF Stations, CoreKept, RecordKept
<1>4. Leads(d, d', profile)
  BY <1>1, <1>3, CoreLeads DEF RadioOK, StationIInv
<1>5. QED
  BY <1>4, Quiet DEF RepeaterSwitch

(* "st" sorts the sensors, which moves records and changes none.           *)
LEMMA ShowStep == StationIInv /\ Show => StationIInv'
<1> SUFFICES ASSUME StationIInv, Show
             PROVE  StationIInv'
  OBVIOUS
<1>1. d \in Stations(profile) /\ QueueOK(d) /\ RadioOK(d, profile) /\ profile \in Profiles
  BY DEF StationIInv, Full, Sound
<1>2. PICK order \in Bijection(DOMAIN d.sensors, DOMAIN d.sensors) :
        LET shown == [i \in DOMAIN d.sensors |-> d.sensors[order[i]]]
        IN  /\ \A i, j \in DOMAIN shown : i < j => shown[i].addr < shown[j].addr
            /\ d' = [d EXCEPT !.sensors = shown]
  BY DEF Show
<1> DEFINE shown == [i \in DOMAIN d.sensors |-> d.sensors[order[i]]]
<1>3. shown \in Seq(Records) /\ SensorsOK(shown, d.heard, profile)
  <2>1. d.sensors \in Seq(Records) /\ d.heard \in Heards(profile)
        /\ SensorsOK(d.sensors, d.heard, profile)
    BY <1>1 DEF Stations, RadioOK
  <2>2. QED
    BY <1>1, <1>2, <2>1, Sorted
<1>4. d' = [d EXCEPT !.sensors = shown]
  BY <1>2
<1> HIDE DEF shown
<1>5. /\ d' \in Stations(profile) /\ CoreKept(d, d')
      /\ d'.dups = d.dups /\ d'.since = d.since /\ d'.sensors = shown /\ d'.heard = d.heard
  BY <1>1, <1>3, <1>4 DEF Stations, CoreKept, RecordKept
<1>6. RadioOK(d', profile)
  BY <1>1, <1>3, <1>5 DEF RadioOK
<1>7. Leads(d, d', profile)
  BY <1>1, <1>5, <1>6, CoreLeads
<1>8. QED
  BY <1>7, Quiet DEF Show

(* Time passes: entries of the filter run out as their frames age.         *)
LEMMA TickStep == StationIInv /\ Tick => StationIInv'
<1> SUFFICES ASSUME StationIInv, Tick
             PROVE  StationIInv'
  OBVIOUS
<1> DEFINE dups == tick(d.dups)
           ages == Aged(d.since, profile)
<1>1. d \in Stations(profile) /\ QueueOK(d) /\ RadioOK(d, profile) /\ profile \in Profiles
  BY DEF StationIInv, Full, Sound
<1>2. dups \in Tables(profile) /\ ages \in Ages(profile) /\ FilterOK(dups, ages, profile)
  BY <1>1, FilterTick DEF Stations, RadioOK
<1>3. d' = [d EXCEPT !.dups = dups, !.since = ages]
  BY DEF Tick, Aged
<1> HIDE DEF dups, ages
<1>4. /\ d' \in Stations(profile) /\ CoreKept(d, d')
      /\ d'.dups = dups /\ d'.since = ages /\ d'.sensors = d.sensors /\ d'.heard = d.heard
  BY <1>1, <1>2, <1>3 DEF Stations, CoreKept, RecordKept
<1>5. RadioOK(d', profile)
  BY <1>1, <1>2, <1>4 DEF RadioOK
<1>6. Leads(d, d', profile)
  BY <1>1, <1>4, <1>5, CoreLeads
<1>7. QED
  BY <1>6, Quiet DEF Tick

(* "st 0" forgets a selection only if there is none (tracked).             *)
LEMMA ResetStep == StationIInv /\ Reset => StationIInv'
<1> SUFFICES ASSUME StationIInv, Reset
             PROVE  StationIInv'
  OBVIOUS
<1> DEFINE none == [x \in Sensors |-> -1]
           tr   == d.tracked /\ d.h.selected = {}
           lit  == {u \in Units : d.h.state[u] = "on"}
<1>1. d \in Stations(profile) /\ QueueOK(d) /\ RadioOK(d, profile) /\ profile \in Profiles
  BY DEF StationIInv, Full, Sound
<1>2. InitHouse \in House /\ tr \in BOOLEAN
  BY DEF InitHouse, House
<1>3. <<>> \in Seq(Records) /\ none \in Heards(profile) /\ SensorsOK(<<>>, none, profile)
  BY <1>1, NoSensors DEF Sensors, SensorsOf
<1>4. d' = [d EXCEPT !.h = InitHouse, !.sensors = <<>>, !.tracked = tr,
                     !.parted = d.parted \cup lit, !.heard = none]
  BY DEF Reset
<1>5. /\ tr => d.tracked /\ d.h.selected = {}
      /\ lit \in SUBSET Units
      /\ \A u \in Units : u \notin lit => getstatus(d.h, u) = "off"
  BY DEF getstatus
<1> HIDE DEF none, tr, lit
<1>6. /\ d' \in Stations(profile)
      /\ d'.h = InitHouse /\ d'.tracked = tr /\ d'.sensors = <<>> /\ d'.heard = none
      /\ d'.ended = d.ended /\ d'.joined = d.joined /\ d'.divided = d.divided
      /\ d'.parted = d.parted \cup lit
      /\ d'.active = d.active /\ d'.flying = d.flying /\ d'.pending = d.pending
      /\ d'.dups = d.dups /\ d'.since = d.since
  BY <1>1, <1>2, <1>3, <1>4, <1>5 DEF Stations
<1>7. QueueOK(d') /\ Queue(d') = Queue(d)
  BY <1>1, <1>6 DEF QueueOK, Drained, Queue
<1>8. RadioOK(d', profile)
  BY <1>1, <1>3, <1>6 DEF RadioOK
<1>9. Comparable(d') => Comparable(d) /\ d.h.selected = {}
  BY <1>5, <1>6 DEF Comparable
<1>10. ASSUME NEW l \in Lines, Comparable(d'), Follows(d, l)
       PROVE  Follows(d', l)
  <2>1. PICK e \in Lines : After(l, Queue(d), e) /\ InStep(d, e)
    BY <1>10 DEF Follows
  <2>2. Holds(d', e, {})
    <3>1. SUFFICES ASSUME NEW u \in Units, u \notin d.parted, u \notin lit
                   PROVE  getstatus(d'.h, u) = e.power[u]
      BY <1>6 DEF Holds
    <3>2. getstatus(d.h, u) = e.power[u] /\ getstatus(d.h, u) = "off"
      BY <1>5, <2>1, <3>1 DEF InStep, Holds
    <3>3. getstatus(d'.h, u) = "off"
      BY <1>6 DEF getstatus, InitHouse
    <3>4. QED
      BY <3>2, <3>3
  <2>3. InStep(d', e)
    BY <1>6, <1>9, <1>10, <2>1, <2>2 DEF InStep, InitHouse
  <2>4. QED
    BY <1>7, <2>1, <2>3 DEF Follows
<1>11. Leads(d, d', profile)
  BY <1>6, <1>7, <1>8, <1>9, <1>10 DEF Leads, Full, Sound
<1>12. QED
  BY <1>11, Quiet DEF Reset

(* A code from the line is heard by the daemon and by the receivers; were  *)
(* anything waiting, it would overtake it (tracked).                       *)
LEMMA ReceivePlStep == StationIInv /\ ReceivePl => StationIInv'
<1> SUFFICES ASSUME StationIInv, ReceivePl
             PROVE  StationIInv'
  OBVIOUS
<1>1. d \in Stations(profile) /\ QueueOK(d) /\ RadioOK(d, profile)
      /\ profile \in Profiles /\ line \in Lines
  BY DEF StationIInv, Full, Sound
<1>2. PICK c \in profile.pl :
        /\ d' = [cm15a_decode_plc(d, c) EXCEPT !.tracked = @ /\ Drained(d)]
        /\ line' = hear(line, c) /\ profile' = profile
  BY DEF ReceivePl
<1>3. c \in Codes /\ c \in Packets
  BY <1>1, StationAssumption, CodePackets DEF Packets
<1> DEFINE v  == cm15a_decode_plc(d, c)
           tr == v.tracked /\ Drained(d)
<1>4. /\ v \in Stations(profile) /\ RadioKept(d, v)
      /\ v.tracked = d.tracked /\ v.divided = d.divided
      /\ v.active = d.active /\ v.flying = d.flying /\ v.pending = d.pending
  BY <1>1, <1>3, DecodePlc
<1>5. d.joined => v.joined
  BY <1>1, <1>3, DecodePlc, CodePackets
<1>6. d' = [v EXCEPT !.tracked = tr]
  BY <1>2
<1>7. tr \in BOOLEAN /\ (tr => v.tracked /\ Drained(d))
  OBVIOUS
<1>8. InStep(d, line) /\ ~v.joined => InStep(v, line')
  BY <1>1, <1>2, <1>3, StaysInStep
<1> HIDE DEF v, tr
<1>9. /\ d' \in Stations(profile) /\ RadioKept(v, d') /\ RecordKept(v, d')
      /\ d'.tracked = tr /\ d'.active = v.active
      /\ d'.flying = v.flying /\ d'.pending = v.pending
  BY <1>4, <1>6, <1>7 DEF Stations, RadioKept, RecordKept
<1>10. Full(d', profile)
  <2>1. RadioOK(v, profile)
    BY <1>1, <1>4, RadioStays
  <2>2. RadioOK(d', profile)
    BY <1>9, <2>1, RadioStays
  <2>3. QueueOK(d')
    BY <1>1, <1>4, <1>9 DEF QueueOK, Drained
  <2>4. QED
    BY <1>9, <2>2, <2>3 DEF Full, Sound
<1>11. line' \in Lines
  BY <1>1, <1>2, <1>3, Hear
<1>12. ASSUME Comparable(d')
       PROVE  Follows(d', line')
  <2>1. Comparable(d) /\ Drained(d) /\ ~v.joined
    BY <1>4, <1>5, <1>7, <1>9, <1>12 DEF Comparable, RecordKept
  <2>2. Queue(d) = <<>> /\ Queue(d') = <<>>
    BY <1>4, <1>9, <2>1 DEF Queue, Drained
  <2>3. PICK e \in Lines : After(line, Queue(d), e) /\ InStep(d, e)
    BY <2>1 DEF StationIInv, Follows
  <2>4. e = line
    BY <1>1, <2>2, <2>3, AfterNothing
  <2>5. InStep(v, line')
    BY <1>8, <2>1, <2>3, <2>4
  <2>6. InStep(d', line')
    BY <1>9, <2>5 DEF InStep, Holds, RecordKept
  <2>7. After(line', Queue(d'), line')
    BY <1>11, <2>2, AfterNothing
  <2>8. QED
    BY <1>11, <2>6, <2>7 DEF Follows
<1>13. QED
  BY <1>1, <1>2, <1>10, <1>11, <1>12 DEF StationIInv

(* The packet in flight reaches the line: the receivers hear the first of  *)
(* the queue.                                                              *)
LEMMA TransmittedStep == StationIInv /\ Transmitted => StationIInv'
<1> SUFFICES ASSUME StationIInv, Transmitted
             PROVE  StationIInv'
  OBVIOUS
<1>1. d \in Stations(profile) /\ QueueOK(d) /\ RadioOK(d, profile)
      /\ profile \in Profiles /\ line \in Lines
  BY DEF StationIInv, Full, Sound
<1>2. d.flying \in Seq(Packets) /\ d.pending \in Seq(Packets) /\ d.flying # <<>>
  BY <1>1 DEF Stations, Transmitted
<1>3. d' = [d EXCEPT !.flying = <<>>] /\ line' = hear(line, d.flying[1]) /\ profile' = profile
  BY DEF Transmitted
<1>4. <<>> \in Seq(Packets) /\ Len(<<>>) = 0
  OBVIOUS
<1>5. /\ d' \in Stations(profile) /\ RecordKept(d, d') /\ RadioKept(d, d')
      /\ d'.flying = <<>> /\ d'.pending = d.pending
      /\ d'.active = d.active /\ d'.tracked = d.tracked
  BY <1>1, <1>3, <1>4 DEF Stations, RecordKept, RadioKept
<1>6. Len(d.flying) = 1 /\ d.flying[1] \in Packets /\ d.active
  <2>1. Len(d.flying) \in Nat \ {0}
    BY <1>2, EmptySeq
  <2>2. Len(d.flying) <= 1 /\ d.active
    BY <1>1, <1>2 DEF QueueOK, Drained
  <2> DEFINE n == Len(d.flying)
  <2> HIDE DEF n
  <2>a. n \in Nat /\ n # 0 /\ n <= 1
    BY <2>1, <2>2 DEF n
  <2>b. n = 1
    BY <2>a
  <2>3. Len(d.flying) = 1
    BY <2>b DEF n
  <2>4. 1 \in 1 .. Len(d.flying)
    BY <2>3
  <2>5. d.flying[1] \in Packets
    BY <1>2, <2>4, ElementOfSeq
  <2>6. QED
    BY <2>2, <2>3, <2>5
<1>7. Full(d', profile)
  <2>1. RadioOK(d', profile)
    BY <1>1, <1>5, RadioStays
  <2>2. QueueOK(d')
    BY <1>1, <1>4, <1>5, <1>6 DEF QueueOK, Drained
  <2>3. QED
    BY <1>5, <2>1, <2>2 DEF Full, Sound
<1>8. line' \in Lines
  BY <1>1, <1>3, <1>6, Hear
<1> DEFINE q == d.flying \o d.pending
<1>9. /\ q \in Seq(Packets) /\ q # <<>> /\ q[1] = d.flying[1] /\ Tail(q) = d.pending
      /\ <<>> \o d.pending = d.pending
  <2> DEFINE a == d.flying
             b == d.pending
  <2>0. a \in Seq(Packets) /\ b \in Seq(Packets) /\ Len(a) = 1 /\ Len(b) \in Nat
    BY <1>2, <1>6, LenProperties
  <2>a. q = a \o b
    OBVIOUS
  <2> HIDE DEF a, b, q
  <2>b. /\ a \o b \in Seq(Packets)
         /\ Len(a \o b) = Len(a) + Len(b)
         /\ \A i \in 1 .. Len(a) + Len(b) : (a \o b)[i] =
              IF i <= Len(a) THEN a[i] ELSE b[i - Len(a)]
    BY <2>0, ConcatProperties
  <2>c. /\ q \in Seq(Packets) /\ Len(q) = 1 + Len(b)
         /\ \A k \in 1 .. 1 + Len(b) : q[k] = IF k <= 1 THEN a[k] ELSE b[k - 1]
    BY <2>0, <2>a, <2>b
  <2>d. q # <<>> /\ q[1] = a[1]
    <3>1. 1 \in 1 .. 1 + Len(b) /\ 1 + Len(b) # 0
      BY <2>0
    <3>2. q[1] = a[1]
      BY <2>c, <3>1
    <3>3. q # <<>>
      BY <2>c, <3>1
    <3>4. QED
      BY <3>2, <3>3
  <2>1. /\ q \in Seq(Packets) /\ Len(q) = 1 + Len(d.pending) /\ Len(d.pending) \in Nat
        /\ \A k \in 1 .. 1 + Len(d.pending) :
             q[k] = IF k <= 1 THEN d.flying[k] ELSE d.pending[k - 1]
    BY <2>0, <2>c DEF a, b
  <2>2. q # <<>> /\ q[1] = d.flying[1]
    BY <2>d DEF a
  <2> HIDE DEF q
  <2>3. Tail(q) \in Seq(Packets) /\ Len(Tail(q)) = Len(d.pending)
    BY <2>1, <2>2
  <2>4. \A k \in 1 .. Len(d.pending) : Tail(q)[k] = d.pending[k]
    <3>1. SUFFICES ASSUME NEW k \in 1 .. Len(d.pending)
                   PROVE  Tail(q)[k] = d.pending[k]
      OBVIOUS
    <3>2. Tail(q)[k] = q[k + 1]
      BY <2>1, <2>2
    <3>3. k + 1 \in 1 .. 1 + Len(d.pending) /\ ~(k + 1 <= 1) /\ k + 1 - 1 = k
      BY <2>1
    <3>4. q[k + 1] = d.pending[k + 1 - 1]
      BY <2>1, <3>3
    <3>5. QED
      BY <3>2, <3>3, <3>4
  <2>5. Tail(q) = d.pending
    BY <1>2, <2>3, <2>4, SeqEqual
  <2>6. <<>> \o d.pending = d.pending
    BY <1>2, ConcatEmptySeq
  <2>7. QED
    BY <2>1, <2>2, <2>5, <2>6
<1>10. ASSUME Comparable(d')
       PROVE  Follows(d', line')
  <2>1. Comparable(d)
    BY <1>5, <1>10 DEF Comparable, RecordKept
  <2>2. PICK e \in Lines : After(line, q, e) /\ InStep(d, e)
    BY <2>1 DEF StationIInv, Follows, Queue
  <2> HIDE DEF q
  <2>3. After(hear(line, q[1]), Tail(q), e)
    BY <1>1, <1>9, <2>2, AfterHead
  <2>4. Queue(d') = Tail(q)
    BY <1>5, <1>9 DEF Queue
  <2>5. After(line', Queue(d'), e)
    BY <1>3, <1>9, <2>3, <2>4
  <2>6. InStep(d', e)
    BY <1>5, <2>2 DEF InStep, Holds, RecordKept
  <2>7. QED
    BY <2>5, <2>6 DEF Follows
<1>11. QED
  BY <1>1, <1>3, <1>7, <1>8, <1>10 DEF StationIInv

(* ACK or timeout: the next packet takes off, and the queue is the same.   *)
LEMMA ReleasedStep == StationIInv /\ Released => StationIInv'
<1> SUFFICES ASSUME StationIInv, Released
             PROVE  StationIInv'
  OBVIOUS
<1>1. d \in Stations(profile) /\ QueueOK(d) /\ RadioOK(d, profile) /\ profile \in Profiles
  BY DEF StationIInv, Full, Sound
<1>2. d.flying \in Seq(Packets) /\ d.pending \in Seq(Packets) /\ d.flying = <<>> /\ d.active
  BY <1>1 DEF Stations, Released
<1>3. ASSUME NEW t, t \in Stations(profile), RecordKept(d, t), RadioKept(d, t),
             t.tracked = d.tracked, QueueOK(t), Queue(t) = Queue(d)
      PROVE  Leads(d, t, profile)
  <2>1. RadioOK(t, profile)
    BY <1>1, <1>3, RadioStays
  <2>2. Comparable(t) => Comparable(d)
    BY <1>3 DEF Comparable, RecordKept
  <2>3. \A e : InStep(d, e) => InStep(t, e)
    BY <1>3 DEF InStep, Holds, RecordKept
  <2>4. QED
    BY <1>3, <2>1, <2>2, <2>3 DEF Leads, Full, Sound, Follows
<1>4. CASE d.pending # <<>>
  <2> DEFINE one == <<Head(d.pending)>>
             rest == Tail(d.pending)
  <2>1. /\ one \in Seq(Packets) /\ rest \in Seq(Packets)
        /\ Len(one) = 1 /\ Len(rest) = Len(d.pending) - 1 /\ Len(d.pending) \in Nat
    BY <1>2, <1>4, HeadTailProperties
  <2>2. one \o rest = <<>> \o d.pending
    BY <1>2, <1>4
  <2>3. d' = [d EXCEPT !.flying = one, !.pending = rest]
    BY <1>4 DEF Released
  <2> HIDE DEF one, rest
  <2>4. /\ d' \in Stations(profile) /\ RecordKept(d, d') /\ RadioKept(d, d')
        /\ d'.flying = one /\ d'.pending = rest
        /\ d'.active = d.active /\ d'.tracked = d.tracked
    BY <1>1, <2>1, <2>3 DEF Stations, RecordKept, RadioKept
  <2>5. QueueOK(d')
    <3>1. Capacity \in Nat /\ Len(d.pending) <= Capacity
      BY <1>1, StationAssumption DEF QueueOK
    <3>2. Len(rest) <= Capacity
      BY <2>1, <3>1
    <3>3. Len(one) <= 1
      BY <2>1
    <3>4. QED
      BY <1>2, <2>4, <3>2, <3>3 DEF QueueOK
  <2>6. Queue(d') = Queue(d)
    BY <1>2, <2>2, <2>4 DEF Queue
  <2>7. Leads(d, d', profile)
    BY <1>3, <2>4, <2>5, <2>6
  <2>8. QED
    BY <2>7, Quiet DEF Released
<1>5. CASE d.pending = <<>>
  <2>1. d' = [d EXCEPT !.active = FALSE]
    BY <1>5 DEF Released
  <2>2. /\ d' \in Stations(profile) /\ RecordKept(d, d') /\ RadioKept(d, d')
        /\ d'.flying = d.flying /\ d'.pending = d.pending /\ d'.tracked = d.tracked
    BY <1>1, <2>1 DEF Stations, RecordKept, RadioKept
  <2>3. QueueOK(d') /\ Queue(d') = Queue(d)
    BY <1>1, <1>2, <1>5, <2>2 DEF QueueOK, Drained, Queue
  <2>4. Leads(d, d', profile)
    BY <1>3, <2>2, <2>3
  <2>5. QED
    BY <2>4, Quiet DEF Released
<1>6. QED
  BY <1>4, <1>5

(* Every action keeps the invariant.                                       *)
LEMMA StationStep == StationIInv /\ [Next]_vars => StationIInv'
<1> SUFFICES ASSUME StationIInv, [Next]_vars
             PROVE  StationIInv'
  OBVIOUS
<1>1. CASE PlCode
  BY <1>1, PlCodeStep
<1>2. CASE PlUnitFunc
  BY <1>2, PlUnitFuncStep
<1>3. CASE RfCommand
  BY <1>3, RfCommandStep
<1>4. CASE RepeaterSwitch
  BY <1>4, RepeaterSwitchStep
<1>5. CASE RawPacket
  BY <1>5, RawPacketStep
<1>6. CASE Reset
  BY <1>6, ResetStep
<1>7. CASE Show
  BY <1>7, ShowStep
<1>8. CASE ReceivePl
  BY <1>8, ReceivePlStep
<1>9. CASE ReceiveRf
  BY <1>9, ReceiveRfStep
<1>10. CASE Transmitted
  BY <1>10, TransmittedStep
<1>11. CASE Released
  BY <1>11, ReleasedStep
<1>12. CASE Tick
  BY <1>12, TickStep
<1>13. CASE UNCHANGED vars
  <2>1. profile' = profile /\ d' = d /\ line' = line
    BY <1>13 DEF vars
  <2>2. Comparable(d)' = Comparable(d) /\ Follows(d, line)' = Follows(d, line)
    BY <2>1
  <2>3. Full(d, profile)' = Full(d, profile)
    BY <2>1
  <2>4. QED
    BY <2>1, <2>2, <2>3 DEF StationIInv
<1>14. QED
  BY <1>1, <1>2, <1>3, <1>4, <1>5, <1>6, <1>7, <1>8, <1>9, <1>10, <1>11, <1>12, <1>13
     DEF Next

(* The tables stay well formed, the filter and the sensors agree with what *)
(* was heard, and the record is ahead of the receivers by exactly the      *)
(* packets that wait.                                                      *)
THEOREM StationInductive == Spec => []StationIInv
<1>1. Init => StationIInv
  BY InitIInv
<1>2. StationIInv /\ [Next]_vars => StationIInv'
  BY StationStep
<1>3. QED
  BY <1>1, <1>2, PTL DEF Spec

(* No table of the daemon is written beyond its end, no sensor has two     *)
(* records, and no more than one packet is with libusb.                    *)
THEOREM StationTyped == Spec => []StationTypeOK
<1>1. StationIInv => StationTypeOK
  <2> SUFFICES ASSUME StationIInv
               PROVE  StationTypeOK
    OBVIOUS
  <2>1. /\ profile \in Profiles /\ d \in Stations(profile) /\ QueueOK(d)
        /\ FilterOK(d.dups, d.since, profile) /\ SensorsOK(d.sensors, d.heard, profile)
    BY DEF StationIInv, Full, Sound, RadioOK
  <2>2. d.h \in House /\ d.dups \in Tables(profile)
    BY <2>1 DEF Stations
  <2>3. \A i \in 1 .. DupMax : d.dups[i].used => d.dups[i].left \in Expired .. DupTime
    <3>1. SUFFICES ASSUME NEW i \in 1 .. DupMax, d.dups[i].used
                   PROVE  d.dups[i].left \in Expired .. DupTime
      OBVIOUS
    <3>2. d.dups[i] \in Entries(profile)
      BY <2>2 DEF Tables
    <3>3. QED
      BY <2>1, <3>1, <3>2, EntryFields
  <2>4. IsInjective([i \in 1 .. Len(d.sensors) |-> d.sensors[i].addr])
    BY <2>1 DEF SensorsOK, IsInjective
  <2>5. Len(d.sensors) < MaxSensors
    BY <2>1 DEF SensorsOK
  <2>6. QED
    BY <2>1, <2>2, <2>3, <2>4, <2>5 DEF StationTypeOK, QueueOK
<1>2. QED
  BY <1>1, StationInductive, PTL

(* "getstatus" after the queue has emptied: it reports of every unit what  *)
(* its receiver does, but for those that a code the receivers take         *)
(* otherwise (decode.c:367-387, 439-468), "st 0" or the time before the    *)
(* start has parted from their record.                                     *)
THEOREM RecordIsTheLine == Spec => []RecordMatchesLine
<1>1. StationIInv => RecordMatchesLine
  <2> SUFFICES ASSUME StationIInv, Comparable(d), Drained(d)
               PROVE  \A u \in Units \ d.parted : getstatus(d.h, u) = line.power[u]
    BY DEF RecordMatchesLine, Comparable
  <2>1. line \in Lines /\ Follows(d, line)
    BY DEF StationIInv
  <2>2. Queue(d) = <<>>
    BY DEF Queue, Drained
  <2>3. PICK e \in Lines : After(line, Queue(d), e) /\ InStep(d, e)
    BY <2>1 DEF Follows
  <2>4. e = line
    BY <2>1, <2>2, <2>3, AfterNothing
  <2>5. QED
    BY <2>3, <2>4 DEF InStep, Holds
<1>2. QED
  BY <1>1, StationInductive, PTL

(* A swallowed frame passed within DUP_TIME, and one forgotten sooner made *)
(* room for DUP_MAX others that passed since.                              *)
THEOREM FilterIsRemembering == Spec => []FilterRemembers
<1>1. StationIInv => FilterRemembers
  <2> SUFFICES ASSUME StationIInv, NEW fr \in profile.rf
               PROVE  /\ is_dup(d.dups, fr) => d.since[fr] <= DupTime
                      /\ d.since[fr] <= DupTime /\ ~is_dup(d.dups, fr) =>
                           Cardinality({g \in profile.rf \ {fr} : d.since[g] <= d.since[fr]}) >= DupMax
    BY DEF FilterRemembers
  <2>1. /\ profile \in Profiles /\ d \in Stations(profile)
        /\ FilterOK(d.dups, d.since, profile)
    BY DEF StationIInv, Full, Sound, RadioOK
  <2>2. d.dups \in Tables(profile) /\ d.since \in Ages(profile)
    BY <2>1 DEF Stations
  <2>3. ASSUME is_dup(d.dups, fr)
        PROVE  d.since[fr] <= DupTime
    <3>1. PICK i \in 1 .. DupMax : /\ d.dups[i].used /\ d.dups[i].frame = fr
                                   /\ d.dups[i].left # Expired
      BY <2>3 DEF is_dup, Match
    <3>2. d.dups[i] \in Entries(profile)
      BY <2>2 DEF Tables
    <3>3. d.dups[i].left \in Expired .. DupTime
      BY <2>1, <3>1, <3>2, EntryFields
    <3>4. d.dups[i].left = DupTime - d.since[fr]
      BY <2>1, <3>1 DEF FilterOK
    <3>5. d.since[fr] \in 0 .. DupTime + 1
      BY <2>2 DEF Ages
    <3>6. QED
      BY <3>1, <3>3, <3>4, <3>5, DupAssumption DEF Expired
  <2>4. ASSUME d.since[fr] <= DupTime, ~is_dup(d.dups, fr)
        PROVE  Cardinality({g \in profile.rf \ {fr} : d.since[g] <= d.since[fr]}) >= DupMax
    BY <2>1, <2>4 DEF FilterOK, Later
  <2>5. QED
    BY <2>3, <2>4
<1>2. QED
  BY <1>1, StationInductive, PTL

(* "getstatussec" reads back the last status that passed the filter.       *)
THEOREM SensorsAreReadBack == Spec => []SensorsReadBack
<1>1. StationIInv => SensorsReadBack
  <2> DEFINE spoke == {s \in Sensors : d.heard[s] # -1}
  <2> SUFFICES ASSUME StationIInv, Cardinality({s.addr : s \in spoke}) < MaxSensors,
                      NEW x \in spoke, \A t \in spoke : t.addr = x.addr => t = x
               PROVE  /\ hua_getstatus_sec(d.sensors, x.short, x.addr) = 1
                           <=> d.heard[x] \in Alert(x.short)
                      /\ hua_getstatus_sec(d.sensors, x.short, x.addr) = 0
                           <=> d.heard[x] \in Normal(x.short)
    BY DEF SensorsReadBack
  <2>1. /\ profile \in Profiles /\ d \in Stations(profile)
        /\ SensorsOK(d.sensors, d.heard, profile)
    BY DEF StationIInv, Full, Sound, RadioOK
  <2>2. d.sensors \in Seq(Records) /\ d.heard \in Heards(profile)
    BY <2>1 DEF Stations
  <2>3. spoke = Spoke(d.heard, profile)
    BY DEF Spoke, Sensors, SensorsOf
  <2>4. {s.addr : s \in spoke} = Addrs(d.heard, profile)
    BY <2>3 DEF Addrs
  <2>5. x \in Spoke(d.heard, profile) /\ Alone(d.heard, profile, x)
    BY <2>3 DEF Alone
  <2>6. Cardinality(Addrs(d.heard, profile)) < MaxSensors
    BY <2>4
  <2>7. QED
    BY <2>1, <2>2, <2>5, <2>6, ReadBack
<1>2. QED
  BY <1>1, StationInductive, PTL
=============================================================================
