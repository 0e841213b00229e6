---------------------------- MODULE FilesProofs -----------------------------
(***************************************************************************)
(* Proofs about the files of a page, the list of evaluations and the URL   *)
(* (FileStore), for any number of evaluations, files and calls.            *)
(***************************************************************************)
EXTENDS MCClientProofs

LEMMA FileLists ==
    /\ \A s, id : F!IndexOfId(s, id) = IndexOfId(s, id)
    /\ \A s, x : F!SpliceFound(s, x) = SpliceFound(s, x)
    /\ \A s, x : F!IndexOf(s, x) = IndexOf(s, x)
    /\ \A s : F!Ids(s) = Ids(s)
    /\ \A S : F!SetToSeq(S) = SetToSeq(S)
    /\ \A S : F!Cardinality(S) = Cardinality(S)
    /\ \A s, at : F!Pick(s, at) = Pick(s, at)
    /\ \A s : F!ToSet(s) = ToSet(s)
  BY DEF F!IndexOfId, IndexOfId, F!SpliceFound, SpliceFound, F!IndexOf, IndexOf, F!RemoveAt, RemoveAt,
         F!SelectInSeq, SelectInSeq, F!Min, Min, F!SameObject, SameObject, F!Ids, Ids,
         F!SetToSeq, SetToSeq, F!IsInjective, IsInjective, F!Cardinality, Cardinality,
         F!Pick, Pick, F!Nth, Nth, F!ToSet, ToSet

-----------------------------------------------------------------------------
(* Lists of files.                                                         *)

OwnUids(fs) == \A i, j \in DOMAIN fs : fs[i].uid = fs[j].uid => i = j

(* The files of a list have numbers of their own, at most n, and what one  *)
(* has recorded is an evaluation of B that it holds.                       *)
GoodFiles(fs, n, B) ==
    /\ fs \in Seq(F!FileRecord) /\ OwnUids(fs)
    /\ \A i \in DOMAIN fs :
          fs[i].uid <= n /\ (fs[i].db # None => fs[i].from = fs[i].db /\ fs[i].db \in B)

SameFile(f, g) == f.uid = g.uid /\ f.from = g.from /\ f.db = g.db

PartOf(q, fs) == \A k \in DOMAIN q : \E l \in DOMAIN fs : SameFile(q[k], fs[l])

AllSeen(fs) == \A i \in DOMAIN fs : fs[i].seen

LEMMA FileFields ==
    ASSUME NEW n, NEW B, NEW fs, GoodFiles(fs, n, B)
    PROVE  /\ DOMAIN fs = 1..Len(fs) /\ Len(fs) \in Nat
           /\ \A i \in DOMAIN fs :
                 /\ fs[i] \in F!FileRecord /\ fs[i].uid \in 1..MaxFiles
                 /\ fs[i].from \in Evaluation \cup {None} /\ fs[i].db \in Evaluation \cup {None}
                 /\ fs[i].seen \in BOOLEAN
<1>1. DOMAIN fs = 1..Len(fs) /\ Len(fs) \in Nat
  BY LenProperties DEF GoodFiles
<1>2. \A i \in DOMAIN fs : fs[i] \in F!FileRecord
  BY <1>1, ElementOfSeq DEF GoodFiles
<1> QED
  BY <1>1, <1>2 DEF F!FileRecord

LEMMA FilesGrow ==
    ASSUME NEW n \in Nat, NEW m \in Nat, n <= m, NEW B, NEW D, B \subseteq D,
           NEW fs, GoodFiles(fs, n, B)
    PROVE  GoodFiles(fs, m, D)
<1>1. \A i \in DOMAIN fs : fs[i].uid \in Nat /\ fs[i].uid <= n
  <2>1. \A i \in DOMAIN fs : fs[i].uid \in 1..MaxFiles
    BY FileFields
  <2>2. \A x \in 1..MaxFiles : x \in Nat
    OBVIOUS
  <2> QED
    BY <2>1, <2>2 DEF GoodFiles
<1>2. \A i \in DOMAIN fs : fs[i].uid <= m
  BY <1>1
<1> QED
  BY <1>2 DEF GoodFiles

LEMMA NoFiles == \A n, B : GoodFiles(<<>>, n, B)
<1>1. <<>> \in Seq(F!FileRecord) /\ DOMAIN <<>> = {}
  BY EmptySeq
<1> QED
  BY <1>1 DEF GoodFiles, OwnUids

LEMMA RefreshedIs ==
    ASSUME NEW n, NEW B, NEW fs, GoodFiles(fs, n, B)
    PROVE  LET q == F!Refreshed(fs) IN
              /\ GoodFiles(q, n, B) /\ AllSeen(q) /\ DOMAIN q = DOMAIN fs
              /\ \A i \in DOMAIN fs : SameFile(q[i], fs[i])
<1> DEFINE q == F!Refreshed(fs)
<1>1. /\ DOMAIN fs = 1..Len(fs) /\ Len(fs) \in Nat
      /\ \A i \in DOMAIN fs : fs[i] \in F!FileRecord
  BY FileFields
<1>2. q = [i \in 1..Len(fs) |-> [fs[i] EXCEPT !.seen = TRUE]]
  BY <1>1 DEF F!Refreshed
<1>3. \A i \in DOMAIN fs : [fs[i] EXCEPT !.seen = TRUE] \in F!FileRecord
  BY <1>1 DEF F!FileRecord
<1>4. q \in Seq(F!FileRecord)
  BY <1>1, <1>2, <1>3, IsASeq
<1>5. DOMAIN q = DOMAIN fs
  BY <1>1, <1>2
<1>6. \A i \in DOMAIN fs : SameFile(q[i], fs[i]) /\ q[i].seen
  BY <1>1, <1>2 DEF F!FileRecord, SameFile
<1> HIDE DEF q
<1>7. GoodFiles(q, n, B)
  BY <1>4, <1>5, <1>6 DEF GoodFiles, SameFile, OwnUids
<1> QED
  BY <1>5, <1>6, <1>7 DEF q, AllSeen

LEMMA WithoutIs ==
    ASSUME NEW n, NEW B, NEW fs, GoodFiles(fs, n, B), NEW u
    PROVE  LET q == F!Without(fs, u) IN
              /\ GoodFiles(q, n, B) /\ AllSeen(q) /\ PartOf(q, fs)
              /\ \A k \in DOMAIN q : q[k].uid # u
              /\ \A l \in DOMAIN fs : fs[l].uid # u => \E k \in DOMAIN q : q[k].uid = fs[l].uid
<1> DEFINE r == F!Refreshed(fs)
           at == {i \in DOMAIN fs : fs[i].uid # u}
           m == Cardinality(at)
           q == Pick(r, at)
<1>1. F!Without(fs, u) = q
  BY FileLists DEF F!Without
<1>2. /\ GoodFiles(r, n, B) /\ AllSeen(r) /\ DOMAIN r = DOMAIN fs
      /\ \A i \in DOMAIN fs : SameFile(r[i], fs[i])
  BY RefreshedIs
<1>3. r \in Seq(F!FileRecord) /\ at \in SUBSET (DOMAIN r)
  BY <1>2 DEF GoodFiles
<1> HIDE DEF r, at
<1>4. /\ q \in Seq(F!FileRecord) /\ DOMAIN q = 1..m /\ m \in 0..Len(r)
      /\ \A k \in 1..m : Nth(at, k) \in at /\ q[k] = r[Nth(at, k)]
      /\ \A i \in at : \E k \in 1..m : Nth(at, k) = i /\ q[k] = r[i]
      /\ \A k, l \in 1..m : k < l => Nth(at, k) < Nth(at, l)
  BY <1>3, PickIs
<1>5. Len(r) \in Nat /\ DOMAIN r = 1..Len(r)
  BY <1>3, LenProperties
<1>6. \A k, l \in 1..m : Nth(at, k) = Nth(at, l) => k = l
  <2>1. m \in Nat /\ \A k \in 1..m : Nth(at, k) \in Nat
    BY <1>3, <1>4, <1>5
  <2> HIDE DEF m
  <2> QED
    BY <1>4, <2>1
<1> HIDE DEF q, m
<1>7. \A i \in at : i \in DOMAIN fs /\ fs[i].uid # u
  BY DEF at
<1>8. \A i \in DOMAIN fs : fs[i].uid # u => i \in at
  BY DEF at
<1>9. OwnUids(q)
  <2> SUFFICES ASSUME NEW k \in 1..m, NEW l \in 1..m, q[k].uid = q[l].uid PROVE k = l
    BY <1>4 DEF OwnUids
  <2>1. Nth(at, k) \in DOMAIN r /\ Nth(at, l) \in DOMAIN r
        /\ r[Nth(at, k)].uid = r[Nth(at, l)].uid
    BY <1>3, <1>4
  <2>2. Nth(at, k) = Nth(at, l)
    BY <1>2, <2>1 DEF GoodFiles, OwnUids
  <2> QED
    BY <1>6, <2>2
<1>10. \A k \in DOMAIN q : \E i \in DOMAIN fs : i \in at /\ q[k] = r[i]
  BY <1>4, <1>7
<1>11. GoodFiles(q, n, B)
  <2>1. \A i \in DOMAIN r :
           r[i].uid <= n /\ (r[i].db # None => r[i].from = r[i].db /\ r[i].db \in B)
    BY <1>2 DEF GoodFiles
  <2> QED
    BY <1>2, <1>4, <1>9, <1>10, <2>1 DEF GoodFiles
<1>12. AllSeen(q) /\ PartOf(q, fs)
  BY <1>2, <1>10 DEF AllSeen, PartOf
<1>13. \A k \in DOMAIN q : q[k].uid # u
  BY <1>2, <1>7, <1>10 DEF SameFile
<1>14. \A l \in DOMAIN fs : fs[l].uid # u => \E k \in DOMAIN q : q[k].uid = fs[l].uid
  BY <1>2, <1>4, <1>8 DEF SameFile
<1> QED
  BY <1>1, <1>11, <1>12, <1>13, <1>14

LEMMA AppendedIs ==
    ASSUME NEW n \in Nat, n < MaxFiles, NEW B, NEW fs, GoodFiles(fs, n, B),
           NEW from \in Evaluation \cup {None}, NEW db \in Evaluation \cup {None},
           db # None => from = db /\ db \in B
    PROVE  LET f == F!LoadedFile(n + 1, from, db)
               q == Append(F!Refreshed(fs), f) IN
              /\ GoodFiles(q, n + 1, B) /\ AllSeen(q)
              /\ \A k \in DOMAIN q : q[k] = f \/ \E l \in DOMAIN fs : SameFile(q[k], fs[l])
              /\ \E k \in DOMAIN q : q[k] = f
              /\ \A l \in DOMAIN fs : \E k \in DOMAIN q : SameFile(q[k], fs[l])
<1> DEFINE f == F!LoadedFile(n + 1, from, db)
           r == F!Refreshed(fs)
           q == Append(r, f)
<1>1. /\ GoodFiles(r, n, B) /\ AllSeen(r) /\ DOMAIN r = DOMAIN fs
      /\ \A i \in DOMAIN fs : SameFile(r[i], fs[i])
  BY RefreshedIs
<1>2. f.uid = n + 1 /\ f.from = from /\ f.db = db /\ f.seen = TRUE
  BY DEF F!LoadedFile
<1>3. f \in F!FileRecord
  <2>1. n + 1 \in 1..MaxFiles
    BY ClientAssumption
  <2> QED
    BY <2>1 DEF F!LoadedFile, F!FileRecord
<1> HIDE DEF f, r
<1>4. r \in Seq(F!FileRecord) /\ Len(r) \in Nat /\ DOMAIN r = 1..Len(r)
  BY <1>1, LenProperties DEF GoodFiles
<1>5. /\ q \in Seq(F!FileRecord) /\ Len(q) = Len(r) + 1
      /\ (\A i \in 1..Len(r) : q[i] = r[i]) /\ q[Len(r) + 1] = f
  BY <1>3, <1>4, AppendProperties
<1>6. DOMAIN q = 1..(Len(r) + 1)
  BY <1>5, LenProperties
<1> HIDE DEF q
<1>7. \A k \in DOMAIN q : k = Len(r) + 1 \/ k \in DOMAIN r
  BY <1>4, <1>6
<1>8. Len(r) + 1 \in DOMAIN q /\ \A k \in DOMAIN r : k \in DOMAIN q
  BY <1>4, <1>6
<1>9. \A k \in DOMAIN r : r[k].uid \in Nat /\ r[k].uid <= n /\ r[k].uid # n + 1
  <2>1. \A k \in DOMAIN r : r[k].uid \in 1..MaxFiles
    BY <1>1, FileFields
  <2>2. \A k \in DOMAIN r : r[k].uid <= n
    BY <1>1 DEF GoodFiles
  <2>3. \A x \in 1..MaxFiles : x \in Nat /\ (x <= n => x # n + 1)
    OBVIOUS
  <2> QED
    BY <2>1, <2>2, <2>3
<1>10. OwnUids(q)
  BY <1>1, <1>2, <1>4, <1>5, <1>7, <1>9 DEF GoodFiles, OwnUids
<1>11. \A k \in DOMAIN q :
          q[k].uid <= n + 1 /\ (q[k].db # None => q[k].from = q[k].db /\ q[k].db \in B)
  <2>1. f.uid <= n + 1 /\ (f.db # None => f.from = f.db /\ f.db \in B)
    BY <1>2
  <2>2. \A k \in DOMAIN r :
           r[k].uid <= n + 1 /\ (r[k].db # None => r[k].from = r[k].db /\ r[k].db \in B)
    BY <1>1, <1>9 DEF GoodFiles
  <2> QED
    BY <1>4, <1>5, <1>7, <2>1, <2>2
<1>12. GoodFiles(q, n + 1, B)
  BY <1>5, <1>10, <1>11 DEF GoodFiles
<1>13. AllSeen(q)
  BY <1>1, <1>2, <1>4, <1>5, <1>7 DEF AllSeen
<1>14. \A k \in DOMAIN q : q[k] = f \/ \E l \in DOMAIN fs : SameFile(q[k], fs[l])
  BY <1>1, <1>4, <1>5, <1>7
<1>15. \E k \in DOMAIN q : q[k] = f
  BY <1>5, <1>8
<1>16. \A l \in DOMAIN fs : \E k \in DOMAIN q : SameFile(q[k], fs[l])
  BY <1>1, <1>4, <1>5, <1>8
<1> QED
  BY <1>12, <1>13, <1>14, <1>15, <1>16 DEF f, q, r

LEMMA RecordedIs ==
    ASSUME NEW n, NEW B, NEW fs, GoodFiles(fs, n, B), NEW u, NEW e \in Evaluation, e \in B,
           NEW seen \in BOOLEAN
    PROVE  LET q == F!Recorded(fs, u, e, seen) IN
              /\ GoodFiles(q, n, B) /\ DOMAIN q = DOMAIN fs
              /\ \A k \in DOMAIN fs :
                    /\ q[k].uid = fs[k].uid
                    /\ fs[k].uid # u => q[k] = fs[k]
                    /\ fs[k].uid = u => q[k].from = e /\ q[k].db = e /\ q[k].seen = seen
<1> DEFINE q == F!Recorded(fs, u, e, seen)
           file(i) == IF fs[i].uid = u
                      THEN [fs[i] EXCEPT !.from = e, !.db = e, !.seen = seen] ELSE fs[i]
<1>1. /\ DOMAIN fs = 1..Len(fs) /\ Len(fs) \in Nat
      /\ \A i \in DOMAIN fs : fs[i] \in F!FileRecord
  BY FileFields
<1>2. q = [i \in 1..Len(fs) |-> file(i)]
  BY <1>1 DEF F!Recorded
<1>3. \A i \in 1..Len(fs) :
         /\ file(i) \in F!FileRecord /\ file(i).uid = fs[i].uid
         /\ fs[i].uid # u => file(i) = fs[i]
         /\ fs[i].uid = u => file(i).from = e /\ file(i).db = e /\ file(i).seen = seen
  BY <1>1 DEF F!FileRecord
<1> HIDE DEF file
<1>4. q \in Seq(F!FileRecord)
  BY <1>1, <1>2, <1>3, IsASeq
<1>5. DOMAIN q = DOMAIN fs /\ \A i \in DOMAIN fs : q[i] = file(i)
  BY <1>1, <1>2
<1> HIDE DEF q
<1>6. OwnUids(q)
  BY <1>1, <1>3, <1>5 DEF GoodFiles, OwnUids
<1>7. GoodFiles(q, n, B)
  <2>1. \A i \in DOMAIN q :
           q[i].uid <= n /\ (q[i].db # None => q[i].from = q[i].db /\ q[i].db \in B)
    BY <1>1, <1>3, <1>5 DEF GoodFiles
  <2> QED
    BY <1>4, <1>6, <2>1 DEF GoodFiles
<1> QED
  BY <1>1, <1>3, <1>5, <1>7 DEF q

(* The ids the lists of files give.                                        *)
IdsOf(e, p) ==
    LET s == e \o p
        known == Pick(s, {i \in DOMAIN s : s[i].db # None /\ s[i].seen}) IN
       [i \in DOMAIN known |-> known[i].db]

LEMMA LoadedIdsAre ==
    F!LoadedIds = IdsOf(execs, profs) /\ F!LoadedIds' = IdsOf(execs', profs')
  BY FileLists DEF F!LoadedIds, F!All, IdsOf

LEMMA JoinedIs ==
    ASSUME NEW n, NEW B, NEW e, GoodFiles(e, n, B), NEW p, GoodFiles(p, n, B)
    PROVE  LET s == e \o p IN
              /\ s \in Seq(F!FileRecord)
              /\ \A j \in DOMAIN s : (\E i \in DOMAIN e : s[j] = e[i]) \/ \E i \in DOMAIN p : s[j] = p[i]
              /\ \A i \in DOMAIN e : \E j \in DOMAIN s : s[j] = e[i]
              /\ \A i \in DOMAIN p : \E j \in DOMAIN s : s[j] = p[i]
              /\ (\A i \in DOMAIN e, j \in DOMAIN p : e[i].uid # p[j].uid) => OwnUids(s)
<1> DEFINE s == e \o p
           a == Len(e)
           b == Len(p)
<1>1. /\ s \in Seq(F!FileRecord) /\ Len(s) = a + b
      /\ \A j \in 1..(a + b) : s[j] = IF j <= a THEN e[j] ELSE p[j - a]
  BY ConcatProperties DEF GoodFiles
<1>2. a \in Nat /\ DOMAIN e = 1..a /\ b \in Nat /\ DOMAIN p = 1..b /\ DOMAIN s = 1..(a + b)
  BY <1>1, LenProperties DEF GoodFiles
<1> HIDE DEF s, a, b
<1>3. \A i \in DOMAIN e : i \in DOMAIN s /\ s[i] = e[i]
  BY <1>1, <1>2
<1>4. \A i \in DOMAIN p : i + a \in DOMAIN s /\ s[i + a] = p[i]
  <2> SUFFICES ASSUME NEW i \in DOMAIN p PROVE i + a \in DOMAIN s /\ s[i + a] = p[i]
    OBVIOUS
  <2>1. i + a \in 1..(a + b) /\ ~(i + a <= a) /\ i + a - a = i
    BY <1>2
  <2> QED
    BY <1>1, <1>2, <2>1
<1>5. \A j \in DOMAIN s : (j \in DOMAIN e /\ s[j] = e[j]) \/ (j - a \in DOMAIN p /\ s[j] = p[j - a])
  BY <1>1, <1>2
<1>6. ASSUME \A i \in DOMAIN e, j \in DOMAIN p : e[i].uid # p[j].uid PROVE OwnUids(s)
  <2> SUFFICES ASSUME NEW j \in DOMAIN s, NEW k \in DOMAIN s, s[j].uid = s[k].uid PROVE j = k
    BY DEF OwnUids
  <2>1. CASE j \in DOMAIN e /\ s[j] = e[j] /\ k \in DOMAIN e /\ s[k] = e[k]
    BY <2>1 DEF GoodFiles, OwnUids
  <2>2. CASE j - a \in DOMAIN p /\ s[j] = p[j - a] /\ k - a \in DOMAIN p /\ s[k] = p[k - a]
    <3>1. j - a = k - a
      BY <2>2 DEF GoodFiles, OwnUids
    <3> QED
      BY <1>2, <3>1
  <2> QED
    BY <1>5, <1>6, <2>1, <2>2
<1>7. \A i \in DOMAIN p : \E j \in DOMAIN s : s[j] = p[i]
  BY <1>4
<1> QED
  BY <1>1, <1>3, <1>5, <1>6, <1>7 DEF s

LEMMA IdsOfIs ==
    ASSUME NEW n, NEW B, NEW e, GoodFiles(e, n, B), NEW p, GoodFiles(p, n, B), None \notin B
    PROVE  LET ids == IdsOf(e, p) IN
              /\ ids \in Seq(Evaluation)
              /\ \A k \in DOMAIN ids :
                    /\ ids[k] \in B
                    /\ \/ \E i \in DOMAIN e : e[i].from = ids[k]
                       \/ \E i \in DOMAIN p : p[i].from = ids[k]
              /\ \A i \in DOMAIN e :
                    e[i].db # None /\ e[i].seen => \E k \in DOMAIN ids : ids[k] = e[i].db
<1> DEFINE s == e \o p
           at == {i \in DOMAIN s : s[i].db # None /\ s[i].seen}
           known == Pick(s, at)
           m == Cardinality(at)
           ids == IdsOf(e, p)
<1>1. /\ s \in Seq(F!FileRecord)
      /\ \A j \in DOMAIN s : (\E i \in DOMAIN e : s[j] = e[i]) \/ \E i \in DOMAIN p : s[j] = p[i]
      /\ \A i \in DOMAIN e : \E j \in DOMAIN s : s[j] = e[i]
      /\ \A i \in DOMAIN p : \E j \in DOMAIN s : s[j] = p[i]
      /\ (\A i \in DOMAIN e, j \in DOMAIN p : e[i].uid # p[j].uid) => OwnUids(s)
  BY JoinedIs, Zenon
<1> HIDE DEF s
<1>2. at \in SUBSET (DOMAIN s)
  OBVIOUS
<1>3. ids = [i \in DOMAIN known |-> known[i].db]
  BY DEF IdsOf, s
<1>4. /\ known \in Seq(F!FileRecord) /\ DOMAIN known = 1..m /\ m \in 0..Len(s)
      /\ \A k \in 1..m : Nth(at, k) \in at /\ known[k] = s[Nth(at, k)]
      /\ \A i \in at : \E k \in 1..m : Nth(at, k) = i /\ known[k] = s[i]
      /\ \A k, l \in 1..m : k < l => Nth(at, k) < Nth(at, l)
  <2> HIDE DEF at
  <2> QED
    BY <1>1, <1>2, PickIs
<1>5. Len(s) \in Nat /\ m \in Nat /\ DOMAIN s = 1..Len(s)
  <2>1. Len(s) \in Nat /\ DOMAIN s = 1..Len(s)
    BY <1>1, LenProperties
  <2> HIDE DEF m
  <2> QED
    BY <1>4, <2>1
<1>6. \A j \in DOMAIN s :
         /\ s[j] \in F!FileRecord
         /\ s[j].db # None => s[j].from = s[j].db /\ s[j].db \in B
  <2>1. \A j \in DOMAIN s : s[j] \in F!FileRecord
    BY <1>1, <1>5, ElementOfSeq
  <2> QED
    BY <1>1, <2>1 DEF GoodFiles
<1>7. \A i \in at : i \in DOMAIN s /\ s[i].db # None /\ s[i].db \in Evaluation
  BY <1>6 DEF F!FileRecord
<1>8. \A i \in DOMAIN s : s[i].db # None /\ s[i].seen => i \in at
  OBVIOUS
<1> HIDE DEF at, known, m
<1>9. DOMAIN ids = 1..m /\ \A k \in 1..m : ids[k] = known[k].db
  BY <1>3, <1>4
<1>10. \A k \in 1..m : \E j \in DOMAIN s : j \in at /\ ids[k] = s[j].db
  BY <1>4, <1>7, <1>9
<1>11. ids \in Seq(Evaluation)
  <2>1. ids = [k \in 1..m |-> known[k].db]
    BY <1>3, <1>4
  <2>2. \A k \in 1..m : known[k].db \in Evaluation
    BY <1>7, <1>9, <1>10
  <2> HIDE DEF ids
  <2> QED
    BY <1>5, <2>1, <2>2, IsASeq
<1> HIDE DEF ids
<1>12. ASSUME NEW k \in DOMAIN ids
       PROVE  /\ ids[k] \in B
              /\ \/ \E i \in DOMAIN e : e[i].from = ids[k]
                 \/ \E i \in DOMAIN p : p[i].from = ids[k]
  <2>1. PICK j \in DOMAIN s : j \in at /\ ids[k] = s[j].db
    BY <1>9, <1>10
  <2>2. s[j].from = ids[k] /\ ids[k] \in B
    BY <1>6, <1>7, <2>1
  <2> QED
    BY <1>1, <2>2
<1>13. ASSUME NEW i \in DOMAIN e, e[i].db # None, e[i].seen
       PROVE  \E k \in DOMAIN ids : ids[k] = e[i].db
  <2>1. PICK j \in DOMAIN s : s[j] = e[i]
    BY <1>1
  <2>2. j \in at
    BY <1>8, <1>13, <2>1
  <2>3. PICK k \in 1..m : known[k] = s[j]
    BY <1>4, <2>2
  <2>4. ids[k] = e[i].db
    BY <1>9, <2>1, <2>3
  <2> QED
    BY <1>9, <2>4
<1> QED
  BY <1>11, <1>12, <1>13 DEF ids

-----------------------------------------------------------------------------
(* The calls.                                                              *)

FileKinds == {"list", "load", "reread", "update", "delete", "save"}

FileCall ==
    [n : 1..MaxCalls, kind : FileKinds, id : Evaluation \cup {None}, uid : Nat, batch : Nat,
     nav : BOOLEAN, state : {"sent", "served", "failed"}, got : SUBSET Evaluation]

(* A call is one of the first n and names an evaluation of B, but for that *)
(* of the list and a save the server has not done.                         *)
GoodFileCall(c, n, B) ==
    /\ c \in FileCall /\ c.n <= n /\ c.got \subseteq B
    /\ c.kind = "list" \/ (c.kind = "save" /\ c.state # "served") \/ c.id \in B

(* It is on its way into the files.                                        *)
Going(c) == c.kind = "load" \/ (c.kind = "save" /\ c.state = "served")

LEMMA NewFileCall ==
    ASSUME NEW n \in 1..MaxCalls, NEW kind \in FileKinds, NEW e \in Evaluation \cup {None},
           NEW uid \in Nat, NEW batch \in Nat, NEW nav \in BOOLEAN, NEW B,
           kind \in {"list", "save"} \/ e \in B
    PROVE  LET c == F!New(n, kind, e, uid, batch, nav) IN
              /\ GoodFileCall(c, n, B) /\ c.n = n /\ c.kind = kind /\ c.id = e /\ c.state = "sent"
              /\ Going(c) <=> kind = "load"
<1> DEFINE c == F!New(n, kind, e, uid, batch, nav)
<1>1. c \in FileCall /\ c.n = n /\ c.kind = kind /\ c.id = e /\ c.state = "sent" /\ c.got = {}
  BY DEF F!New, FileCall
<1>2. n <= n
  BY ClientAssumption
<1> HIDE DEF c
<1> QED
  BY <1>1, <1>2 DEF GoodFileCall, Going, c

LEMMA CallsGrow ==
    ASSUME NEW n \in Nat, NEW m \in Nat, n <= m, NEW B, NEW D, B \subseteq D,
           NEW c, GoodFileCall(c, n, B)
    PROVE  GoodFileCall(c, m, D)
<1>1. c.n \in Nat /\ c.n <= n
  BY ClientAssumption DEF GoodFileCall, FileCall
<1>2. c.n <= m
  BY <1>1
<1> QED
  BY <1>2 DEF GoodFileCall

-----------------------------------------------------------------------------
(* Types, numbers and the evaluations that are named anywhere.             *)

FilesGood ==
    /\ made \in 0..MaxFiles /\ GoodFiles(execs, made, born) /\ GoodFiles(profs, made, born)
    /\ AllSeen(execs)
    /\ \A i \in DOMAIN execs, j \in DOMAIN profs : execs[i].uid # profs[j].uid

Chosen == selE \subseteq F!Uids(execs) /\ selP \subseteq F!Uids(profs)

EvaluationsGood == saved \subseteq born /\ born \subseteq Evaluation

RowsGood ==
    /\ list \in Seq(F!ListRow) /\ Once(list) /\ \A i \in DOMAIN list : list[i].id \in born
    /\ dialog \in F!ListRow \cup {None} /\ (dialog # None => dialog.id \in born)

GoodUrl(u, B) == u \in Seq(Evaluation) /\ \A i \in DOMAIN u : u[i] \in B

RouteGood ==
    /\ shown \in BOOLEAN /\ (~shown => url = <<>>)
    /\ GoodUrl(url, born) /\ \A u \in been : GoodUrl(u, born)

FileCallsGood == sent \in 0..MaxCalls /\ \A c \in calls : GoodFileCall(c, sent, born)

RestGood ==
    saving \subseteq 1..MaxFiles /\ twice \subseteq Evaluation /\ failed \subseteq Evaluation
    /\ calm \in BOOLEAN

FilesTyped ==
    /\ FilesGood /\ Chosen /\ EvaluationsGood /\ RowsGood /\ RouteGood /\ FileCallsGood
    /\ RestGood

LEMMA NoUrl == \A B : GoodUrl(<<>>, B)
<1>1. <<>> \in Seq(Evaluation) /\ DOMAIN <<>> = {}
  BY EmptySeq
<1> QED
  BY <1>1 DEF GoodUrl

LEMMA FilesTypedInit == F!Init => FilesTyped
<1> SUFFICES ASSUME F!Init PROVE FilesTyped
  OBVIOUS
<1>1. FilesGood
  <2>1. 0 \in 0..MaxFiles /\ DOMAIN <<>> = {}
    BY ClientAssumption
  <2> QED
    BY <2>1, NoFiles DEF F!Init, FilesGood, AllSeen
<1>2. Chosen /\ EvaluationsGood /\ RouteGood /\ RestGood
  BY NoUrl DEF F!Init, Chosen, EvaluationsGood, RouteGood, RestGood
<1>3. RowsGood
  <2>1. <<>> \in Seq(F!ListRow) /\ DOMAIN <<>> = {}
    BY EmptySeq
  <2> QED
    BY <2>1 DEF F!Init, RowsGood, Once
<1>4. FileCallsGood
  BY ClientAssumption DEF F!Init, FileCallsGood
<1> QED
  BY <1>1, <1>2, <1>3, <1>4 DEF FilesTyped

(* A set of evaluations, listed.                                           *)
LEMMA ListedIs ==
    ASSUME NEW S \in SUBSET Evaluation
    PROVE  /\ SetToSeq(S) \in Seq(Evaluation)
           /\ \A i \in DOMAIN SetToSeq(S) : SetToSeq(S)[i] \in S
           /\ \A i, j \in DOMAIN SetToSeq(S) : SetToSeq(S)[i] = SetToSeq(S)[j] => i = j
           /\ \A x \in S : \E i \in DOMAIN SetToSeq(S) : SetToSeq(S)[i] = x
<1> DEFINE n == Cardinality(S)
           q == SetToSeq(S)
<1>1. IsFiniteSet(S)
  BY ClientAssumption, FS_Subset
<1>2. /\ q \in [1..n -> S] /\ n \in Nat
      /\ \A a, b \in 1..n : q[a] = q[b] => a = b
      /\ \A x \in S : \E a \in 1..n : q[a] = x
  BY <1>1, EachOnce
<1> HIDE DEF n, q
<1>3. q = [i \in 1..n |-> q[i]] /\ DOMAIN q = 1..n /\ \A i \in 1..n : q[i] \in S
  BY <1>2
<1>4. q \in Seq(Evaluation)
  <2>1. \A i \in 1..n : q[i] \in Evaluation
    BY <1>3
  <2> QED
    BY <1>2, <1>3, <2>1, IsASeq
<1> QED
  BY <1>2, <1>3, <1>4 DEF q

-----------------------------------------------------------------------------
(* What a step does to the calls.                                          *)

Fewer == calls' \subseteq calls /\ UNCHANGED <<sent, twice>>

Asks ==
    \E kind \in FileKinds \ {"load"}, e \in Evaluation \cup {None}, uid \in Nat,
       others \in SUBSET calls :
          /\ kind \in {"list", "save"} \/ e \in born
          /\ sent < MaxCalls /\ sent' = sent + 1 /\ twice' = twice
          /\ calls' = others \cup {F!New(sent + 1, kind, e, uid, 0, FALSE)}

Loads ==
    \E ids \in Seq(Evaluation), nav \in BOOLEAN, others \in SUBSET calls :
       GoodUrl(ids, born) /\ F!LoadResults(ids, nav, others)

Serves ==
    \E c \in calls : \E d :
       /\ calls' = (calls \ {c}) \cup {d} /\ UNCHANGED <<sent, twice>>
       /\ GoodFileCall(d, sent, born') /\ d.kind = c.kind
       /\ \/ d.id = c.id /\ (Going(d) => Going(c))
          \/ c.kind = "save" /\ d.id \in born' \ born

LEMMA BornGrows ==
    ASSUME FilesTyped, F!Next
    PROVE  EvaluationsGood' /\ born \subseteq born'
<1>1. saved \subseteq born /\ born \subseteq Evaluation
  BY DEF FilesTyped, EvaluationsGood
<1>2. ASSUME NEW c \in calls, F!Handle(c)
      PROVE  (born' = born /\ saved' \subseteq saved)
             \/ \E e \in Evaluation : saved' = saved \cup {e} /\ born' = born \cup {e}
  <2>1. CASE F!ServeOne(c)
    BY <2>1 DEF F!ServeOne
  <2>2. CASE F!ServeSave(c)
    <3>1. CASE UNCHANGED F!server
      BY <3>1 DEF F!server
    <3>2. CASE \E e \in Evaluation \ born : saved' = saved \cup {e} /\ born' = born \cup {e}
      BY <3>2
    <3> QED
      BY <2>2, <3>1, <3>2, Zenon DEF F!ServeSave
  <2>3. CASE F!ServeList(c) \/ F!AnswerList(c) \/ F!AnswerLoad(c) \/ F!AnswerOne(c)
             \/ F!AnswerDelete(c) \/ F!AnswerSave(c) \/ F!AnswerFailure(c)
    BY <2>3 DEF F!ServeList, F!AnswerList, F!AnswerLoad, F!AnswerOne, F!AnswerDelete,
                F!AnswerSave, F!AnswerFailure, F!server
  <2> QED
    BY <1>2, <2>1, <2>2, <2>3 DEF F!Handle
<1>3. CASE \E i \in DOMAIN F!All :
              F!RemoveFile(F!All[i]) \/ F!SelectFile(F!All[i]) \/ F!SaveFile(F!All[i])
  BY <1>1, <1>3 DEF F!RemoveFile, F!SelectFile, F!SaveFile, F!server, EvaluationsGood
<1>4. CASE \/ F!AddLocal \/ F!SelectAll \/ F!ClickResults \/ F!GoAway \/ F!Reload
           \/ F!OpenList \/ F!LoadFromList \/ F!OpenDelete \/ F!CancelDelete \/ F!ConfirmDelete
           \/ F!Edit
  BY <1>1, <1>4 DEF F!AddLocal, F!SelectAll, F!ClickResults, F!GoAway, F!Reload, F!OpenList,
     F!LoadFromList, F!OpenDelete, F!CancelDelete, F!ConfirmDelete, F!Edit, F!server,
     EvaluationsGood
<1>5. CASE \E c \in calls : F!Handle(c)
  BY <1>1, <1>2, <1>5 DEF EvaluationsGood
<1> QED
  BY <1>3, <1>4, <1>5 DEF F!Next

(* A call is served, and stays the call it was.                             *)
LEMMA ServeEffect ==
    ASSUME FilesTyped, NEW c \in calls, F!ServeList(c) \/ F!ServeOne(c) \/ F!ServeSave(c)
    PROVE  Serves
<1>0. /\ saved \subseteq born /\ born \subseteq Evaluation
      /\ GoodFileCall(c, sent, born)
  BY DEF FilesTyped, FileCallsGood, EvaluationsGood
<1>1. CASE F!ServeList(c)
  <2> DEFINE d == [c EXCEPT !.state = "served", !.got = saved]
  <2>1. /\ calls' = (calls \ {c}) \cup {d} /\ UNCHANGED <<sent, twice, born>>
        /\ c.state = "sent" /\ c.kind = "list"
    BY <1>1 DEF F!ServeList, F!Put, F!server
  <2>2. c.kind # "save" /\ saved \in SUBSET Evaluation
    BY <1>0, <2>1
  <2>3. GoodFileCall(d, sent, born) /\ d.kind = c.kind /\ d.id = c.id
    <3>1. c \in FileCall
      BY <1>0 DEF GoodFileCall
    <3>2. /\ d \in FileCall /\ d.n = c.n /\ d.kind = c.kind /\ d.id = c.id /\ d.got = saved
      BY <2>2, <3>1 DEF FileCall
    <3> HIDE DEF d
    <3> QED
      BY <1>0, <2>1, <3>2 DEF GoodFileCall
  <2> HIDE DEF d
  <2> QED
    BY <2>1, <2>3 DEF Serves, Going
<1>2. CASE F!ServeOne(c)
  <2>1. /\ UNCHANGED <<sent, twice, born>> /\ c.state = "sent"
        /\ c.kind \in {"load", "reread", "update", "delete"}
        /\ F!Served(c) \/ F!Refused(c)
    BY <1>2 DEF F!ServeOne
  <2>2. \E d : /\ calls' = (calls \ {c}) \cup {d}
               /\ GoodFileCall(d, sent, born) /\ d.kind = c.kind /\ d.id = c.id
    <3>1. c \in FileCall /\ c.kind # "save"
      BY <1>0, <2>1 DEF GoodFileCall
    <3>2. CASE F!Served(c)
      <4> DEFINE d == [c EXCEPT !.state = "served"]
      <4>1. calls' = (calls \ {c}) \cup {d}
        BY <3>2 DEF F!Served, F!Put
      <4>2. d \in FileCall /\ d.n = c.n /\ d.kind = c.kind /\ d.id = c.id /\ d.got = c.got
        BY <3>1 DEF FileCall
      <4> HIDE DEF d
      <4>3. GoodFileCall(d, sent, born)
        BY <1>0, <2>1, <3>1, <4>2 DEF GoodFileCall
      <4> QED
        BY <4>1, <4>2, <4>3
    <3>3. CASE F!Refused(c)
      <4> DEFINE d == [c EXCEPT !.state = "failed"]
      <4>1. calls' = (calls \ {c}) \cup {d}
        BY <3>3 DEF F!Refused, F!Put
      <4>2. d \in FileCall /\ d.n = c.n /\ d.kind = c.kind /\ d.id = c.id /\ d.got = c.got
        BY <3>1 DEF FileCall
      <4> HIDE DEF d
      <4>3. GoodFileCall(d, sent, born)
        BY <1>0, <2>1, <3>1, <4>2 DEF GoodFileCall
      <4> QED
        BY <4>1, <4>2, <4>3
    <3> QED
      BY <2>1, <3>2, <3>3
  <2>3. c.kind # "save"
    BY <2>1
  <2> QED
    BY <2>1, <2>2, <2>3 DEF Serves, Going
<1>3. CASE F!ServeSave(c)
  <2>1. UNCHANGED <<sent, twice>> /\ c.state = "sent" /\ c.kind = "save" /\ c \in FileCall
    BY <1>0, <1>3, Zenon DEF F!ServeSave, GoodFileCall
  <2>2. CASE F!Refused(c) /\ UNCHANGED F!server
    <3> DEFINE d == [c EXCEPT !.state = "failed"]
    <3>1. calls' = (calls \ {c}) \cup {d} /\ born' = born
      BY <2>2 DEF F!Refused, F!Put, F!server
    <3>2. d \in FileCall /\ d.n = c.n /\ d.kind = c.kind /\ d.id = c.id /\ d.got = c.got
          /\ d.state = "failed"
      BY <2>1 DEF FileCall
    <3> HIDE DEF d
    <3>3. GoodFileCall(d, sent, born') /\ ~Going(d)
      BY <1>0, <2>1, <3>1, <3>2 DEF GoodFileCall, Going
    <3> QED
      BY <2>1, <3>1, <3>2, <3>3 DEF Serves
  <2>3. ASSUME NEW e \in Evaluation \ born, born' = born \cup {e},
               F!Put(c, [c EXCEPT !.state = "served", !.id = e])
        PROVE  Serves
    <3> DEFINE d == [c EXCEPT !.state = "served", !.id = e]
    <3>1. calls' = (calls \ {c}) \cup {d}
      BY <2>3 DEF F!Put
    <3>2. d \in FileCall /\ d.n = c.n /\ d.kind = c.kind /\ d.id = e /\ d.got = c.got
      BY <2>1 DEF FileCall
    <3> HIDE DEF d
    <3>3. GoodFileCall(d, sent, born')
      BY <1>0, <2>1, <2>3, <3>2 DEF GoodFileCall
    <3> QED
      BY <2>1, <2>3, <3>1, <3>2, <3>3 DEF Serves
  <2> QED
    BY <1>3, <2>2, <2>3, Zenon DEF F!ServeSave
<1> QED
  BY <1>1, <1>2, <1>3

LEMMA AskEffect ==
    ASSUME NEW kind \in FileKinds \ {"load"}, NEW e \in Evaluation \cup {None}, NEW uid \in Nat,
           NEW others \in SUBSET calls, kind \in {"list", "save"} \/ e \in born,
           sent < MaxCalls, sent' = sent + 1, twice' = twice,
           calls' = others \cup {F!New(sent + 1, kind, e, uid, 0, FALSE)}
    PROVE  Asks
  BY DEF Asks

LEMMA RereadEffect ==
    ASSUME NEW c \in calls, c.id \in Evaluation, c.id \in born, twice' = twice,
           F!Send("reread", c.id, 0, calls \ {c})
    PROVE  Asks
<1>1. /\ sent < MaxCalls /\ sent' = sent + 1
      /\ calls' = (calls \ {c}) \cup {F!New(sent + 1, "reread", c.id, 0, 0, FALSE)}
  BY DEF F!Send
<1>2. /\ "reread" \in FileKinds \ {"load"} /\ c.id \in Evaluation \cup {None} /\ 0 \in Nat
      /\ calls \ {c} \in SUBSET calls
  BY DEF FileKinds
<1> QED
  BY <1>1, <1>2, AskEffect

LEMMA CallEffects ==
    ASSUME FilesTyped, F!Next PROVE Fewer \/ Asks \/ Loads \/ Serves
<1> USE DEF F!wire
<1>0. /\ list \in Seq(F!ListRow) /\ \A i \in DOMAIN list : list[i].id \in born
      /\ dialog # None => dialog.id \in born
      /\ born \subseteq Evaluation
  BY DEF FilesTyped, RowsGood, EvaluationsGood
<1>1. CASE F!AddLocal \/ F!SelectAll \/ F!GoAway \/ F!OpenDelete \/ F!CancelDelete
  BY <1>1 DEF F!AddLocal, F!SelectAll, F!GoAway, F!OpenDelete, F!CancelDelete, Fewer
<1>2. CASE F!ClickResults
  <2>1. PICK ids \in been \cup {<<>>} : F!Visit(ids, calls)
    BY <1>2 DEF F!ClickResults
  <2>2. GoodUrl(ids, born)
    BY NoUrl DEF FilesTyped, RouteGood
  <2> QED
    BY <2>1, <2>2 DEF F!Visit, Loads, GoodUrl
<1>3. CASE F!Reload
  <2>1. F!LoadResults(url, FALSE, {})
    BY <1>3 DEF F!Reload, F!Visit
  <2>2. GoodUrl(url, born)
    BY DEF FilesTyped, RouteGood
  <2> QED
    BY <2>1, <2>2 DEF Loads, GoodUrl
<1>4. CASE F!OpenList
  <2>1. F!Send("list", None, 0, calls) /\ twice' = twice
    BY <1>4 DEF F!OpenList
  <2> QED
    BY <2>1, AskEffect DEF F!Send, FileKinds
<1>5. CASE F!LoadFromList
  <2>1. PICK S \in SUBSET F!Ids(list) : F!LoadResults(F!SetToSeq(S), TRUE, calls)
    BY <1>5 DEF F!LoadFromList
  <2>2. \A x \in S : x \in born /\ x \in Evaluation
    BY <1>0 DEF F!Ids
  <2>3. GoodUrl(SetToSeq(S), born)
    BY <2>2, ListedIs DEF GoodUrl
  <2>4. F!SetToSeq(S) = SetToSeq(S)
    BY FileLists
  <2> QED
    BY <2>1, <2>3, <2>4 DEF Loads, GoodUrl
<1>6. CASE F!ConfirmDelete
  <2>1. /\ dialog # None /\ sent < MaxCalls /\ sent' = sent + 1 /\ twice' = twice
        /\ calls' = calls \cup {F!New(sent + 1, "delete", dialog.id, 0, 0, FALSE)}
    BY <1>6 DEF F!ConfirmDelete
  <2>2. dialog.id \in Evaluation /\ dialog.id \in born
    BY <1>0, <2>1
  <2> QED
    BY <2>1, <2>2, AskEffect DEF FileKinds
<1>7. CASE F!Edit
  <2>1. PICK i \in DOMAIN list : F!Send("update", list[i].id, 0, calls)
    BY <1>7 DEF F!Edit
  <2>2. list[i].id \in Evaluation /\ list[i].id \in born /\ twice' = twice
    BY <1>0, <1>7 DEF F!Edit
  <2> QED
    BY <2>1, <2>2, AskEffect DEF F!Send, FileKinds
<1>8. ASSUME NEW i \in DOMAIN F!All, F!RemoveFile(F!All[i]) PROVE Loads
  BY <1>8, NoUrl DEF F!RemoveFile, F!Visit, Loads, GoodUrl
<1>9. ASSUME NEW i \in DOMAIN F!All, F!SelectFile(F!All[i]) PROVE Fewer
  BY <1>9 DEF F!SelectFile, Fewer
<1>10. ASSUME NEW i \in DOMAIN F!All, F!SaveFile(F!All[i]) PROVE Asks
  <2>1. F!Send("save", None, F!All[i].uid, calls) /\ twice' = twice
    BY <1>10 DEF F!SaveFile
  <2>2. F!All[i].uid \in Nat
    <3>1. F!All \in Seq(F!FileRecord)
      BY JoinedIs DEF F!All, FilesTyped, FilesGood
    <3>2. F!All[i] \in F!FileRecord
      BY <3>1, ElementOfSeq, LenProperties
    <3>3. F!All[i].uid \in 1..MaxFiles
      BY <3>2 DEF F!FileRecord
    <3> QED
      BY <3>3
  <2> QED
    BY <2>1, <2>2, AskEffect DEF F!Send, FileKinds
<1>11. ASSUME NEW c \in calls, F!Handle(c) PROVE Fewer \/ Asks \/ Serves
  <2>1. CASE F!ServeList(c) \/ F!ServeOne(c) \/ F!ServeSave(c)
    BY <2>1, ServeEffect
  <2>2. CASE F!AnswerList(c) \/ F!AnswerLoad(c) \/ F!AnswerDelete(c) \/ F!AnswerFailure(c)
    <3>1. calls' = calls \ {c} /\ UNCHANGED <<sent, twice>>
      BY <2>2 DEF F!AnswerList, F!AnswerLoad, F!AnswerDelete, F!AnswerFailure
    <3> QED
      BY <3>1 DEF Fewer
  <2>3. CASE F!AnswerOne(c)
    <3>1. /\ c.kind \in {"update", "reread"} /\ twice' = twice
          /\ c.kind = "update" => F!Send("reread", c.id, 0, calls \ {c})
          /\ c.kind # "update" => calls' = calls \ {c} /\ sent' = sent
      BY <2>3 DEF F!AnswerOne
    <3>2. c.id \in born /\ c.id \in Evaluation
      BY <1>0, <3>1 DEF FilesTyped, FileCallsGood, GoodFileCall
    <3>3. CASE c.kind = "update"
      BY <3>1, <3>2, <3>3, RereadEffect
    <3>4. CASE c.kind # "update"
      BY <3>1, <3>4 DEF Fewer
    <3> QED
      BY <3>3, <3>4
  <2>4. CASE F!AnswerSave(c)
    <3>1. /\ c.kind = "save" /\ c.state = "served" /\ twice' = twice
          /\ F!Send("reread", c.id, 0, calls \ {c})
      BY <2>4 DEF F!AnswerSave
    <3>2. c.id \in born /\ c.id \in Evaluation
      BY <1>0, <3>1 DEF FilesTyped, FileCallsGood, GoodFileCall
    <3> QED
      BY <3>1, <3>2, RereadEffect
  <2> QED
    BY <1>11, <2>1, <2>2, <2>3, <2>4 DEF F!Handle
<1> QED
  BY <1>1, <1>2, <1>3, <1>4, <1>5, <1>6, <1>7, <1>8, <1>9, <1>10, <1>11 DEF F!Next

(* The calls load_results sends: for the ids in new.                       *)
Sends(new, ids, nav, others) ==
    /\ \A k \in DOMAIN new : new[k] \in born /\ new[k] \notin ToSet(F!LoadedIds')
    /\ \A i \in DOMAIN ids :
          ids[i] \in ToSet(F!LoadedIds') \/ \E k \in DOMAIN new : new[k] = ids[i]
    /\ sent + Len(new) <= MaxCalls /\ sent' = sent + Len(new)
    /\ calls' = others \cup
          {F!New(sent + k, "load", new[k], 0, sent + 1, nav) : k \in DOMAIN new}
    /\ twice \subseteq twice' /\ twice' \subseteq Evaluation
    /\ \A k, l \in DOMAIN new : k # l /\ new[k] = new[l] => new[k] \in twice'
    /\ \A k \in DOMAIN new, c \in others : Going(c) /\ c.id = new[k] => new[k] \in twice'
    /\ calm' = (calm /\ ~(new # <<>> /\ F!Meets("load", others)))

LEMMA LoadsAre ==
    ASSUME FilesTyped, NEW ids \in Seq(Evaluation), GoodUrl(ids, born), NEW nav \in BOOLEAN,
           NEW others \in SUBSET calls, F!LoadResults(ids, nav, others)
    PROVE  \E new \in Seq(Evaluation) : Sends(new, ids, nav, others)
<1> DEFINE known == F!LoadedIds'
           at == {i \in DOMAIN ids : ids[i] \notin ToSet(known)}
           new == Pick(ids, at)
           again == {e \in Evaluation : \E i, j \in DOMAIN new : i # j /\ new[i] = e /\ new[j] = e}
<1>1. /\ sent + Len(new) <= MaxCalls /\ sent' = sent + Len(new)
      /\ calls' = others \cup
            {F!New(sent + k, "load", new[k], 0, sent + 1, nav) : k \in DOMAIN new}
      /\ twice' = twice \cup again \cup (F!UnderWay(others) \cap {new[k] : k \in DOMAIN new})
      /\ calm' = (calm /\ ~(new # <<>> /\ F!Meets("load", others)))
  <2>1. F!Pick(ids, {i \in DOMAIN ids : ids[i] \notin F!ToSet(known)}) = new
    BY FileLists
  <2> QED
    BY <2>1 DEF F!LoadResults
<1>2. at \in SUBSET (DOMAIN ids)
  OBVIOUS
<1>3. \A i \in DOMAIN ids : i \in at \/ ids[i] \in ToSet(known)
  OBVIOUS
<1>4. \A i \in at : ids[i] \notin ToSet(known)
  OBVIOUS
<1> HIDE DEF at, known
<1>5. /\ new \in Seq(Evaluation) /\ DOMAIN new = 1..Cardinality(at)
      /\ \A k \in 1..Cardinality(at) : Nth(at, k) \in at /\ new[k] = ids[Nth(at, k)]
      /\ \A i \in at : \E k \in 1..Cardinality(at) : Nth(at, k) = i /\ new[k] = ids[i]
  BY <1>2, PickIs
<1> HIDE DEF new
<1>6. \A k \in DOMAIN new : new[k] \in born /\ new[k] \notin ToSet(known)
  BY <1>2, <1>4, <1>5 DEF GoodUrl
<1>7. \A i \in DOMAIN ids : ids[i] \in ToSet(known) \/ \E k \in DOMAIN new : new[k] = ids[i]
  BY <1>3, <1>5
<1>8. \A k \in DOMAIN new : new[k] \in Evaluation
  BY <1>6 DEF FilesTyped, EvaluationsGood
<1>9. \A k, l \in DOMAIN new : k # l /\ new[k] = new[l] => new[k] \in twice'
  BY <1>1, <1>8
<1>10. \A k \in DOMAIN new, c \in others : Going(c) /\ c.id = new[k] => new[k] \in twice'
  <2> SUFFICES ASSUME NEW k \in DOMAIN new, NEW c \in others, Going(c), c.id = new[k]
               PROVE  new[k] \in twice'
    OBVIOUS
  <2>1. c.id \in F!UnderWay(others)
    BY DEF F!UnderWay, Going
  <2> HIDE DEF again
  <2> QED
    BY <1>1, <2>1
<1>11. twice \subseteq twice' /\ twice' \subseteq Evaluation
  <2>1. twice \subseteq Evaluation
    BY DEF FilesTyped, RestGood
  <2> QED
    BY <1>1, <1>8, <2>1
<1> HIDE DEF again
<1> QED
  BY <1>1, <1>5, <1>6, <1>7, <1>9, <1>10, <1>11 DEF known, Sends

LEMMA CallsStep == ASSUME FilesTyped, F!Next PROVE FileCallsGood' /\ twice' \subseteq Evaluation
<1>1. /\ sent \in 0..MaxCalls /\ \A c \in calls : GoodFileCall(c, sent, born)
      /\ born \subseteq born' /\ twice \subseteq Evaluation
  BY BornGrows DEF FilesTyped, FileCallsGood, RestGood
<1>2. ASSUME NEW m \in 0..MaxCalls, sent <= m, sent' = m, NEW others \in SUBSET calls
      PROVE  sent' \in 0..MaxCalls /\ \A c \in others : GoodFileCall(c, sent', born')
  <2>1. sent \in Nat /\ m \in Nat
    BY <1>1, ClientAssumption
  <2> QED
    BY <1>1, <1>2, <2>1, CallsGrow
<1>3. sent \in Nat /\ MaxCalls \in Nat /\ sent <= sent
  BY <1>1, ClientAssumption
<1>4. CASE Fewer
  BY <1>1, <1>2, <1>3, <1>4 DEF Fewer, FileCallsGood
<1>5. CASE Asks
  <2>1. PICK kind \in FileKinds \ {"load"}, e \in Evaluation \cup {None}, uid \in Nat,
             others \in SUBSET calls :
                /\ kind \in {"list", "save"} \/ e \in born
                /\ sent < MaxCalls /\ sent' = sent + 1 /\ twice' = twice
                /\ calls' = others \cup {F!New(sent + 1, kind, e, uid, 0, FALSE)}
    BY <1>5 DEF Asks
  <2>2. sent + 1 \in 0..MaxCalls /\ sent + 1 \in 1..MaxCalls /\ sent <= sent + 1
    BY <1>3, <2>1
  <2>3. sent' \in 0..MaxCalls /\ \A c \in others : GoodFileCall(c, sent', born')
    BY <1>2, <2>1, <2>2
  <2> DEFINE d == F!New(sent + 1, kind, e, uid, 0, FALSE)
  <2>4. GoodFileCall(d, sent + 1, born')
    <3>1. kind \in {"list", "save"} \/ e \in born'
      BY <1>1, <2>1
    <3> QED
      BY <2>2, <3>1, NewFileCall
  <2> HIDE DEF d
  <2> QED
    BY <1>1, <2>1, <2>3, <2>4 DEF FileCallsGood, d
<1>6. CASE Loads
  <2>1. PICK ids \in Seq(Evaluation), nav \in BOOLEAN, others \in SUBSET calls :
           GoodUrl(ids, born) /\ F!LoadResults(ids, nav, others)
    BY <1>6 DEF Loads
  <2>0. PICK new \in Seq(Evaluation) : Sends(new, ids, nav, others)
    BY <2>1, LoadsAre
  <2>2. /\ \A k \in DOMAIN new : new[k] \in born
        /\ sent + Len(new) <= MaxCalls /\ sent' = sent + Len(new)
        /\ calls' = others \cup
              {F!New(sent + k, "load", new[k], 0, sent + 1, nav) : k \in DOMAIN new}
        /\ twice' \subseteq Evaluation
    BY <2>0 DEF Sends
  <2> DEFINE n == Len(new)
  <2>3. n \in Nat /\ DOMAIN new = 1..n /\ \A k \in DOMAIN new : new[k] \in Evaluation
    BY LenProperties, ElementOfSeq
  <2> HIDE DEF n
  <2>4. sent + n \in 0..MaxCalls /\ sent <= sent + n /\ sent' = sent + n
    BY <1>3, <2>2, <2>3 DEF n
  <2>5. sent' \in 0..MaxCalls /\ \A c \in others : GoodFileCall(c, sent', born')
    BY <1>2, <2>4
  <2>6. ASSUME NEW k \in DOMAIN new
        PROVE  GoodFileCall(F!New(sent + k, "load", new[k], 0, sent + 1, nav), sent', born')
    <3> DEFINE d == F!New(sent + k, "load", new[k], 0, sent + 1, nav)
    <3>1. sent + k \in 1..MaxCalls /\ sent + k <= sent + n /\ sent + k \in Nat
          /\ sent + 1 \in Nat /\ sent + n \in Nat
      BY <1>3, <2>3, <2>4
    <3>2. "load" \in FileKinds /\ new[k] \in Evaluation \cup {None} /\ new[k] \in born' /\ 0 \in Nat
      BY <1>1, <2>2, <2>3 DEF FileKinds
    <3>3. GoodFileCall(d, sent + k, born')
      BY <3>1, <3>2, NewFileCall
    <3> HIDE DEF d
    <3>4. GoodFileCall(d, sent + n, born')
      BY <3>1, <3>3, CallsGrow
    <3> QED
      BY <2>4, <3>4 DEF d
  <2> QED
    BY <2>2, <2>5, <2>6 DEF FileCallsGood
<1>7. CASE Serves
  <2>1. PICK c, d :
           /\ c \in calls
           /\ calls' = (calls \ {c}) \cup {d} /\ UNCHANGED <<sent, twice>>
           /\ GoodFileCall(d, sent, born')
    BY <1>7 DEF Serves
  <2>2. calls \ {c} \in SUBSET calls
    OBVIOUS
  <2>3. \A x \in calls \ {c} : GoodFileCall(x, sent', born')
    BY <1>1, <1>2, <1>3, <2>1, <2>2
  <2> QED
    BY <1>1, <2>1, <2>3 DEF FileCallsGood
<1> QED
  BY <1>4, <1>5, <1>6, <1>7, CallEffects

-----------------------------------------------------------------------------
(* What a step does to the files.                                          *)

HasFile(e) ==
    (\E i \in DOMAIN execs : execs[i].from = e) \/ \E i \in DOMAIN profs : profs[i].from = e

(* An execution that records no other id than before.                      *)
Kept(f) == f.db = None \/ \E l \in DOMAIN execs : execs[l].uid = f.uid /\ execs[l].db = f.db

KeepsFiles == \A i \in DOMAIN execs' : Kept(execs'[i])

(* One file gets the id of a call that is over.                            *)
TakesFile ==
    \E c \in calls, u \in Nat :
       /\ Going(c) /\ \A d \in calls' : Going(d) => d \in calls /\ d # c
       /\ \A i \in DOMAIN execs' :
             Kept(execs'[i]) \/ (execs'[i].uid = u /\ execs'[i].db = c.id)

LEMMA SameUids ==
    ASSUME NEW q, NEW fs, DOMAIN q = DOMAIN fs, \A i \in DOMAIN fs : q[i].uid = fs[i].uid
    PROVE  F!Uids(q) = F!Uids(fs)
  BY DEF F!Uids

LEMMA FilesUnchanged ==
    ASSUME FilesTyped, F!Next, UNCHANGED F!files
    PROVE  FilesGood' /\ KeepsFiles
<1>1. execs' = execs /\ profs' = profs /\ made' = made
  BY DEF F!files
<1>2. born \subseteq born' /\ made \in Nat /\ made <= made
  BY BornGrows, ClientAssumption DEF FilesTyped, FilesGood
<1>3. GoodFiles(execs, made, born') /\ GoodFiles(profs, made, born')
  BY <1>2, FilesGrow DEF FilesTyped, FilesGood
<1> QED
  BY <1>1, <1>3 DEF FilesTyped, FilesGood, KeepsFiles, Kept

(* A new file, with a number of its own.                                   *)
LEMMA LoadTextIs ==
    ASSUME FilesTyped, F!Next, NEW kind, NEW from \in Evaluation \cup {None},
           from # None => from \in born, F!LoadText(kind, from)
    PROVE  /\ FilesGood' /\ Chosen' /\ HasFile(from)'
           /\ \A e : HasFile(e) => HasFile(e)'
           /\ \A i \in DOMAIN execs' :
                 Kept(execs'[i]) \/ (execs'[i].uid = made + 1 /\ execs'[i].db = from)
<1>1. /\ born \subseteq born' /\ made \in 0..MaxFiles
      /\ GoodFiles(execs, made, born) /\ GoodFiles(profs, made, born) /\ AllSeen(execs)
      /\ \A i \in DOMAIN execs, j \in DOMAIN profs : execs[i].uid # profs[j].uid
  BY BornGrows DEF FilesTyped, FilesGood
<1>2. made < MaxFiles /\ made' = made + 1
  BY DEF F!LoadText, F!AddExecution, F!AddProfile
<1>3. made \in Nat /\ made + 1 \in 0..MaxFiles /\ made <= made + 1 /\ MaxFiles \in Nat
  BY <1>1, <1>2, ClientAssumption
<1>4. GoodFiles(execs, made, born') /\ GoodFiles(profs, made, born')
  BY <1>1, <1>3, FilesGrow
<1> DEFINE older(q, fs) ==
              /\ GoodFiles(q, made + 1, born') /\ AllSeen(q) /\ DOMAIN q = DOMAIN fs
              /\ \A i \in DOMAIN fs : SameFile(q[i], fs[i])
           longer(q, fs, f) ==
              /\ GoodFiles(q, made + 1, born') /\ AllSeen(q)
              /\ \A k \in DOMAIN q : q[k] = f \/ \E l \in DOMAIN fs : SameFile(q[k], fs[l])
              /\ \E k \in DOMAIN q : q[k] = f
              /\ \A l \in DOMAIN fs : \E k \in DOMAIN q : SameFile(q[k], fs[l])
<1>5. older(F!Refreshed(execs), execs) /\ older(F!Refreshed(profs), profs)
  <2>1. ASSUME NEW fs, GoodFiles(fs, made, born') PROVE older(F!Refreshed(fs), fs)
    <3> DEFINE q == F!Refreshed(fs)
    <3>1. /\ GoodFiles(q, made, born') /\ AllSeen(q) /\ DOMAIN q = DOMAIN fs
          /\ \A i \in DOMAIN fs : SameFile(q[i], fs[i])
      BY <2>1, RefreshedIs
    <3> HIDE DEF q
    <3>2. GoodFiles(q, made + 1, born')
      BY <1>3, <3>1, FilesGrow
    <3> QED
      BY <3>1, <3>2 DEF q
  <2> QED
    BY <1>4, <2>1
<1>6. \A i \in DOMAIN execs : execs[i].uid # made + 1
  <2>1. \A i \in DOMAIN execs : execs[i].uid \in 1..MaxFiles /\ execs[i].uid <= made
    BY <1>1, FileFields DEF GoodFiles
  <2>2. \A x \in 1..MaxFiles : x <= made => x # made + 1
    BY <1>3
  <2> QED
    BY <2>1, <2>2
<1>7. \A i \in DOMAIN profs : profs[i].uid # made + 1
  <2>1. \A i \in DOMAIN profs : profs[i].uid \in 1..MaxFiles /\ profs[i].uid <= made
    BY <1>1, FileFields DEF GoodFiles
  <2>2. \A x \in 1..MaxFiles : x <= made => x # made + 1
    BY <1>3
  <2> QED
    BY <2>1, <2>2
<1>8. CASE kind = "profile"
  <2> DEFINE f == F!LoadedFile(made + 1, from, None)
             q == Append(F!Refreshed(profs), f)
             r == F!Refreshed(execs)
  <2>1. execs' = r /\ profs' = q /\ selP' = selP \cup {made + 1} /\ selE' = selE
    BY <1>8 DEF F!LoadText, F!AddProfile
  <2>2. f.uid = made + 1 /\ f.from = from /\ f.db = None
    BY DEF F!LoadedFile
  <2>3. longer(q, profs, f)
    <3>1. None \in Evaluation \cup {None} /\ (None # None => from = None /\ None \in born')
      OBVIOUS
    <3> QED
      BY <1>2, <1>3, <1>4, <3>1, AppendedIs
  <2>4. older(r, execs)
    BY <1>5
  <2> HIDE DEF f, q, r
  <2>5. FilesGood'
    <3>1. \A i \in DOMAIN execs', j \in DOMAIN profs' : execs'[i].uid # profs'[j].uid
      BY <1>1, <1>6, <2>1, <2>2, <2>3, <2>4 DEF SameFile
    <3> QED
      BY <1>2, <1>3, <2>1, <2>3, <2>4, <3>1 DEF FilesGood
  <2>6. Chosen'
    <3>1. selE \subseteq F!Uids(execs) /\ selP \subseteq F!Uids(profs)
      BY DEF FilesTyped, Chosen
    <3>2. F!Uids(execs') = F!Uids(execs)
      BY <2>1, <2>4, SameUids DEF SameFile
    <3>3. F!Uids(profs) \subseteq F!Uids(profs') /\ made + 1 \in F!Uids(profs')
      BY <2>1, <2>2, <2>3 DEF SameFile, F!Uids
    <3> QED
      BY <2>1, <3>1, <3>2, <3>3 DEF Chosen
  <2>7. HasFile(from)' /\ \A e : HasFile(e) => HasFile(e)'
    BY <2>1, <2>2, <2>3, <2>4 DEF HasFile, SameFile
  <2>8. \A i \in DOMAIN execs' : Kept(execs'[i])
    BY <2>1, <2>4 DEF Kept, SameFile
  <2> QED
    BY <2>5, <2>6, <2>7, <2>8
<1>9. CASE kind # "profile"
  <2> DEFINE f == F!LoadedFile(made + 1, from, from)
             q == Append(F!Refreshed(execs), f)
             r == F!Refreshed(profs)
  <2>1. profs' = r /\ execs' = q /\ selE' = selE \cup {made + 1} /\ selP' = selP
    BY <1>9 DEF F!LoadText, F!AddExecution
  <2>2. f.uid = made + 1 /\ f.from = from /\ f.db = from
    BY DEF F!LoadedFile
  <2>3. longer(q, execs, f)
    <3>1. from # None => from = from /\ from \in born'
      BY <1>1
    <3> QED
      BY <1>2, <1>3, <1>4, <3>1, AppendedIs
  <2>4. older(r, profs)
    BY <1>5
  <2> HIDE DEF f, q, r
  <2>5. FilesGood'
    <3>1. \A i \in DOMAIN execs', j \in DOMAIN profs' : execs'[i].uid # profs'[j].uid
      BY <1>1, <1>7, <2>1, <2>2, <2>3, <2>4 DEF SameFile
    <3> QED
      BY <1>2, <1>3, <2>1, <2>3, <2>4, <3>1 DEF FilesGood
  <2>6. Chosen'
    <3>1. selE \subseteq F!Uids(execs) /\ selP \subseteq F!Uids(profs)
      BY DEF FilesTyped, Chosen
    <3>2. F!Uids(profs') = F!Uids(profs)
      BY <2>1, <2>4, SameUids DEF SameFile
    <3>3. F!Uids(execs) \subseteq F!Uids(execs') /\ made + 1 \in F!Uids(execs')
      BY <2>1, <2>2, <2>3 DEF SameFile, F!Uids
    <3> QED
      BY <2>1, <3>1, <3>2, <3>3 DEF Chosen
  <2>7. HasFile(from)' /\ \A e : HasFile(e) => HasFile(e)'
    BY <2>1, <2>2, <2>3, <2>4 DEF HasFile, SameFile
  <2>8. \A i \in DOMAIN execs' :
           Kept(execs'[i]) \/ (execs'[i].uid = made + 1 /\ execs'[i].db = from)
    BY <2>1, <2>2, <2>3 DEF Kept, SameFile
  <2> QED
    BY <2>5, <2>6, <2>7, <2>8
<1> QED
  BY <1>8, <1>9

LEMMA RemoveFileIs ==
    ASSUME FilesTyped, F!Next, NEW i \in DOMAIN F!All, F!RemoveFile(F!All[i])
    PROVE  FilesGood' /\ Chosen' /\ KeepsFiles
<1> DEFINE u == F!All[i].uid
           part1(q, fs) ==
              /\ GoodFiles(q, made, born') /\ AllSeen(q) /\ PartOf(q, fs)
              /\ \A l \in DOMAIN fs : fs[l].uid # u => \E k \in DOMAIN q : q[k].uid = fs[l].uid
<1>1. /\ execs' = F!Without(execs, u) /\ profs' = F!Without(profs, u) /\ made' = made
      /\ selE' = selE \ {u} /\ selP' = selP \ {u}
  BY DEF F!RemoveFile
<1> HIDE DEF u
<1>2. /\ born \subseteq born' /\ made \in Nat /\ made <= made /\ made \in 0..MaxFiles
      /\ \A k \in DOMAIN execs, j \in DOMAIN profs : execs[k].uid # profs[j].uid
  BY BornGrows, ClientAssumption DEF FilesTyped, FilesGood
<1>3. GoodFiles(execs, made, born') /\ GoodFiles(profs, made, born')
  BY <1>2, FilesGrow DEF FilesTyped, FilesGood
<1>4. part1(execs', execs) /\ part1(profs', profs)
  <2>1. ASSUME NEW fs, GoodFiles(fs, made, born') PROVE part1(F!Without(fs, u), fs)
    BY <2>1, WithoutIs
  <2> QED
    BY <1>1, <1>3, <2>1
<1>5. \A k \in DOMAIN execs', j \in DOMAIN profs' : execs'[k].uid # profs'[j].uid
  BY <1>2, <1>4 DEF PartOf, SameFile
<1>6. FilesGood'
  BY <1>1, <1>2, <1>4, <1>5 DEF FilesGood
<1>7. Chosen'
  <2>1. selE \subseteq F!Uids(execs) /\ selP \subseteq F!Uids(profs)
    BY DEF FilesTyped, Chosen
  <2>2. \A x \in F!Uids(execs) : x # u => x \in F!Uids(execs')
    BY <1>4 DEF F!Uids
  <2>3. \A x \in F!Uids(profs) : x # u => x \in F!Uids(profs')
    BY <1>4 DEF F!Uids
  <2> QED
    BY <1>1, <2>1, <2>2, <2>3 DEF Chosen
<1>8. KeepsFiles
  BY <1>4 DEF KeepsFiles, Kept, PartOf, SameFile
<1> QED
  BY <1>6, <1>7, <1>8

LEMMA AnswerSaveIs ==
    ASSUME FilesTyped, F!Next, NEW c \in calls, F!AnswerSave(c)
    PROVE  FilesGood' /\ Chosen' /\ TakesFile
<1>1. PICK seen \in BOOLEAN :
         /\ execs' = F!Recorded(execs, c.uid, c.id, TRUE)
         /\ profs' = F!Recorded(profs, c.uid, c.id, seen)
  BY DEF F!AnswerSave
<1>2. /\ c.state = "served" /\ c.kind = "save" /\ UNCHANGED <<made, selE, selP>>
      /\ sent < MaxCalls
      /\ calls' = (calls \ {c}) \cup {F!New(sent + 1, "reread", c.id, 0, 0, FALSE)}
  BY DEF F!AnswerSave, F!chosen, F!Send
<1>3. /\ born \subseteq born' /\ made \in Nat /\ made <= made /\ made \in 0..MaxFiles
      /\ AllSeen(execs) /\ sent \in 0..MaxCalls
      /\ \A k \in DOMAIN execs, j \in DOMAIN profs : execs[k].uid # profs[j].uid
  BY BornGrows, ClientAssumption DEF FilesTyped, FilesGood, FileCallsGood
<1>4. c.id \in Evaluation /\ c.id \in born /\ c.id \in born' /\ c.uid \in Nat
  BY <1>2, <1>3 DEF FilesTyped, FileCallsGood, GoodFileCall, FileCall, EvaluationsGood
<1>5. GoodFiles(execs, made, born') /\ GoodFiles(profs, made, born')
  BY <1>3, FilesGrow DEF FilesTyped, FilesGood
<1> DEFINE records(q, fs, s) ==
              /\ GoodFiles(q, made, born') /\ DOMAIN q = DOMAIN fs
              /\ \A k \in DOMAIN fs :
                    /\ q[k].uid = fs[k].uid
                    /\ fs[k].uid # c.uid => q[k] = fs[k]
                    /\ fs[k].uid = c.uid => q[k].from = c.id /\ q[k].db = c.id /\ q[k].seen = s
<1>6. records(execs', execs, TRUE) /\ records(profs', profs, seen)
  <2>1. ASSUME NEW fs, GoodFiles(fs, made, born'), NEW s \in BOOLEAN
        PROVE  records(F!Recorded(fs, c.uid, c.id, s), fs, s)
    BY <1>4, <2>1, RecordedIs
  <2> HIDE DEF records
  <2> QED
    BY <1>1, <1>5, <2>1
<1>7. GoodFiles(profs', made, born') /\ F!Uids(profs') = F!Uids(profs)
  BY <1>6, SameUids
<1>8. AllSeen(execs')
  BY <1>3, <1>6 DEF AllSeen
<1>9. FilesGood'
  BY <1>2, <1>3, <1>6, <1>7, <1>8 DEF FilesGood
<1>10. Chosen'
  BY <1>2, <1>6, <1>7, SameUids DEF FilesTyped, Chosen
<1>11. TakesFile
  <2>1. Going(c)
    BY <1>2 DEF Going
  <2>2. ~Going(F!New(sent + 1, "reread", c.id, 0, 0, FALSE))
    BY DEF Going, F!New
  <2>3. \A d \in calls' : Going(d) => d \in calls /\ d # c
    BY <1>2, <2>2
  <2>4. \A k \in DOMAIN execs' :
           Kept(execs'[k]) \/ (execs'[k].uid = c.uid /\ execs'[k].db = c.id)
    BY <1>6 DEF Kept
  <2> QED
    BY <1>4, <2>1, <2>3, <2>4 DEF TakesFile
<1> QED
  BY <1>9, <1>10, <1>11

LEMMA SelectIs ==
    ASSUME FilesTyped, F!Next,
           F!SelectAll \/ \E i \in DOMAIN F!All : F!SelectFile(F!All[i])
    PROVE  Chosen' /\ UNCHANGED F!files
<1>1. selE \subseteq F!Uids(execs) /\ selP \subseteq F!Uids(profs)
  BY DEF FilesTyped, Chosen
<1>2. CASE F!SelectAll
  BY <1>1, <1>2 DEF F!SelectAll, F!files, Chosen, F!ToggleAll
<1>3. ASSUME NEW i \in DOMAIN F!All, F!SelectFile(F!All[i])
      PROVE  Chosen' /\ UNCHANGED F!files
  <2> DEFINE u == F!All[i].uid
  <2>1. u \in F!Uids(execs) \/ u \in F!Uids(profs)
    <3>1. (\E k \in DOMAIN execs : F!All[i] = execs[k]) \/ \E k \in DOMAIN profs : F!All[i] = profs[k]
      <4>1. GoodFiles(execs, made, born) /\ GoodFiles(profs, made, born)
        BY DEF FilesTyped, FilesGood
      <4> DEFINE s == execs \o profs
      <4>2. /\ s \in Seq(F!FileRecord)
            /\ \A j \in DOMAIN s : (\E l \in DOMAIN execs : s[j] = execs[l])
                                  \/ \E l \in DOMAIN profs : s[j] = profs[l]
            /\ \A l \in DOMAIN execs : \E j \in DOMAIN s : s[j] = execs[l]
            /\ \A l \in DOMAIN profs : \E j \in DOMAIN s : s[j] = profs[l]
            /\ (\A l \in DOMAIN execs, j \in DOMAIN profs : execs[l].uid # profs[j].uid) =>
                  OwnUids(s)
        BY <4>1, JoinedIs, Zenon
      <4> HIDE DEF s
      <4>3. F!All = s
        BY DEF F!All, s
      <4> QED
        BY <4>2, <4>3
    <3> QED
      BY <3>1 DEF F!Uids
  <2>2. /\ UNCHANGED F!files
        /\ IF u \in F!Uids(execs)
           THEN selE' \in {F!Toggle(selE, u), {u}} /\ selP' = selP
           ELSE selP' \in {F!Toggle(selP, u), {u}} /\ selE' = selE
    BY <1>3 DEF F!SelectFile
  <2> HIDE DEF u
  <2> QED
    BY <1>1, <2>1, <2>2 DEF F!Toggle, Chosen, F!files
<1> QED
  BY <1>2, <1>3

LEMMA FilesStep ==
    ASSUME FilesTyped, F!Next PROVE FilesGood' /\ Chosen' /\ (KeepsFiles \/ TakesFile)
<1>1. CASE \/ F!ClickResults \/ F!GoAway \/ F!OpenList \/ F!LoadFromList \/ F!OpenDelete
           \/ F!CancelDelete \/ F!ConfirmDelete \/ F!Edit
  <2>1. UNCHANGED <<F!files, F!chosen>>
    BY <1>1 DEF F!ClickResults, F!GoAway, F!OpenList, F!LoadFromList, F!OpenDelete, F!CancelDelete,
       F!ConfirmDelete, F!Edit
  <2> QED
    BY <2>1, FilesUnchanged DEF FilesTyped, Chosen, F!files, F!chosen
<1>2. CASE F!AddLocal
  <2>1. PICK kind \in {"exec", "profile"} : F!LoadText(kind, None)
    BY <1>2 DEF F!AddLocal
  <2>2. /\ FilesGood' /\ Chosen'
        /\ \A i \in DOMAIN execs' :
              Kept(execs'[i]) \/ (execs'[i].uid = made + 1 /\ execs'[i].db = None)
    BY <2>1, LoadTextIs
  <2> QED
    BY <2>2 DEF KeepsFiles, Kept
<1>3. CASE F!Reload
  <2>1. /\ execs' = <<>> /\ profs' = <<>> /\ selE' = {} /\ selP' = {} /\ made' = made
        /\ DOMAIN <<>> = {}
    BY <1>3 DEF F!Reload
  <2> QED
    BY <2>1, NoFiles DEF FilesTyped, FilesGood, Chosen, KeepsFiles, AllSeen
<1>4. CASE F!SelectAll \/ \E i \in DOMAIN F!All : F!SelectFile(F!All[i])
  BY <1>4, SelectIs, FilesUnchanged
<1>5. ASSUME NEW i \in DOMAIN F!All, F!RemoveFile(F!All[i])
      PROVE  FilesGood' /\ Chosen' /\ KeepsFiles
  BY <1>5, RemoveFileIs
<1>6. ASSUME NEW i \in DOMAIN F!All, F!SaveFile(F!All[i])
      PROVE  FilesGood' /\ Chosen' /\ KeepsFiles
  <2>1. UNCHANGED <<F!files, F!chosen>>
    BY <1>6 DEF F!SaveFile
  <2> QED
    BY <2>1, FilesUnchanged DEF FilesTyped, Chosen, F!files, F!chosen
<1>7. ASSUME NEW c \in calls, F!Handle(c)
      PROVE  FilesGood' /\ Chosen' /\ (KeepsFiles \/ TakesFile)
  <2>1. CASE \/ F!ServeList(c) \/ F!ServeOne(c) \/ F!ServeSave(c) \/ F!AnswerList(c)
             \/ F!AnswerOne(c) \/ F!AnswerDelete(c) \/ F!AnswerFailure(c)
    <3>1. UNCHANGED <<F!files, F!chosen>>
      <4>1. F!ServeList(c) => UNCHANGED <<listed, F!server, list, dialog, F!files, F!chosen, saving,
                                          F!route, sent, twice, failed, calm>>
        BY Zenon DEF F!ServeList
      <4>2. F!ServeSave(c) => UNCHANGED <<list, listed, dialog, F!files, F!chosen, saving, F!route,
                                          sent, twice, failed>>
        BY Zenon DEF F!ServeSave
      <4>3. CASE \/ F!ServeOne(c) \/ F!AnswerList(c) \/ F!AnswerOne(c) \/ F!AnswerDelete(c)
                 \/ F!AnswerFailure(c)
        BY <4>3 DEF F!ServeOne, F!AnswerList, F!AnswerOne, F!AnswerDelete, F!AnswerFailure
      <4> QED
        BY <2>1, <4>1, <4>2, <4>3
    <3> QED
      BY <3>1, FilesUnchanged DEF FilesTyped, Chosen, F!files, F!chosen
  <2>2. CASE F!AnswerLoad(c)
    <3>1. c.kind = "load" /\ calls' = calls \ {c}
      BY <2>2 DEF F!AnswerLoad
    <3>2. CASE c.state = "served"
      <4>1. F!LoadText(F!KindOf(c.id), c.id)
        BY <2>2, <3>2 DEF F!AnswerLoad
      <4>2. c.id \in born /\ c.id \in Evaluation \cup {None}
        BY <3>1 DEF FilesTyped, FileCallsGood, GoodFileCall, EvaluationsGood
      <4>3. /\ FilesGood' /\ Chosen'
            /\ \A i \in DOMAIN execs' :
                  Kept(execs'[i]) \/ (execs'[i].uid = made + 1 /\ execs'[i].db = c.id)
        BY <4>1, <4>2, LoadTextIs
      <4>4. made + 1 \in Nat
        BY DEF FilesTyped, FilesGood
      <4> QED
        BY <3>1, <4>3, <4>4 DEF TakesFile, Going
    <3>3. CASE c.state # "served"
      <4>1. UNCHANGED <<F!files, F!chosen, list>>
        BY <2>2, <3>3, Zenon DEF F!AnswerLoad
      <4>2. UNCHANGED <<F!files, F!chosen>>
        BY <4>1
      <4> QED
        BY <4>2, FilesUnchanged DEF FilesTyped, Chosen, F!files, F!chosen
    <3> QED
      BY <3>2, <3>3
  <2>3. CASE F!AnswerSave(c)
    BY <2>3, AnswerSaveIs
  <2> QED
    BY <1>7, <2>1, <2>2, <2>3 DEF F!Handle
<1> QED
  BY <1>1, <1>2, <1>3, <1>4, <1>5, <1>6, <1>7 DEF F!Next

-----------------------------------------------------------------------------
(* What a step does to the list of evaluations.                            *)

LEMMA IdsAre == \A s, e : e \in Ids(s) <=> \E i \in DOMAIN s : s[i].id = e
  BY DEF Ids

(* The row of an evaluation is replaced, or added at the end.              *)
LEMMA SaveRow ==
    ASSUME list \in Seq(F!ListRow), Once(list), NEW e \in Evaluation, NEW n \in 1..MaxCalls,
           F!SaveEvaluation(e, n)
    PROVE  list' \in Seq(F!ListRow) /\ Once(list') /\ Ids(list') = Ids(list) \cup {e}
<1> DEFINE r == [id |-> e, by |-> n]
           f == IndexOfId(list, e)
<1>1. list' = IF f = 0 THEN Append(list, r) ELSE [list EXCEPT ![f] = r]
  BY FileLists DEF F!SaveEvaluation
<1>2. r \in F!ListRow /\ r.id = e
  BY DEF F!ListRow
<1>3. /\ f = 0 => \A i \in DOMAIN list : list[i].id # e
      /\ f # 0 => f \in DOMAIN list /\ list[f].id = e
  BY IndexOfIdIs
<1> HIDE DEF r, f
<1>4. CASE f = 0
  <2>1. /\ list' \in Seq(F!ListRow)
        /\ \A k \in DOMAIN list' : list'[k] = r \/ \E l \in DOMAIN list : l = k /\ list'[k] = list[l]
        /\ \A l \in DOMAIN list : l \in DOMAIN list' /\ list'[l] = list[l]
        /\ \E k \in DOMAIN list' : list'[k] = r
        /\ Once(list) /\ (\A l \in DOMAIN list : list[l].id # r.id) => Once(list')
    BY <1>1, <1>2, <1>4, AppendRows
  <2>2. Once(list')
    BY <1>2, <1>3, <1>4, <2>1
  <2>3. \A x : x \in Ids(list') <=> x \in Ids(list) \cup {e}
    BY <1>2, <2>1, IdsAre
  <2> QED
    BY <2>1, <2>2, <2>3
<1>5. CASE f # 0
  <2>1. /\ list' \in Seq(F!ListRow) /\ DOMAIN list' = DOMAIN list
        /\ \A k \in DOMAIN list : list'[k] = IF k = f THEN r ELSE list[k]
    <3>1. list' = [list EXCEPT ![f] = r]
      BY <1>1, <1>5
    <3>2. list' \in Seq(F!ListRow)
      BY <1>2, <1>3, <1>5, <3>1, ExceptSeq, LenProperties
    <3> QED
      BY <3>1, <3>2
  <2>2. \A k \in DOMAIN list : list'[k].id = list[k].id
    BY <1>2, <1>3, <1>5, <2>1
  <2>3. Once(list')
    BY <2>1, <2>2 DEF Once
  <2>4. \A x : x \in Ids(list') <=> x \in Ids(list)
    BY <2>1, <2>2, IdsAre
  <2>5. e \in Ids(list)
    BY <1>3, <1>5, IdsAre
  <2> QED
    BY <2>1, <2>3, <2>4, <2>5
<1> QED
  BY <1>4, <1>5

(* The rows the answer to a list brings.                                   *)
LEMMA AnswerListIs ==
    ASSUME FilesTyped, NEW c \in calls, F!AnswerList(c)
    PROVE  /\ list' \in Seq(F!ListRow) /\ Once(list') /\ Ids(list') = c.got /\ c.got \subseteq born
           /\ listed' = TRUE /\ calls' = calls \ {c} /\ c.state = "served" /\ c.kind = "list"
           /\ UNCHANGED <<saved, born, dialog, sent, calm>>
<1> DEFINE ids == SetToSeq(c.got)
<1>1. c.n \in 1..MaxCalls /\ c.got \in SUBSET Evaluation /\ c.got \subseteq born
  <2>1. GoodFileCall(c, sent, born)
    BY DEF FilesTyped, FileCallsGood
  <2> QED
    BY <2>1 DEF GoodFileCall, FileCall
<1>2. /\ list' = [i \in DOMAIN ids |-> [id |-> ids[i], by |-> c.n]]
      /\ listed' = TRUE /\ calls' = calls \ {c} /\ c.state = "served" /\ c.kind = "list"
      /\ UNCHANGED <<saved, born, dialog, sent, calm>>
  BY FileLists DEF F!AnswerList, F!server
<1>3. /\ ids \in Seq(Evaluation)
      /\ \A i \in DOMAIN ids : ids[i] \in c.got
      /\ \A i, j \in DOMAIN ids : ids[i] = ids[j] => i = j
      /\ \A x \in c.got : \E i \in DOMAIN ids : ids[i] = x
  BY <1>1, ListedIs
<1> HIDE DEF ids
<1>4. DOMAIN ids = 1..Len(ids) /\ Len(ids) \in Nat /\ \A i \in DOMAIN ids : ids[i] \in Evaluation
  BY <1>3, LenProperties, ElementOfSeq
<1>5. \A i \in DOMAIN ids : [id |-> ids[i], by |-> c.n] \in F!ListRow
  BY <1>1, <1>4 DEF F!ListRow
<1>6. list' \in Seq(F!ListRow)
  BY <1>2, <1>4, <1>5, IsASeq
<1>7. DOMAIN list' = DOMAIN ids /\ \A i \in DOMAIN ids : list'[i].id = ids[i]
  BY <1>2
<1>8. Once(list')
  BY <1>3, <1>7 DEF Once
<1>9. \A x : x \in Ids(list') <=> x \in c.got
  BY <1>3, <1>7, IdsAre
<1> QED
  BY <1>1, <1>2, <1>6, <1>8, <1>9

LEMMA ConfirmDeleteIs ==
    ASSUME FilesTyped, F!ConfirmDelete
    PROVE  /\ list' \in Seq(F!ListRow) /\ Once(list') /\ Ids(list') \subseteq Ids(list)
           /\ calm' => calm /\ ~F!Meets("delete", calls) /\ Ids(list') = Ids(list) \ {dialog.id}
           /\ dialog # None /\ dialog' = None /\ sent' = sent + 1
           /\ calls' = calls \cup {F!New(sent + 1, "delete", dialog.id, 0, 0, FALSE)}
           /\ UNCHANGED <<saved, born, listed>>
<1>1. /\ list' = SpliceFound(list, dialog)
      /\ calm' = (calm /\ ~F!Meets("delete", calls) /\ IndexOf(list, dialog) # 0)
      /\ dialog # None /\ dialog' = None /\ sent' = sent + 1
      /\ calls' = calls \cup {F!New(sent + 1, "delete", dialog.id, 0, 0, FALSE)}
      /\ UNCHANGED <<saved, born, listed>>
  BY FileLists DEF F!ConfirmDelete, F!server
<1>2. list \in Seq(F!ListRow) /\ Once(list)
  BY DEF FilesTyped, RowsGood
<1>3. /\ list' \in Seq(F!ListRow) /\ Once(list')
      /\ \A k \in DOMAIN list' : \E l \in DOMAIN list : list'[k] = list[l]
  BY <1>1, <1>2, SpliceIs
<1>4. Ids(list') \subseteq Ids(list)
  BY <1>3, IdsAre
<1>5. ASSUME calm' PROVE Ids(list') = Ids(list) \ {dialog.id}
  <2>1. PICK j \in DOMAIN list : SameObject(dialog, list[j])
    BY <1>1, <1>2, <1>5, IndexOfIs
  <2>2. /\ \A k \in DOMAIN list' : list'[k].id # dialog.id
        /\ \A l \in DOMAIN list : list[l].id # dialog.id => \E k \in DOMAIN list' : list'[k] = list[l]
    BY <1>1, <1>2, <2>1, SpliceTakes
  <2>3. \A x : x \in Ids(list') <=> x \in Ids(list) \ {dialog.id}
    BY <1>3, <2>2, IdsAre
  <2> QED
    BY <2>3
<1> QED
  BY <1>1, <1>3, <1>4, <1>5

(* Serving a call and the answer to a save leave the list and the page     *)
(* alone.                                                                  *)
LEMMA ServesElsewhere ==
    ASSUME NEW c, F!ServeList(c) \/ F!ServeOne(c) \/ F!ServeSave(c)
    PROVE  UNCHANGED <<list, listed, dialog, execs, profs, made, selE, selP, saving, shown, url,
                       been, failed>>
<1>1. CASE F!ServeList(c)
  <2>1. UNCHANGED <<listed, F!server, list, dialog, F!files, F!chosen, saving, F!route, sent,
                    twice, failed, calm>>
    BY <1>1, Zenon DEF F!ServeList
  <2> QED
    BY <2>1 DEF F!files, F!chosen, F!route
<1>2. CASE F!ServeOne(c)
  BY <1>2 DEF F!ServeOne, F!files, F!chosen, F!route
<1>3. CASE F!ServeSave(c)
  <2>1. UNCHANGED <<list, listed, dialog, F!files, F!chosen, saving, F!route, sent, twice, failed>>
    BY <1>3, Zenon DEF F!ServeSave
  <2> QED
    BY <2>1 DEF F!files, F!chosen, F!route
<1> QED
  BY <1>1, <1>2, <1>3

LEMMA RowsStep == ASSUME FilesTyped, F!Next PROVE RowsGood'
<1>1. /\ list \in Seq(F!ListRow) /\ Once(list) /\ \A i \in DOMAIN list : list[i].id \in born
      /\ dialog \in F!ListRow \cup {None} /\ (dialog # None => dialog.id \in born)
      /\ born \subseteq born' /\ born \subseteq Evaluation
  BY BornGrows DEF FilesTyped, RowsGood, EvaluationsGood
<1>2. Ids(list) \subseteq born
  BY <1>1, IdsAre
<1>3. ASSUME list' \in Seq(F!ListRow), Once(list'), Ids(list') \subseteq born,
             dialog' = dialog \/ dialog' = None
      PROVE  RowsGood'
  <2>1. \A i \in DOMAIN list' : list'[i].id \in born'
    BY <1>1, <1>3, IdsAre
  <2> QED
    BY <1>1, <1>3, <2>1 DEF RowsGood
<1>4. CASE UNCHANGED <<list, dialog>>
  BY <1>1, <1>2, <1>3, <1>4
<1>5. CASE \/ F!AddLocal \/ F!SelectAll \/ F!ClickResults \/ F!OpenList \/ F!LoadFromList \/ F!Edit
           \/ \E i \in DOMAIN F!All :
                 F!RemoveFile(F!All[i]) \/ F!SelectFile(F!All[i]) \/ F!SaveFile(F!All[i])
  <2>1. UNCHANGED <<list, dialog>>
    BY <1>5 DEF F!AddLocal, F!SelectAll, F!ClickResults, F!OpenList, F!LoadFromList, F!Edit,
       F!RemoveFile, F!SelectFile, F!SaveFile
  <2> QED
    BY <1>4, <2>1
<1>6. CASE F!GoAway \/ F!CancelDelete
  <2>1. list' = list /\ dialog' = None
    BY <1>6 DEF F!GoAway, F!CancelDelete
  <2> QED
    BY <1>1, <1>2, <1>3, <2>1
<1>7. CASE F!Reload
  <2>1. list' = <<>> /\ dialog' = None /\ <<>> \in Seq(F!ListRow) /\ DOMAIN <<>> = {}
    BY <1>7 DEF F!Reload
  <2> QED
    BY <1>3, <2>1 DEF Once, Ids
<1>8. CASE F!OpenDelete
  <2>1. PICK i \in DOMAIN list : dialog' = list[i]
    BY <1>8 DEF F!OpenDelete
  <2>2. list' = list
    BY <1>8 DEF F!OpenDelete
  <2>3. dialog' \in F!ListRow /\ dialog'.id \in born'
    BY <1>1, <2>1, ElementOfSeq, LenProperties
  <2> QED
    BY <1>1, <2>2, <2>3 DEF RowsGood
<1>9. CASE F!ConfirmDelete
  BY <1>2, <1>3, <1>9, ConfirmDeleteIs
<1>10. ASSUME NEW c \in calls, F!Handle(c) PROVE RowsGood'
  <2>1. c.n \in 1..MaxCalls /\ (c.kind \notin {"list", "save"} => c.id \in born /\ c.id \in Evaluation)
    BY <1>1 DEF FilesTyped, FileCallsGood, GoodFileCall, FileCall
  <2>2. ASSUME c.kind \notin {"list", "save"}, F!SaveEvaluation(c.id, c.n), dialog' = dialog
        PROVE  RowsGood'
    <3>1. list' \in Seq(F!ListRow) /\ Once(list') /\ Ids(list') = Ids(list) \cup {c.id}
      BY <1>1, <2>1, <2>2, SaveRow
    <3> QED
      BY <1>2, <1>3, <2>1, <2>2, <3>1
  <2>3. CASE F!ServeList(c) \/ F!ServeOne(c) \/ F!ServeSave(c)
    BY <1>4, <2>3, ServesElsewhere
  <2>4. CASE F!AnswerList(c)
    BY <1>3, <2>4, AnswerListIs
  <2>5. CASE F!AnswerLoad(c)
    <3>1. c.kind = "load" /\ dialog' = dialog
      BY <2>5 DEF F!AnswerLoad
    <3>2. CASE c.state = "served"
      BY <2>2, <2>5, <3>1, <3>2 DEF F!AnswerLoad
    <3>3. CASE c.state # "served"
      <4>1. UNCHANGED <<F!files, F!chosen, list>>
        BY <2>5, <3>3, Zenon DEF F!AnswerLoad
      <4> QED
        BY <1>4, <3>1, <4>1
    <3> QED
      BY <3>2, <3>3
  <2>6. CASE F!AnswerOne(c)
    BY <2>2, <2>6 DEF F!AnswerOne
  <2>7. CASE F!AnswerDelete(c) \/ F!AnswerSave(c) \/ F!AnswerFailure(c)
    BY <1>4, <2>7 DEF F!AnswerDelete, F!AnswerSave, F!AnswerFailure
  <2> QED
    BY <1>10, <2>3, <2>4, <2>5, <2>6, <2>7 DEF F!Handle
<1> QED
  BY <1>5, <1>6, <1>7, <1>8, <1>9, <1>10 DEF F!Next

-----------------------------------------------------------------------------
(* What a step does to the URL.                                            *)

(* The ids of the loaded files, after the step.                            *)
LEMMA LoadedUrl ==
    ASSUME FilesTyped, F!Next
    PROVE  /\ GoodUrl(F!LoadedIds', born')
           /\ \A e : (\E i \in DOMAIN F!LoadedIds' : F!LoadedIds'[i] = e) => HasFile(e)'
<1>1. GoodFiles(execs', made', born') /\ GoodFiles(profs', made', born')
  BY FilesStep DEF FilesGood
<1>2. None \notin born'
  BY BornGrows, ClientAssumption DEF EvaluationsGood
<1> DEFINE ids == IdsOf(execs', profs')
<1>3. /\ ids \in Seq(Evaluation)
      /\ \A k \in DOMAIN ids :
            /\ ids[k] \in born'
            /\ \/ \E i \in DOMAIN execs' : execs'[i].from = ids[k]
               \/ \E i \in DOMAIN profs' : profs'[i].from = ids[k]
      /\ \A i \in DOMAIN execs' :
            execs'[i].db # None /\ execs'[i].seen => \E k \in DOMAIN ids : ids[k] = execs'[i].db
  BY <1>1, <1>2, IdsOfIs
<1>4. F!LoadedIds' = ids
  BY LoadedIdsAre
<1> HIDE DEF ids
<1>5. GoodUrl(ids, born')
  BY <1>3 DEF GoodUrl
<1>6. \A k \in DOMAIN ids : \A e : ids[k] = e => HasFile(e)'
  BY <1>3 DEF HasFile
<1> QED
  BY <1>4, <1>5, <1>6

LEMMA LoadedExecs ==
    ASSUME FilesTyped, F!Next
    PROVE  \A i \in DOMAIN execs' :
              execs'[i].db # None => execs'[i].db \in ToSet(F!LoadedIds')
<1>1. GoodFiles(execs', made', born') /\ GoodFiles(profs', made', born') /\ AllSeen(execs')
  BY FilesStep DEF FilesGood
<1>2. None \notin born'
  BY BornGrows, ClientAssumption DEF EvaluationsGood
<1> DEFINE ids == IdsOf(execs', profs')
<1>3. /\ ids \in Seq(Evaluation)
      /\ \A k \in DOMAIN ids :
            /\ ids[k] \in born'
            /\ \/ \E i \in DOMAIN execs' : execs'[i].from = ids[k]
               \/ \E i \in DOMAIN profs' : profs'[i].from = ids[k]
      /\ \A i \in DOMAIN execs' :
            execs'[i].db # None /\ execs'[i].seen => \E k \in DOMAIN ids : ids[k] = execs'[i].db
  BY <1>1, <1>2, IdsOfIs
<1>4. F!LoadedIds' = ids
  BY LoadedIdsAre
<1> HIDE DEF ids
<1> QED
  BY <1>1, <1>3, <1>4 DEF AllSeen, ToSet

(* What UrlCovered says of one id.                                         *)
Covered(e) == e \in failed \/ HasFile(e) \/ \E c \in calls : c.kind = "load" /\ c.id = e

(* The URL gives way to the ids that are loaded,                           *)
GoesToLoaded == url' = F!LoadedIds' /\ shown' = TRUE /\ been' = been \cup {url'}

(* or lists ids that are all asked for,                                    *)
AsksForAll ==
    /\ GoodUrl(url', born) /\ shown' = TRUE /\ been' = been \cup {url'}
    /\ \A e : (\E i \in DOMAIN url' : url'[i] = e) => Covered(e)'

(* or the page is left,                                                    *)
LeavesPage == shown' = FALSE /\ url' = <<>> /\ been' = been

(* or the URL stays, with all that covers it.                              *)
Stays ==
    UNCHANGED <<shown, url, been>> /\ (url = <<>> \/ \A e : Covered(e) => Covered(e)')

LEMMA CoverKept ==
    ASSUME failed \subseteq failed', UNCHANGED <<execs, profs>>,
           \A c \in calls : c.kind = "load" => \E d \in calls' : d.kind = "load" /\ d.id = c.id
    PROVE  \A e : Covered(e) => Covered(e)'
<1> SUFFICES ASSUME NEW e, Covered(e) PROVE Covered(e)'
  OBVIOUS
<1>1. HasFile(e) => HasFile(e)'
  BY DEF HasFile
<1> QED
  BY <1>1 DEF Covered

LEMMA VisitIs ==
    ASSUME FilesTyped, F!Next, NEW ids \in Seq(Evaluation), GoodUrl(ids, born),
           NEW others \in SUBSET calls, F!Visit(ids, others)
    PROVE  GoesToLoaded \/ AsksForAll
<1>1. /\ F!LoadResults(ids, FALSE, others)
      /\ url' = IF F!LoadedIds' = <<>> THEN ids ELSE F!LoadedIds'
      /\ shown' = TRUE /\ been' = been \cup {url'}
  BY DEF F!Visit
<1>2. PICK new \in Seq(Evaluation) : Sends(new, ids, FALSE, others)
  BY <1>1, LoadsAre
<1>3. ASSUME F!LoadedIds' = <<>>, NEW i \in DOMAIN ids PROVE Covered(ids[i])'
  <2>1. ids[i] \notin ToSet(F!LoadedIds')
    BY <1>3 DEF ToSet
  <2>2. PICK k \in DOMAIN new : new[k] = ids[i]
    BY <1>2, <2>1 DEF Sends
  <2> DEFINE d == F!New(sent + k, "load", new[k], 0, sent + 1, FALSE)
  <2>3. d \in calls' /\ d.kind = "load" /\ d.id = ids[i]
    BY <1>2, <2>2 DEF Sends, F!New
  <2> HIDE DEF d
  <2> QED
    BY <2>3 DEF Covered
<1>4. CASE F!LoadedIds' = <<>>
  BY <1>1, <1>3, <1>4 DEF AsksForAll
<1>5. CASE F!LoadedIds' # <<>>
  BY <1>1, <1>5 DEF GoesToLoaded
<1> QED
  BY <1>4, <1>5

LEMMA UrlEffects ==
    ASSUME FilesTyped, F!Next PROVE GoesToLoaded \/ AsksForAll \/ LeavesPage \/ Stays
<1> USE DEF F!route, F!files, F!wire
<1>1. CASE F!AddLocal
  BY <1>1 DEF F!AddLocal, F!GoToLoaded, GoesToLoaded
<1>2. CASE \/ F!SelectAll \/ F!OpenDelete \/ F!CancelDelete
           \/ \E i \in DOMAIN F!All : F!SelectFile(F!All[i])
  <2>1. UNCHANGED <<shown, url, been, execs, profs, calls, failed>>
    BY <1>2 DEF F!SelectAll, F!OpenDelete, F!CancelDelete, F!SelectFile
  <2> QED
    BY <2>1, CoverKept DEF Stays
<1>3. CASE F!ClickResults
  <2>1. PICK ids \in been \cup {<<>>} : F!Visit(ids, calls)
    BY <1>3 DEF F!ClickResults
  <2>2. GoodUrl(ids, born)
    BY NoUrl DEF FilesTyped, RouteGood
  <2> QED
    BY <2>1, <2>2, VisitIs DEF GoodUrl
<1>4. CASE F!GoAway
  BY <1>4 DEF F!GoAway, LeavesPage
<1>5. CASE F!Reload
  <2>1. F!Visit(url, {}) /\ GoodUrl(url, born) /\ url \in Seq(Evaluation)
    BY <1>5 DEF F!Reload, FilesTyped, RouteGood, GoodUrl
  <2> QED
    BY <2>1, VisitIs
<1>6. CASE F!OpenList \/ F!Edit \/ \E i \in DOMAIN F!All : F!SaveFile(F!All[i])
  <2>1. UNCHANGED <<shown, url, been, execs, profs, failed>> /\ calls \subseteq calls'
    BY <1>6 DEF F!OpenList, F!Edit, F!SaveFile, F!Send
  <2> QED
    BY <2>1, CoverKept DEF Stays
<1>7. CASE F!ConfirmDelete
  <2>1. UNCHANGED <<shown, url, been, execs, profs, failed>> /\ calls \subseteq calls'
    BY <1>7 DEF F!ConfirmDelete
  <2> QED
    BY <2>1, CoverKept DEF Stays
<1>8. CASE F!LoadFromList
  <2>1. PICK S \in SUBSET F!Ids(list) :
           /\ F!LoadResults(F!SetToSeq(S), TRUE, calls)
           /\ IF calls' = calls THEN F!GoToLoaded ELSE UNCHANGED F!route
    BY <1>8 DEF F!LoadFromList
  <2>2. CASE F!GoToLoaded
    BY <2>2 DEF F!GoToLoaded, GoesToLoaded
  <2>3. CASE UNCHANGED F!route
    <3>1. UNCHANGED <<execs, profs, failed>>
      BY <1>8 DEF F!LoadFromList
    <3>2. calls \subseteq calls'
      BY <2>1 DEF F!LoadResults
    <3> QED
      BY <2>3, <3>1, <3>2, CoverKept DEF Stays
  <2> QED
    BY <2>1, <2>2, <2>3
<1>9. ASSUME NEW i \in DOMAIN F!All, F!RemoveFile(F!All[i]) PROVE GoesToLoaded \/ AsksForAll
  <2>1. F!Visit(<<>>, calls) /\ <<>> \in Seq(Evaluation)
    BY <1>9, EmptySeq DEF F!RemoveFile
  <2> QED
    BY <2>1, NoUrl, VisitIs
<1>10. ASSUME NEW c \in calls, F!Handle(c) PROVE GoesToLoaded \/ Stays
  <2>1. CASE F!ServeList(c) \/ F!ServeOne(c) \/ F!ServeSave(c)
    <3>1. UNCHANGED <<shown, url, been, execs, profs, failed>>
      BY <2>1, ServesElsewhere
    <3>2. PICK x, d :
             /\ x \in calls
             /\ calls' = (calls \ {x}) \cup {d} /\ d.kind = x.kind
             /\ d.id = x.id \/ x.kind = "save"
      BY <2>1, ServeEffect DEF Serves
    <3>3. ASSUME NEW y \in calls, y.kind = "load"
          PROVE  \E z \in calls' : z.kind = "load" /\ z.id = y.id
      BY <3>2, <3>3
    <3> QED
      BY <3>1, <3>3, CoverKept DEF Stays
  <2>2. CASE F!AnswerLoad(c)
    <3>1. c.kind = "load" /\ calls' = calls \ {c} /\ c.state \in {"served", "failed"}
      BY <2>2 DEF F!AnswerLoad
    <3>2. F!GoToLoaded \/ UNCHANGED F!route
      BY <2>2, Zenon DEF F!AnswerLoad
    <3>3. Covered(c.id)' /\ failed \subseteq failed' /\ \A e : HasFile(e) => HasFile(e)'
      <4>1. CASE c.state = "served"
        <5>1. F!LoadText(F!KindOf(c.id), c.id) /\ failed' = failed
          BY <2>2, <4>1 DEF F!AnswerLoad
        <5>2. c.id \in born /\ c.id \in Evaluation \cup {None}
          BY <3>1 DEF FilesTyped, FileCallsGood, GoodFileCall, EvaluationsGood
        <5>3. HasFile(c.id)' /\ \A e : HasFile(e) => HasFile(e)'
          BY <5>1, <5>2, LoadTextIs
        <5> QED
          BY <5>1, <5>3 DEF Covered
      <4>2. CASE c.state # "served"
        <5>1. UNCHANGED <<F!files, F!chosen, list>> /\ failed' = failed \cup {c.id}
          BY <2>2, <4>2, Zenon DEF F!AnswerLoad
        <5> QED
          BY <5>1 DEF Covered, HasFile
      <4> QED
        BY <4>1, <4>2
    <3>4. \A e : Covered(e) => Covered(e)'
      BY <3>1, <3>3 DEF Covered
    <3>5. CASE F!GoToLoaded
      BY <3>5 DEF F!GoToLoaded, GoesToLoaded
    <3>6. CASE UNCHANGED F!route
      BY <3>4, <3>6 DEF Stays
    <3> QED
      BY <3>2, <3>5, <3>6
  <2>3. CASE F!AnswerSave(c)
    <3>1. CASE shown
      BY <2>3, <3>1 DEF F!AnswerSave, F!GoToLoaded, GoesToLoaded
    <3>2. CASE ~shown
      BY <2>3, <3>2 DEF F!AnswerSave, FilesTyped, RouteGood, Stays
    <3> QED
      BY <3>1, <3>2
  <2>4. CASE F!AnswerList(c) \/ F!AnswerOne(c) \/ F!AnswerDelete(c) \/ F!AnswerFailure(c)
    <3>1. c.kind # "load" /\ UNCHANGED <<shown, url, been, execs, profs, failed>>
      BY <2>4 DEF F!AnswerList, F!AnswerOne, F!AnswerDelete, F!AnswerFailure
    <3>2. calls \ {c} \subseteq calls'
      BY <2>4 DEF F!AnswerList, F!AnswerOne, F!AnswerDelete, F!AnswerFailure, F!Send
    <3> QED
      BY <3>1, <3>2, CoverKept DEF Stays
  <2> QED
    BY <1>10, <2>1, <2>2, <2>3, <2>4 DEF F!Handle
<1> QED
  BY <1>1, <1>2, <1>3, <1>4, <1>5, <1>6, <1>7, <1>8, <1>9, <1>10 DEF F!Next

LEMMA RouteStep ==
    ASSUME FilesTyped, F!Next PROVE RouteGood'
<1>1. /\ shown \in BOOLEAN /\ (~shown => url = <<>>) /\ born \subseteq born'
      /\ GoodUrl(url, born') /\ \A u \in been : GoodUrl(u, born')
  BY BornGrows DEF FilesTyped, RouteGood, GoodUrl
<1>2. CASE GoesToLoaded
  <2>1. GoodUrl(url', born')
    BY <1>2, LoadedUrl DEF GoesToLoaded
  <2> QED
    BY <1>1, <1>2, <2>1 DEF GoesToLoaded, RouteGood
<1>3. CASE AsksForAll
  <2>1. GoodUrl(url', born')
    BY <1>1, <1>3 DEF AsksForAll, GoodUrl
  <2> QED
    BY <1>1, <1>3, <2>1 DEF AsksForAll, RouteGood
<1>4. CASE LeavesPage
  BY <1>1, <1>4, NoUrl DEF LeavesPage, RouteGood
<1>5. CASE Stays
  BY <1>1, <1>5 DEF Stays, RouteGood
<1> QED
  BY <1>2, <1>3, <1>4, <1>5, UrlEffects

-----------------------------------------------------------------------------
(* What is left: the rows being saved, the failed loads, and calm.         *)

LEMMA RestStep ==
    ASSUME FilesTyped, F!Next
    PROVE  saving' \subseteq 1..MaxFiles /\ failed' \subseteq Evaluation /\ calm' \in BOOLEAN
<1>1. saving \subseteq 1..MaxFiles /\ failed \subseteq Evaluation /\ calm \in BOOLEAN
  BY DEF FilesTyped, RestGood
<1>2. CASE \/ F!AddLocal \/ F!SelectAll \/ F!GoAway \/ F!OpenDelete \/ F!CancelDelete
           \/ \E i \in DOMAIN F!All : F!SelectFile(F!All[i])
  BY <1>1, <1>2 DEF F!AddLocal, F!SelectAll, F!GoAway, F!OpenDelete, F!CancelDelete, F!SelectFile
<1>3. CASE \/ F!ClickResults \/ F!Reload \/ F!LoadFromList
           \/ \E i \in DOMAIN F!All : F!RemoveFile(F!All[i])
  <2>1. saving' \subseteq saving /\ failed' = failed
    BY <1>3 DEF F!ClickResults, F!Reload, F!LoadFromList, F!RemoveFile
  <2>2. \E ids, nav, others : F!LoadResults(ids, nav, others)
    BY <1>3 DEF F!ClickResults, F!Reload, F!LoadFromList, F!RemoveFile, F!Visit
  <2>3. calm' \in BOOLEAN
    BY <1>1, <2>2 DEF F!LoadResults
  <2> QED
    BY <1>1, <2>1, <2>3
<1>4. CASE F!OpenList \/ F!Edit \/ F!ConfirmDelete
  BY <1>1, <1>4 DEF F!OpenList, F!Edit, F!ConfirmDelete, F!Send
<1>5. ASSUME NEW i \in DOMAIN F!All, F!SaveFile(F!All[i])
      PROVE  saving' \subseteq 1..MaxFiles /\ failed' \subseteq Evaluation /\ calm' \in BOOLEAN
  <2>1. saving' = saving \cup {F!All[i].uid} /\ failed' = failed /\ calm' \in BOOLEAN
    BY <1>1, <1>5 DEF F!SaveFile, F!Send
  <2>2. F!All[i].uid \in 1..MaxFiles
    <3>1. F!All \in Seq(F!FileRecord)
      BY JoinedIs DEF F!All, FilesTyped, FilesGood
    <3>2. F!All[i] \in F!FileRecord
      BY <3>1, ElementOfSeq, LenProperties
    <3> QED
      BY <3>2 DEF F!FileRecord
  <2> QED
    BY <1>1, <2>1, <2>2
<1>6. ASSUME NEW c \in calls, F!Handle(c)
      PROVE  saving' \subseteq 1..MaxFiles /\ failed' \subseteq Evaluation /\ calm' \in BOOLEAN
  <2>1. CASE F!ServeList(c) \/ F!ServeOne(c) \/ F!ServeSave(c)
    <3>1. UNCHANGED <<saving, failed>>
      BY <2>1, ServesElsewhere
    <3>2. F!ServeList(c) => calm' = calm
      <4>1. F!ServeList(c) => UNCHANGED <<listed, F!server, list, dialog, F!files, F!chosen, saving,
                                          F!route, sent, twice, failed, calm>>
        BY Zenon DEF F!ServeList
      <4> QED
        BY <4>1
    <3>3. F!ServeOne(c) => calm' = calm \/ calm' = FALSE
      BY DEF F!ServeOne, F!Refused
    <3>4. F!ServeSave(c) => calm' = calm \/ calm' = FALSE
      BY Zenon DEF F!ServeSave, F!Refused
    <3> QED
      BY <1>1, <2>1, <3>1, <3>2, <3>3, <3>4
  <2>2. CASE F!AnswerLoad(c)
    <3>1. c.kind = "load" /\ UNCHANGED <<saving, calm>>
      BY <2>2 DEF F!AnswerLoad
    <3>2. c.id \in Evaluation
      BY <3>1 DEF FilesTyped, FileCallsGood, GoodFileCall, EvaluationsGood
    <3>3. failed' = failed \/ failed' = failed \cup {c.id}
      BY <2>2, Zenon DEF F!AnswerLoad
    <3> QED
      BY <1>1, <3>1, <3>2, <3>3
  <2>3. CASE \/ F!AnswerList(c) \/ F!AnswerOne(c) \/ F!AnswerDelete(c) \/ F!AnswerSave(c)
             \/ F!AnswerFailure(c)
    BY <1>1, <2>3 DEF F!AnswerList, F!AnswerOne, F!AnswerDelete, F!AnswerSave, F!AnswerFailure, F!Send
  <2> QED
    BY <1>6, <2>1, <2>2, <2>3 DEF F!Handle
<1> QED
  BY <1>2, <1>3, <1>4, <1>5, <1>6 DEF F!Next

LEMMA FilesTypedStep == ASSUME FilesTyped, F!Next PROVE FilesTyped'
<1>1. FilesGood' /\ Chosen'
  BY FilesStep
<1>2. EvaluationsGood' /\ FileCallsGood' /\ twice' \subseteq Evaluation
  BY BornGrows, CallsStep
<1>3. RowsGood' /\ RouteGood'
  BY RowsStep, RouteStep
<1>4. RestGood'
  BY <1>2, RestStep DEF RestGood
<1> QED
  BY <1>1, <1>2, <1>3, <1>4 DEF FilesTyped

-----------------------------------------------------------------------------
(* What is loaded, and what is on its way.                                 *)

(* Two executions of one id, an execution and a call that will bring its   *)
(* id, two calls that will bring the same: each is the mark of an id that  *)
(* was asked for while it was under way.                                   *)
OnceInv ==
    /\ \A i, j \in DOMAIN execs :
          execs[i].db = execs[j].db /\ execs[i].uid # execs[j].uid => execs[i].db \in twice \cup {None}
    /\ \A i \in DOMAIN execs, c \in calls : Going(c) /\ c.id = execs[i].db => c.id \in twice
    /\ \A c, d \in calls : Going(c) /\ Going(d) /\ c.id = d.id /\ c # d => c.id \in twice

LEMMA OnceInit == F!Init => OnceInv
<1>1. DOMAIN <<>> = {}
  OBVIOUS
<1> QED
  BY <1>1 DEF F!Init, OnceInv

(* The calls of OnceInv after a step.                                      *)
LEMMA CallsOnce ==
    ASSUME FilesTyped, OnceInv, F!Next
    PROVE  /\ twice \subseteq twice'
           /\ \A c, d \in calls' : Going(c) /\ Going(d) /\ c.id = d.id /\ c # d => c.id \in twice'
           /\ \A i \in DOMAIN execs', c \in calls' :
                 Kept(execs'[i]) /\ Going(c) /\ c.id = execs'[i].db => c.id \in twice'
<1>1. /\ \A i \in DOMAIN execs, c \in calls : Going(c) /\ c.id = execs[i].db => c.id \in twice
      /\ \A c, d \in calls : Going(c) /\ Going(d) /\ c.id = d.id /\ c # d => c.id \in twice
  BY DEF OnceInv
<1>2. \A c \in calls : Going(c) => c.id \in born
  BY DEF FilesTyped, FileCallsGood, GoodFileCall, Going
<1>3. None \notin born /\ None \notin born' /\ \A i \in DOMAIN execs : execs[i].db # None => execs[i].db \in born
  BY BornGrows, ClientAssumption DEF FilesTyped, FilesGood, GoodFiles, EvaluationsGood
<1>4. \A i \in DOMAIN execs', c \in calls :
         Kept(execs'[i]) /\ Going(c) /\ c.id = execs'[i].db => c.id \in twice
  BY <1>1, <1>2, <1>3 DEF Kept
<1>5. CASE Fewer
  BY <1>1, <1>4, <1>5 DEF Fewer
<1>6. CASE Asks
  <2>1. PICK kind \in FileKinds \ {"load"}, e \in Evaluation \cup {None}, uid \in Nat,
             others \in SUBSET calls :
                /\ twice' = twice
                /\ calls' = others \cup {F!New(sent + 1, kind, e, uid, 0, FALSE)}
    BY <1>6 DEF Asks
  <2>2. ~Going(F!New(sent + 1, kind, e, uid, 0, FALSE))
    BY DEF Going, F!New
  <2>3. \A c \in calls' : Going(c) => c \in calls
    BY <2>1, <2>2
  <2> QED
    BY <1>1, <1>4, <2>1, <2>3
<1>7. CASE Loads
  <2>1. PICK ids \in Seq(Evaluation), nav \in BOOLEAN, others \in SUBSET calls :
           GoodUrl(ids, born) /\ F!LoadResults(ids, nav, others)
    BY <1>7 DEF Loads
  <2>2. PICK new \in Seq(Evaluation) : Sends(new, ids, nav, others)
    BY <2>1, LoadsAre
  <2> DEFINE call(k) == F!New(sent + k, "load", new[k], 0, sent + 1, nav)
  <2>3. \A k \in DOMAIN new : call(k).id = new[k]
    BY DEF F!New
  <2> HIDE DEF call
  <2>4. /\ \A k \in DOMAIN new : new[k] \in born /\ new[k] \notin ToSet(F!LoadedIds')
        /\ calls' = others \cup {call(k) : k \in DOMAIN new}
        /\ twice \subseteq twice'
        /\ \A k, l \in DOMAIN new : k # l /\ new[k] = new[l] => new[k] \in twice'
        /\ \A k \in DOMAIN new, c \in others : Going(c) /\ c.id = new[k] => new[k] \in twice'
    BY <2>2 DEF Sends, call
  <2>5. ASSUME NEW c \in calls', NEW d \in calls', Going(c), Going(d), c.id = d.id, c # d
        PROVE  c.id \in twice'
    <3>1. CASE c \in others /\ d \in others
      BY <1>1, <2>4, <2>5, <3>1
    <3>2. CASE c \in others /\ \E k \in DOMAIN new : d = call(k)
      BY <2>3, <2>4, <2>5, <3>2
    <3>3. CASE d \in others /\ \E k \in DOMAIN new : c = call(k)
      BY <2>3, <2>4, <2>5, <3>3
    <3>4. CASE (\E k \in DOMAIN new : c = call(k)) /\ \E k \in DOMAIN new : d = call(k)
      <4>1. PICK k \in DOMAIN new : c = call(k)
        BY <3>4
      <4>2. PICK l \in DOMAIN new : d = call(l)
        BY <3>4
      <4> QED
        BY <2>3, <2>4, <2>5, <4>1, <4>2
    <3> QED
      BY <2>4, <3>1, <3>2, <3>3, <3>4
  <2>6. ASSUME NEW i \in DOMAIN execs', NEW c \in calls', Kept(execs'[i]), Going(c),
               c.id = execs'[i].db
        PROVE  c.id \in twice'
    <3>1. CASE c \in others
      BY <1>4, <2>4, <2>6, <3>1
    <3>2. ASSUME NEW k \in DOMAIN new, c = call(k) PROVE FALSE
      <4>1. execs'[i].db = new[k] /\ new[k] # None
        BY <1>3, <2>3, <2>4, <2>6, <3>2
      <4>2. execs'[i].db \in ToSet(F!LoadedIds')
        BY <4>1, LoadedExecs
      <4> QED
        BY <2>4, <4>1, <4>2
    <3> QED
      BY <2>4, <3>1, <3>2
  <2> QED
    BY <2>4, <2>5, <2>6
<1>8. CASE Serves
  <2>1. PICK c, d :
           /\ c \in calls
           /\ calls' = (calls \ {c}) \cup {d} /\ twice' = twice
           /\ \/ d.id = c.id /\ (Going(d) => Going(c))
              \/ c.kind = "save" /\ d.id \in born' \ born
    BY <1>8 DEF Serves
  <2>2. ASSUME NEW x \in calls, x # c, Going(x), Going(d), x.id = d.id PROVE x.id \in twice'
    BY <1>1, <1>2, <2>1, <2>2
  <2>3. ASSUME NEW i \in DOMAIN execs', Kept(execs'[i]), Going(d), d.id = execs'[i].db
        PROVE  d.id \in twice'
    <3>1. CASE d.id = c.id /\ Going(c)
      BY <1>4, <2>1, <2>3, <3>1
    <3>2. CASE d.id \in born' \ born
      BY <1>3, <2>3, <3>2 DEF Kept
    <3> QED
      BY <2>1, <2>3, <3>1, <3>2
  <2> QED
    BY <1>1, <1>4, <2>1, <2>2, <2>3
<1> QED
  BY <1>5, <1>6, <1>7, <1>8, CallEffects

LEMMA OnceStep == ASSUME FilesTyped, OnceInv, F!Next PROVE OnceInv'
<1>1. /\ twice \subseteq twice'
      /\ \A c, d \in calls' : Going(c) /\ Going(d) /\ c.id = d.id /\ c # d => c.id \in twice'
      /\ \A i \in DOMAIN execs', c \in calls' :
            Kept(execs'[i]) /\ Going(c) /\ c.id = execs'[i].db => c.id \in twice'
  BY CallsOnce
<1>2. /\ \A i, j \in DOMAIN execs :
            execs[i].db = execs[j].db /\ execs[i].uid # execs[j].uid => execs[i].db \in twice \cup {None}
      /\ \A i \in DOMAIN execs, c \in calls : Going(c) /\ c.id = execs[i].db => c.id \in twice
      /\ \A c, d \in calls : Going(c) /\ Going(d) /\ c.id = d.id /\ c # d => c.id \in twice
  BY DEF OnceInv
<1>3. \A i, j \in DOMAIN execs' :
         /\ Kept(execs'[i]) /\ Kept(execs'[j])
         /\ execs'[i].db = execs'[j].db /\ execs'[i].uid # execs'[j].uid
         => execs'[i].db \in twice' \cup {None}
  BY <1>1, <1>2 DEF Kept
<1>4. CASE KeepsFiles
  BY <1>1, <1>3, <1>4 DEF KeepsFiles, OnceInv
<1>5. CASE TakesFile
  <2>1. PICK c \in calls, u \in Nat :
           /\ Going(c) /\ \A d \in calls' : Going(d) => d \in calls /\ d # c
           /\ \A i \in DOMAIN execs' :
                 Kept(execs'[i]) \/ (execs'[i].uid = u /\ execs'[i].db = c.id)
    BY <1>5 DEF TakesFile
  <2>2. ASSUME NEW i \in DOMAIN execs', NEW j \in DOMAIN execs',
               execs'[i].db = c.id, execs'[j].db = c.id, Kept(execs'[j])
        PROVE  execs'[i].db \in twice' \cup {None}
    BY <1>1, <1>2, <2>1, <2>2 DEF Kept
  <2>3. \A i, j \in DOMAIN execs' :
           execs'[i].db = execs'[j].db /\ execs'[i].uid # execs'[j].uid =>
              execs'[i].db \in twice' \cup {None}
    BY <1>3, <2>1, <2>2
  <2>4. \A i \in DOMAIN execs', d \in calls' : Going(d) /\ d.id = execs'[i].db => d.id \in twice'
    BY <1>1, <1>2, <2>1
  <2> QED
    BY <1>1, <2>3, <2>4 DEF OnceInv
<1> QED
  BY <1>4, <1>5, FilesStep

-----------------------------------------------------------------------------
(* What the page shows.                                                    *)

UrlInv == \A e : (\E i \in DOMAIN url : url[i] = e) => Covered(e)

LEMMA UrlStep == ASSUME FilesTyped, UrlInv, F!Next PROVE UrlInv'
<1>1. CASE GoesToLoaded
  <2>1. url' = F!LoadedIds'
    BY <1>1 DEF GoesToLoaded
  <2>2. \A e : (\E i \in DOMAIN url' : url'[i] = e) => HasFile(e)'
    BY <2>1, LoadedUrl
  <2> QED
    BY <2>2 DEF UrlInv, Covered
<1>2. CASE AsksForAll
  BY <1>2 DEF AsksForAll, UrlInv
<1>3. CASE LeavesPage
  <2>1. url' = <<>> /\ DOMAIN <<>> = {}
    BY <1>3 DEF LeavesPage
  <2> QED
    BY <2>1 DEF UrlInv
<1>4. CASE Stays
  <2>1. url' = url /\ DOMAIN <<>> = {}
    BY <1>4 DEF Stays
  <2> QED
    BY <1>4, <2>1 DEF Stays, UrlInv
<1> QED
  BY <1>1, <1>2, <1>3, <1>4, UrlEffects

(* The files of both kinds, with numbers of their own.                     *)
LEMMA AllFiles ==
    ASSUME FilesTyped
    PROVE  /\ F!All \in Seq(F!FileRecord) /\ OwnUids(F!All)
           /\ \A i \in DOMAIN execs : \E j \in DOMAIN F!All : F!All[j] = execs[i]
           /\ \A i \in DOMAIN profs : \E j \in DOMAIN F!All : F!All[j] = profs[i]
<1> DEFINE s == execs \o profs
<1>1. /\ GoodFiles(execs, made, born) /\ GoodFiles(profs, made, born)
      /\ \A l \in DOMAIN execs, j \in DOMAIN profs : execs[l].uid # profs[j].uid
  BY DEF FilesTyped, FilesGood
<1>2. /\ s \in Seq(F!FileRecord)
      /\ \A j \in DOMAIN s : (\E l \in DOMAIN execs : s[j] = execs[l])
                            \/ \E l \in DOMAIN profs : s[j] = profs[l]
      /\ \A l \in DOMAIN execs : \E j \in DOMAIN s : s[j] = execs[l]
      /\ \A l \in DOMAIN profs : \E j \in DOMAIN s : s[j] = profs[l]
      /\ (\A l \in DOMAIN execs, j \in DOMAIN profs : execs[l].uid # profs[j].uid) => OwnUids(s)
  BY <1>1, JoinedIs, Zenon
<1> HIDE DEF s
<1>3. F!All = s
  BY DEF F!All, s
<1> QED
  BY <1>1, <1>2, <1>3

LEMMA UrlIsCovered == FilesTyped /\ UrlInv => F!UrlCovered
<1> SUFFICES ASSUME FilesTyped, UrlInv, NEW i \in DOMAIN url
             PROVE  \/ url[i] \in failed
                    \/ \E j \in DOMAIN F!All : F!All[j].from = url[i]
                    \/ \E c \in calls : c.kind = "load" /\ c.id = url[i]
  BY DEF F!UrlCovered
<1>1. Covered(url[i])
  BY DEF UrlInv
<1>2. HasFile(url[i]) => \E j \in DOMAIN F!All : F!All[j].from = url[i]
  BY AllFiles DEF HasFile
<1> QED
  BY <1>1, <1>2 DEF Covered

LEMMA IsLoadedOnce == FilesTyped /\ OnceInv => F!LoadedOnce
  BY DEF FilesTyped, FilesGood, GoodFiles, OwnUids, OnceInv, F!LoadedOnce

(* The numbers of the files of a list are as many as the files.            *)
LEMMA UidsCount ==
    ASSUME NEW fs \in Seq(F!FileRecord), OwnUids(fs)
    PROVE  IsFiniteSet(F!Uids(fs)) /\ Cardinality(F!Uids(fs)) = Len(fs)
<1> DEFINE n == Len(fs)
           f == [i \in 1..n |-> fs[i].uid]
           U == F!Uids(fs)
<1>1. n \in Nat /\ DOMAIN fs = 1..n
  BY LenProperties
<1> HIDE DEF n
<1>2. f \in [1..n -> U] /\ (\A i, j \in 1..n : f[i] = f[j] => i = j) /\ \A x \in U : \E i \in 1..n : f[i] = x
  BY <1>1 DEF F!Uids, OwnUids
<1> HIDE DEF f, U
<1>3. f \in Bijection(1..n, U)
  BY <1>2 DEF Bijection, Injection, Surjection, IsInjective
<1>4. IsFiniteSet(1..n) /\ Cardinality(1..n) = n
  BY <1>1, FS_Interval
<1>5. ExistsBijection(1..n, U)
  BY <1>3 DEF ExistsBijection
<1>6. IsFiniteSet(U) /\ Cardinality(U) = n
  BY <1>4, <1>5, FS_Bijection
<1> QED
  BY <1>6 DEF n, U

(* As many as all are all.                                                 *)
LEMMA TrinaryOn ==
    ASSUME NEW fs \in Seq(F!FileRecord), OwnUids(fs), NEW sel, sel \subseteq F!Uids(fs),
           F!Trinary(sel, fs) = "On"
    PROVE  sel = F!Uids(fs)
<1>1. Cardinality(sel) = Len(fs)
  BY FileLists DEF F!Trinary
<1>2. IsFiniteSet(F!Uids(fs)) /\ Cardinality(F!Uids(fs)) = Len(fs)
  BY UidsCount
<1> QED
  BY <1>1, <1>2, FS_Subset

LEMMA SelectionIsHonest == FilesTyped => F!SelectionHonest
  BY TrinaryOn DEF FilesTyped, FilesGood, GoodFiles, Chosen, F!SelectionHonest

LEMMA FileTypes == FilesTyped => F!TypeOK
<1> SUFFICES ASSUME FilesTyped PROVE F!TypeOK
  OBVIOUS
<1>1. F!Cardinality(F!Uids(F!All)) = Len(F!All)
  BY AllFiles, UidsCount, FileLists
<1>2. /\ sent \in 0..MaxCalls
      /\ \A c \in calls : c.n \in 1..MaxCalls /\ c.n <= sent
  BY DEF FilesTyped, FileCallsGood, GoodFileCall, FileCall
<1>3. \A c \in calls : c.n \in 1..sent
  BY <1>2, ClientAssumption
<1>4. execs \in Seq(F!FileRecord) /\ profs \in Seq(F!FileRecord) /\ made \in 0..MaxFiles
  BY DEF FilesTyped, FilesGood, GoodFiles
<1>5. url \in Seq(Evaluation) /\ been \subseteq Seq(Evaluation) /\ shown \in BOOLEAN
  BY DEF FilesTyped, RouteGood, GoodUrl
<1> QED
  BY <1>1, <1>2, <1>3, <1>4, <1>5 DEF FilesTyped, EvaluationsGood, RowsGood, RestGood, F!TypeOK

FilesInv == FilesTyped /\ OnceInv /\ UrlInv

LEMMA FilesInvariant == PartsSpec => []FilesInv
<1>1. PartsInit => FilesInv
  <2> SUFFICES ASSUME F!Init PROVE FilesInv
    BY ClientInits
  <2>1. url = <<>> /\ DOMAIN <<>> = {}
    BY DEF F!Init
  <2> QED
    BY <2>1, FilesTypedInit, OnceInit DEF FilesInv, UrlInv
<1>2. ASSUME FilesInv, [PartsNext]_partsVars PROVE FilesInv'
  <2>1. CASE F!Next
    BY <1>2, <2>1, FilesTypedStep, OnceStep, UrlStep DEF FilesInv
  <2>2. CASE UNCHANGED F!vars
    <3>1. UNCHANGED <<saved, born, list, listed, dialog, execs, profs, selE, selP, saving, shown, url,
                      been, calls, sent, made, twice, failed, calm>>
      BY <2>2 DEF F!vars
    <3>2. FilesTyped'
      BY <1>2, <3>1 DEF FilesInv, FilesTyped, FilesGood, Chosen, F!Uids, EvaluationsGood, RowsGood,
         RouteGood, FileCallsGood, RestGood
    <3>3. OnceInv' /\ UrlInv'
      BY <1>2, <3>1 DEF FilesInv, OnceInv, UrlInv, Covered, HasFile
    <3> QED
      BY <3>2, <3>3 DEF FilesInv
  <2> QED
    BY <1>2, <2>1, <2>2, FilesPart
<1> QED
  BY <1>1, <1>2, PTL DEF PartsSpec

(* A selection names loaded files of its kind only, so that "all selected" *)
(* in the sidebar means that all are, whatever is loaded, removed, saved   *)
(* and selected meanwhile (data_filters.ts, data_store.ts).                *)
THEOREM SelectionStaysHonest == PartsSpec => []SelectionHonest
<1>1. FilesInv => SelectionHonest
  BY SelectionIsHonest DEF FilesInv, SelectionHonest
<1> QED
  BY <1>1, FilesInvariant, PTL

(* No execution of the database is loaded twice, but where it was asked    *)
(* for while it was under way, however loads, saves, removals and reloads  *)
(* of the page interleave (store/evaluations.ts).                          *)
THEOREM LoadedOnlyOnce == PartsSpec => []LoadedOnce
<1>1. FilesInv => LoadedOnce
  BY IsLoadedOnce DEF FilesInv, LoadedOnce
<1> QED
  BY <1>1, FilesInvariant, PTL

(* Each id the URL lists is loaded, under way, or its load failed, through *)
(* every visit, answer, reload and step back (router.ts).                  *)
THEOREM UrlStaysCovered == PartsSpec => []UrlCovered
<1>1. FilesInv => UrlCovered
  BY UrlIsCovered DEF FilesInv, UrlCovered
<1> QED
  BY <1>1, FilesInvariant, PTL

-----------------------------------------------------------------------------
(* The types of the whole.                                                 *)

ResultTypes ==
    /\ term \in Term \cup {AnyValue}
    /\ severity \in {"low", "medium", "high", "critical", AnyValue}
    /\ status \in Statuses \cup {"Waived", AnyValue}
    /\ moved \in BOOLEAN

LEMMA ResultTypesStep == ASSUME ResultTypes, [Next]_vars PROVE ResultTypes'
<1>1. ASSUME TableStays PROVE moved' \in BOOLEAN
  BY <1>1 DEF TableStays
<1>2. CASE SelectFiles \/ PickStatus \/ ShowErrors \/ ShowWaived \/ PickSeverity \/ Search \/ Clear
           \/ DiveInto \/ PickLeaf \/ Up
  <2>1. TableStays
    BY <1>2, Zenon DEF SelectFiles, PickStatus, ShowErrors, ShowWaived, PickSeverity, Search, Clear,
       DiveInto, PickLeaf, Up
  <2>2. CASE SelectFiles \/ DiveInto \/ PickLeaf \/ Up
    BY <1>1, <2>1, <2>2 DEF SelectFiles, DiveInto, PickLeaf, Up, ResultTypes
  <2>3. CASE PickStatus \/ ShowErrors \/ ShowWaived
    <3>1. PickStatus => \E s \in Statuses : status' = IF s = status THEN AnyValue ELSE s
      BY Zenon DEF PickStatus
    <3>2. (ShowErrors => status' = "Profile Error") /\ (ShowWaived => status' = "Waived")
      BY Zenon DEF ShowErrors, ShowWaived
    <3>3. status' \in Statuses \cup {"Waived", AnyValue}
      <4>1. CASE PickStatus
        BY <3>1, <4>1
      <4>2. CASE ShowErrors
        <5>1. "Profile Error" \in Statuses
          BY DEF Statuses
        <5> QED
          BY <3>2, <4>2, <5>1, Zenon
      <4>3. CASE ShowWaived
        BY <3>2, <4>3, Zenon
      <4> QED
        BY <2>3, <4>1, <4>2, <4>3
    <3>4. UNCHANGED <<selected, severity, term, control>>
      BY <2>3, Zenon DEF PickStatus, ShowErrors, ShowWaived
    <3> QED
      BY <1>1, <2>1, <3>3, <3>4 DEF ResultTypes
  <2>4. CASE PickSeverity
    BY <1>1, <2>1, <2>4 DEF PickSeverity, ResultTypes
  <2>5. CASE Search \/ Clear
    BY <1>1, <2>1, <2>5 DEF Search, Clear, ResultTypes
  <2> QED
    BY <1>2, <2>2, <2>3, <2>4, <2>5
<1>3. CASE SwitchExpandAll \/ SwitchSingle \/ (\E k \in Keys : Toggle(k)) \/ UNCHANGED vars
  BY <1>3 DEF SwitchExpandAll, SwitchSingle, Toggle, Expand, vars, filters, ResultTypes
<1> QED
  BY <1>2, <1>3 DEF Next

(* The stores and the results page hold what their types say: above all,   *)
(* no two loaded files share a number, no answer is that of a call never   *)
(* made, and no row, dialog or URL names an evaluation that never was      *)
(* (data_store.ts, store/evaluations.ts, store/groups.ts, Results.vue).    *)
THEOREM TypesStayOK == PartsSpec => []TypesOK
<1> DEFINE Inv == LeafUnderNode /\ AtMostOne /\ ResultTypes
<1>1. PartsInit => Inv
  BY ClientInits DEF Init, LeafUnderNode, Way, AtMostOne, ResultTypes, Statuses
<1>2. Inv /\ [PartsNext]_partsVars => Inv'
  BY ResultsPart, LeafStep, AtMostOneStep, ResultTypesStep
<1>3. FilesInv /\ (GroupsTyped /\ CalmInv) /\ Inv => TypesOK
  BY FileTypes, GroupTypes DEF FilesInv, LeafUnderNode, Way, AtMostOne, ResultTypes, TypeOK, TypesOK
<1> HIDE DEF Inv
<1> QED
  BY <1>1, <1>2, <1>3, FilesInvariant, GroupsInvariant, PTL DEF PartsSpec

-----------------------------------------------------------------------------
(* The list of evaluations, as long as nothing disturbed it.               *)

NoneFailed == \A c \in calls : c.state # "failed"

ChangesAlone == \A c \in calls : c.kind \in F!Changes => calls = {c}

FileAnswerRight(c) ==
    /\ c.kind \in {"load", "update", "reread", "save"} => c.id \in saved
    /\ c.kind = "list" => c.got = saved
    /\ c.kind = "delete" => c.id \notin saved

FileAnswersRight == \A c \in calls : c.state = "served" => FileAnswerRight(c)

(* A row that is being deleted is out of the list.                         *)
DeletesGone == \A c \in calls : c.kind = "delete" => c.id \notin Ids(list)

(* A call under way will add its row, or take the evaluation away.         *)
Brings(c, e) ==
    /\ c.id = e
    /\ \/ c.kind = "reread"
       \/ c.kind = "delete" /\ c.state = "sent"
       \/ c.kind = "save" /\ c.state = "served"

ListMatches ==
    listed => Ids(list) \subseteq saved
              /\ \A e \in saved \ Ids(list) : \E c \in calls : Brings(c, e)

FilesCalm ==
    calm => NoneFailed /\ ChangesAlone /\ FileAnswersRight /\ DeletesGone /\ ListMatches

LEMMA FilesCalmInit == F!Init => FilesCalm
  BY DEF F!Init, FilesCalm, NoneFailed, ChangesAlone, FileAnswersRight, DeletesGone, ListMatches

LEMMA NothingDisturbed ==
    ASSUME FilesCalm, UNCHANGED <<saved, list, listed, calls, calm>> PROVE FilesCalm'
  BY DEF FilesCalm, NoneFailed, ChangesAlone, FileAnswersRight, FileAnswerRight, DeletesGone,
         ListMatches, Brings

(* Calls are sent; a change is sent alone, and nothing beside a change.    *)
LEMMA MoreCalls ==
    ASSUME FilesCalm, UNCHANGED <<saved, list, listed>>, calm' => calm, NEW N,
           calls' = calls \cup N, \A d \in N : d.state = "sent" /\ d.kind # "delete",
           calm' => \/ N = {}
                    \/ /\ \A c \in calls : c.kind \notin F!Changes
                       /\ \A d \in N : d.kind \in F!Changes => calls = {} /\ N = {d}
    PROVE  FilesCalm'
<1> SUFFICES ASSUME calm' PROVE (NoneFailed /\ ChangesAlone /\ FileAnswersRight /\ DeletesGone
                                 /\ ListMatches)'
  BY DEF FilesCalm
<1>1. NoneFailed /\ ChangesAlone /\ FileAnswersRight /\ DeletesGone /\ ListMatches
  BY DEF FilesCalm
<1>2. NoneFailed' /\ FileAnswersRight' /\ DeletesGone'
  BY <1>1 DEF NoneFailed, FileAnswersRight, FileAnswerRight, DeletesGone
<1>3. ChangesAlone'
  <2>1. CASE N = {}
    BY <1>1, <2>1 DEF ChangesAlone
  <2>2. CASE /\ \A c \in calls : c.kind \notin F!Changes
             /\ \A d \in N : d.kind \in F!Changes => calls = {} /\ N = {d}
    BY <2>2 DEF ChangesAlone
  <2> QED
    BY <2>1, <2>2
<1>4. ListMatches'
  BY <1>1 DEF ListMatches, Brings
<1> QED
  BY <1>2, <1>3, <1>4

LEMMA SentCalm ==
    ASSUME FilesCalm, UNCHANGED <<saved, list, listed>>, NEW kind \in {"list", "update", "save"},
           NEW e, NEW uid, F!Send(kind, e, uid, calls)
    PROVE  FilesCalm'
<1> DEFINE d == F!New(sent + 1, kind, e, uid, 0, FALSE)
<1>1. calls' = calls \cup {d} /\ calm' = (calm /\ ~F!Meets(kind, calls))
  BY DEF F!Send
<1>2. d.state = "sent" /\ d.kind = kind /\ kind # "delete"
  BY DEF F!New
<1> HIDE DEF d
<1>3. calm' => calm /\ \A c \in calls : c.kind \notin F!Changes
  BY <1>1 DEF F!Meets
<1>4. calm' => (kind \in F!Changes => calls = {})
  BY <1>1 DEF F!Meets
<1> DEFINE N == {d}
<1>5. /\ calls' = calls \cup N /\ \A x \in N : x.state = "sent" /\ x.kind # "delete"
      /\ calm' => /\ \A c \in calls : c.kind \notin F!Changes
                  /\ \A x \in N : x.kind \in F!Changes => calls = {} /\ N = {x}
  BY <1>1, <1>2, <1>3, <1>4
<1> HIDE DEF N
<1> QED
  BY <1>3, <1>5, MoreCalls

LEMMA LoadsCalm ==
    ASSUME FilesTyped, FilesCalm, UNCHANGED <<saved, list, listed>>,
           NEW ids \in Seq(Evaluation), GoodUrl(ids, born), NEW nav \in BOOLEAN,
           F!LoadResults(ids, nav, calls)
    PROVE  FilesCalm'
<1>1. PICK new \in Seq(Evaluation) : Sends(new, ids, nav, calls)
  BY LoadsAre
<1> DEFINE N == {F!New(sent + k, "load", new[k], 0, sent + 1, nav) : k \in DOMAIN new}
<1>2. calls' = calls \cup N /\ calm' = (calm /\ ~(new # <<>> /\ F!Meets("load", calls)))
  BY <1>1 DEF Sends
<1>3. \A d \in N : d.state = "sent" /\ d.kind = "load"
  BY DEF F!New
<1>4. new = <<>> => N = {}
  OBVIOUS
<1> HIDE DEF N
<1>5. calm' => calm /\ (N = {} \/ \A c \in calls : c.kind \notin F!Changes)
  BY <1>2, <1>4 DEF F!Meets
<1>6. "load" \notin F!Changes
  BY DEF F!Changes
<1> QED
  BY <1>2, <1>3, <1>5, <1>6, MoreCalls

LEMMA ReloadCalm == ASSUME FilesTyped, F!Reload PROVE FilesCalm'
<1>1. F!LoadResults(url, FALSE, {}) /\ listed' = FALSE
  BY DEF F!Reload, F!Visit
<1>2. url \in Seq(Evaluation) /\ GoodUrl(url, born)
  BY DEF FilesTyped, RouteGood, GoodUrl
<1>3. PICK new \in Seq(Evaluation) : Sends(new, url, FALSE, {})
  BY <1>1, <1>2, LoadsAre
<1>4. calls' = {F!New(sent + k, "load", new[k], 0, sent + 1, FALSE) : k \in DOMAIN new}
  BY <1>3 DEF Sends
<1>5. \A d \in calls' : d.state = "sent" /\ d.kind = "load"
  BY <1>4 DEF F!New
<1> QED
  BY <1>1, <1>5 DEF FilesCalm, NoneFailed, ChangesAlone, FileAnswersRight, DeletesGone, ListMatches,
     F!Changes

LEMMA DeleteCalm == ASSUME FilesTyped, FilesCalm, F!ConfirmDelete PROVE FilesCalm'
<1> SUFFICES ASSUME calm' PROVE (NoneFailed /\ ChangesAlone /\ FileAnswersRight /\ DeletesGone
                                 /\ ListMatches)'
  BY DEF FilesCalm
<1> DEFINE d == F!New(sent + 1, "delete", dialog.id, 0, 0, FALSE)
<1>1. /\ calm /\ ~F!Meets("delete", calls) /\ Ids(list') = Ids(list) \ {dialog.id}
      /\ calls' = calls \cup {d} /\ UNCHANGED <<saved, listed>>
  BY ConfirmDeleteIs
<1>2. d.state = "sent" /\ d.kind = "delete" /\ d.id = dialog.id
  BY DEF F!New
<1> HIDE DEF d
<1>3. calls' = {d}
  BY <1>1 DEF F!Meets, F!Changes
<1>4. (NoneFailed /\ ChangesAlone /\ FileAnswersRight /\ DeletesGone)'
  BY <1>1, <1>2, <1>3 DEF NoneFailed, ChangesAlone, FileAnswersRight, DeletesGone
<1>5. ListMatches'
  <2>1. ListMatches /\ calls = {}
    BY <1>1 DEF FilesCalm, F!Meets, F!Changes
  <2> QED
    BY <1>1, <1>2, <1>3, <2>1 DEF ListMatches, Brings
<1> QED
  BY <1>4, <1>5

CalmFiles == NoneFailed /\ ChangesAlone /\ FileAnswersRight /\ DeletesGone /\ ListMatches

(* A call that is served or answered: what takes its place, d, is all that *)
(* has to be looked at.                                                    *)
LEMMA OthersCalm ==
    ASSUME CalmFiles, NEW c \in calls, NEW N, calls' = (calls \ {c}) \cup N,
           N = {} \/ \E d : N = {d} /\ (d.kind \in F!Changes => c.kind \in F!Changes),
           \A d \in N : d.state # "failed"
    PROVE  NoneFailed' /\ ChangesAlone'
<1>1. NoneFailed'
  BY DEF CalmFiles, NoneFailed
<1>2. ASSUME NEW x \in calls', x.kind \in F!Changes PROVE calls' = {x}
  <2>1. CASE x \in calls \ {c}
    BY <1>2, <2>1 DEF CalmFiles, ChangesAlone
  <2>2. CASE x \in N
    <3>1. N = {x} /\ c.kind \in F!Changes
      BY <1>2, <2>2
    <3>2. calls = {c}
      BY <3>1 DEF CalmFiles, ChangesAlone
    <3> QED
      BY <3>1, <3>2
  <2> QED
    BY <2>1, <2>2
<1> QED
  BY <1>1, <1>2 DEF ChangesAlone

LEMMA ServeListCalm ==
    ASSUME FilesTyped, FilesCalm, NEW c \in calls, F!ServeList(c) PROVE FilesCalm'
<1> DEFINE d == [c EXCEPT !.state = "served", !.got = saved]
<1>1. /\ calls' = (calls \ {c}) \cup {d} /\ c.kind = "list"
      /\ UNCHANGED <<saved, list, listed, calm>>
  <2>1. UNCHANGED <<listed, F!server, list, dialog, F!files, F!chosen, saving, F!route, sent,
                    twice, failed, calm>>
    BY Zenon DEF F!ServeList
  <2> HIDE DEF d
  <2>2. F!Put(c, d) /\ c.kind = "list"
    BY Zenon DEF F!ServeList, d
  <2> QED
    BY <2>1, <2>2 DEF F!Put, F!server
<1>2. d.kind = "list" /\ d.state = "served" /\ d.got = saved
  <2>1. c \in FileCall /\ saved \in SUBSET Evaluation
    BY DEF FilesTyped, FileCallsGood, GoodFileCall, EvaluationsGood
  <2> QED
    BY <1>1, <2>1 DEF FileCall
<1> HIDE DEF d
<1> SUFFICES ASSUME calm' PROVE CalmFiles'
  BY DEF FilesCalm, CalmFiles
<1>3. CalmFiles
  BY <1>1 DEF FilesCalm, CalmFiles
<1> DEFINE N == {d}
<1>4. /\ calls' = (calls \ {c}) \cup N /\ \A x \in N : x.state # "failed"
      /\ \E x : N = {x} /\ (x.kind \in F!Changes => c.kind \in F!Changes)
  BY <1>1, <1>2
<1> HIDE DEF N
<1>5. NoneFailed' /\ ChangesAlone'
  BY <1>3, <1>4, OthersCalm
<1>6. FileAnswersRight' /\ DeletesGone'
  BY <1>1, <1>2, <1>3 DEF CalmFiles, FileAnswersRight, FileAnswerRight, DeletesGone
<1>7. ListMatches'
  BY <1>1, <1>3 DEF CalmFiles, ListMatches, Brings
<1> QED
  BY <1>5, <1>6, <1>7 DEF CalmFiles

LEMMA ServeOneCalm ==
    ASSUME FilesTyped, FilesCalm, NEW c \in calls, F!ServeOne(c) PROVE FilesCalm'
<1> SUFFICES ASSUME calm' PROVE CalmFiles'
  BY DEF FilesCalm, CalmFiles
<1> DEFINE d == [c EXCEPT !.state = "served"]
<1>1. /\ c.state = "sent" /\ c.kind \in {"load", "reread", "update", "delete"}
      /\ c.id \in saved /\ calls' = (calls \ {c}) \cup {d} /\ calm
      /\ saved' = IF c.kind = "delete" THEN saved \ {c.id} ELSE saved
      /\ UNCHANGED <<list, listed>>
  <2>1. /\ c.state = "sent" /\ c.kind \in {"load", "reread", "update", "delete"}
        /\ IF c.id \in saved THEN F!Served(c) /\ calm' = calm ELSE F!Refused(c)
        /\ saved' = IF c.kind = "delete" THEN saved \ {c.id} ELSE saved
        /\ UNCHANGED <<list, listed>>
    BY DEF F!ServeOne
  <2>2. ~F!Refused(c)
    BY DEF F!Refused
  <2>3. c.id \in saved /\ F!Served(c) /\ calm
    BY <2>1, <2>2
  <2> HIDE DEF d
  <2>4. calls' = (calls \ {c}) \cup {d}
    BY <2>3 DEF F!Served, F!Put, d
  <2> QED
    BY <2>1, <2>3, <2>4
<1>2. d.kind = c.kind /\ d.state = "served" /\ d.id = c.id
  <2>1. c \in FileCall
    BY DEF FilesTyped, FileCallsGood, GoodFileCall
  <2> QED
    BY <2>1 DEF FileCall
<1> HIDE DEF d
<1>3. CalmFiles
  BY <1>1 DEF FilesCalm, CalmFiles
<1> DEFINE N == {d}
<1>4. /\ calls' = (calls \ {c}) \cup N /\ \A x \in N : x.state # "failed"
      /\ \E x : N = {x} /\ (x.kind \in F!Changes => c.kind \in F!Changes)
  BY <1>1, <1>2
<1> HIDE DEF N
<1>5. NoneFailed' /\ ChangesAlone'
  BY <1>3, <1>4, OthersCalm
<1>6. CASE c.kind # "delete"
  <2>1. FileAnswersRight' /\ DeletesGone'
    BY <1>1, <1>2, <1>3, <1>6 DEF CalmFiles, FileAnswersRight, FileAnswerRight, DeletesGone
  <2>2. \A x, e : x \in calls /\ Brings(x, e) => \E y \in calls' : Brings(y, e)
    BY <1>1, <1>2, <1>6 DEF Brings
  <2>3. ListMatches'
    <3>1. saved' = saved /\ UNCHANGED <<list, listed>>
      BY <1>1, <1>6
    <3>2. listed => Ids(list) \subseteq saved
                    /\ \A e \in saved \ Ids(list) : \E y \in calls : Brings(y, e)
      BY <1>3 DEF CalmFiles, ListMatches
    <3>3. listed => \A e \in saved \ Ids(list) : \E y \in calls' : Brings(y, e)
      BY <2>2, <3>2
    <3> QED
      BY <3>1, <3>2, <3>3 DEF ListMatches, Brings
  <2> QED
    BY <1>5, <2>1, <2>3 DEF CalmFiles
<1>7. CASE c.kind = "delete"
  <2>1. calls = {c} /\ calls' = {d}
    BY <1>1, <1>3, <1>7 DEF CalmFiles, ChangesAlone, F!Changes
  <2>2. c.id \notin Ids(list)
    BY <1>3, <1>7 DEF CalmFiles, DeletesGone
  <2>3. FileAnswersRight' /\ DeletesGone'
    BY <1>1, <1>2, <1>7, <2>1, <2>2 DEF FileAnswersRight, FileAnswerRight, DeletesGone
  <2>4. ListMatches'
    <3>1. saved' = saved \ {c.id} /\ UNCHANGED <<list, listed>>
      BY <1>1, <1>7
    <3>2. listed => Ids(list) \subseteq saved /\ \A e \in saved \ Ids(list) : c.id = e
      BY <1>3, <2>1 DEF CalmFiles, ListMatches, Brings
    <3> QED
      BY <2>2, <3>1, <3>2 DEF ListMatches
  <2> QED
    BY <1>5, <2>3, <2>4 DEF CalmFiles
<1> QED
  BY <1>6, <1>7

LEMMA ServeSaveCalm ==
    ASSUME FilesTyped, FilesCalm, NEW c \in calls, F!ServeSave(c) PROVE FilesCalm'
<1> SUFFICES ASSUME calm' PROVE CalmFiles'
  BY DEF FilesCalm, CalmFiles
<1>1. /\ c.state = "sent" /\ c.kind = "save" /\ c \in FileCall
      /\ UNCHANGED <<list, listed>>
  <2>1. UNCHANGED <<list, listed, dialog, F!files, F!chosen, saving, F!route, sent, twice, failed>>
    BY Zenon DEF F!ServeSave
  <2>2. c.state = "sent" /\ c.kind = "save"
    BY Zenon DEF F!ServeSave
  <2> QED
    BY <2>1, <2>2 DEF FilesTyped, FileCallsGood, GoodFileCall
<1>2. ~F!Refused(c)
  BY DEF F!Refused
<1>3. PICK e \in Evaluation \ born :
         /\ saved' = saved \cup {e} /\ calm' = calm
         /\ F!Put(c, [c EXCEPT !.state = "served", !.id = e])
  BY <1>2, Zenon DEF F!ServeSave
<1> DEFINE d == [c EXCEPT !.state = "served", !.id = e]
<1>4. calls' = (calls \ {c}) \cup {d}
  BY <1>3 DEF F!Put
<1>5. d.kind = "save" /\ d.state = "served" /\ d.id = e
  BY <1>1 DEF FileCall
<1> HIDE DEF d
<1>6. CalmFiles
  BY <1>3 DEF FilesCalm, CalmFiles
<1>7. calls = {c} /\ calls' = {d}
  BY <1>1, <1>4, <1>6 DEF CalmFiles, ChangesAlone, F!Changes
<1>8. (NoneFailed /\ ChangesAlone /\ FileAnswersRight /\ DeletesGone)'
  BY <1>3, <1>5, <1>7 DEF NoneFailed, ChangesAlone, FileAnswersRight, FileAnswerRight, DeletesGone
<1>9. ListMatches'
  <2>1. listed => Ids(list) \subseteq saved /\ saved \ Ids(list) = {}
    BY <1>1, <1>6, <1>7 DEF CalmFiles, ListMatches, Brings
  <2> QED
    BY <1>1, <1>3, <1>5, <1>7, <2>1 DEF ListMatches, Brings
<1> QED
  BY <1>8, <1>9 DEF CalmFiles

LEMMA AnswerListCalmly ==
    ASSUME FilesTyped, FilesCalm, NEW c \in calls, F!AnswerList(c) PROVE FilesCalm'
<1> SUFFICES ASSUME calm' PROVE CalmFiles'
  BY DEF FilesCalm, CalmFiles
<1>1. /\ Ids(list') = c.got /\ calls' = calls \ {c} /\ c.state = "served" /\ c.kind = "list"
      /\ UNCHANGED <<saved, calm>>
  BY AnswerListIs
<1>2. CalmFiles
  BY <1>1 DEF FilesCalm, CalmFiles
<1>3. NoneFailed' /\ ChangesAlone'
  BY <1>1, <1>2 DEF CalmFiles, NoneFailed, ChangesAlone
<1>4. FileAnswersRight'
  BY <1>1, <1>2 DEF CalmFiles, FileAnswersRight, FileAnswerRight
<1>5. DeletesGone'
  <2>1. \A x \in calls' : x.kind # "delete"
    BY <1>1, <1>2 DEF CalmFiles, ChangesAlone, F!Changes
  <2> QED
    BY <2>1 DEF DeletesGone
<1>6. ListMatches'
  <2>1. c.got = saved
    BY <1>1, <1>2 DEF CalmFiles, FileAnswersRight, FileAnswerRight
  <2> QED
    BY <1>1, <2>1 DEF ListMatches
<1> QED
  BY <1>3, <1>4, <1>5, <1>6 DEF CalmFiles

(* The row of c joins the list, and c is done with; a call that reads it   *)
(* back may take its place.                                                *)
LEMMA RowCalm ==
    ASSUME CalmFiles, NEW c \in calls, c.kind \in {"load", "update", "reread"}, c.state = "served",
           Ids(list') = Ids(list) \cup {c.id}, UNCHANGED <<saved, listed>>,
           NEW N, calls' = (calls \ {c}) \cup N,
           N = {} \/ \E d : N = {d} /\ d.kind = "reread" /\ d.state = "sent"
    PROVE  CalmFiles'
<1>1. c.id \in saved
  BY DEF CalmFiles, FileAnswersRight, FileAnswerRight
<1>2. "reread" \notin F!Changes /\ "delete" \in F!Changes
  BY DEF F!Changes
<1>3. NoneFailed' /\ ChangesAlone'
  BY <1>2, OthersCalm
<1>4. FileAnswersRight'
  BY DEF CalmFiles, FileAnswersRight, FileAnswerRight
<1>5. DeletesGone'
  <2>1. \A x \in calls \ {c} : x.kind # "delete"
    BY <1>2 DEF CalmFiles, ChangesAlone
  <2> QED
    BY <2>1 DEF DeletesGone
<1>6. ListMatches'
  <2>1. listed => Ids(list) \subseteq saved
                  /\ \A e \in saved \ Ids(list) : \E x \in calls : Brings(x, e)
    BY DEF CalmFiles, ListMatches
  <2>2. \A e : Brings(c, e) => e = c.id
    BY DEF Brings
  <2>3. listed => Ids(list') \subseteq saved
                  /\ \A e \in saved \ Ids(list') : \E x \in calls' : Brings(x, e)
    BY <1>1, <2>1, <2>2
  <2> QED
    BY <2>3 DEF ListMatches, Brings
<1> QED
  BY <1>3, <1>4, <1>5, <1>6 DEF CalmFiles

(* The list stays and c is done with.                                      *)
LEMMA DoneCalm ==
    ASSUME CalmFiles, NEW c \in calls, UNCHANGED <<saved, list, listed>>,
           NEW N, calls' = (calls \ {c}) \cup N,
           N = {} \/ \E d : N = {d} /\ d.kind = "reread" /\ d.state = "sent",
           \A e : Brings(c, e) => \E d \in N : Brings(d, e)
    PROVE  CalmFiles'
<1>1. "reread" \notin F!Changes
  BY DEF F!Changes
<1>2. NoneFailed' /\ ChangesAlone'
  BY <1>1, OthersCalm
<1>3. FileAnswersRight' /\ DeletesGone'
  BY DEF CalmFiles, FileAnswersRight, FileAnswerRight, DeletesGone
<1>4. ListMatches'
  <2>1. listed => Ids(list) \subseteq saved
                  /\ \A e \in saved \ Ids(list) : \E x \in calls : Brings(x, e)
    BY DEF CalmFiles, ListMatches
  <2>2. listed => Ids(list) \subseteq saved
                  /\ \A e \in saved \ Ids(list) : \E x \in calls' : Brings(x, e)
    BY <2>1
  <2> QED
    BY <2>2 DEF ListMatches, Brings
<1> QED
  BY <1>2, <1>3, <1>4 DEF CalmFiles

LEMMA AnswerCalm ==
    ASSUME FilesTyped, FilesCalm, NEW c \in calls,
           F!AnswerLoad(c) \/ F!AnswerOne(c) \/ F!AnswerDelete(c) \/ F!AnswerSave(c)
           \/ F!AnswerFailure(c)
    PROVE  FilesCalm'
<1> SUFFICES ASSUME calm' PROVE CalmFiles'
  BY DEF FilesCalm, CalmFiles
<1>1. calm
  BY DEF F!AnswerLoad, F!AnswerOne, F!AnswerDelete, F!AnswerSave, F!AnswerFailure, F!Send
<1>2. CalmFiles
  BY <1>1 DEF FilesCalm, CalmFiles
<1>3. c.state # "failed"
  BY <1>2 DEF CalmFiles, NoneFailed
<1>4. /\ list \in Seq(F!ListRow) /\ Once(list) /\ c.n \in 1..MaxCalls
      /\ c.kind \notin {"list", "save"} => c.id \in Evaluation
  BY DEF FilesTyped, RowsGood, FileCallsGood, GoodFileCall, FileCall, EvaluationsGood
<1> DEFINE d == F!New(sent + 1, "reread", c.id, 0, 0, FALSE)
<1>5. d.kind = "reread" /\ d.state = "sent" /\ d.id = c.id
  BY DEF F!New
<1>6. F!Send("reread", c.id, 0, calls \ {c}) => calls' = (calls \ {c}) \cup {d}
  BY DEF F!Send
<1> HIDE DEF d
<1>7. CASE F!AnswerLoad(c)
  <2>1. /\ c.kind = "load" /\ c.state \in {"served", "failed"} /\ calls' = calls \ {c}
        /\ UNCHANGED <<saved, listed>>
    BY <1>7 DEF F!AnswerLoad, F!server
  <2>2. c.state = "served"
    BY <1>3, <2>1
  <2>3. F!SaveEvaluation(c.id, c.n)
    BY <1>7, <2>2 DEF F!AnswerLoad
  <2>4. Ids(list') = Ids(list) \cup {c.id}
    BY <1>4, <2>1, <2>3, SaveRow
  <2>5. calls' = (calls \ {c}) \cup {}
    BY <2>1
  <2> QED
    BY <1>2, <2>1, <2>2, <2>4, <2>5, RowCalm
<1>8. CASE F!AnswerOne(c)
  <2>1. /\ c.kind \in {"update", "reread"} /\ c.state = "served" /\ F!SaveEvaluation(c.id, c.n)
        /\ UNCHANGED <<saved, listed>>
        /\ c.kind = "update" => F!Send("reread", c.id, 0, calls \ {c})
        /\ c.kind # "update" => calls' = calls \ {c}
    BY <1>8 DEF F!AnswerOne, F!server
  <2>2. Ids(list') = Ids(list) \cup {c.id}
    BY <1>4, <2>1, SaveRow
  <2> DEFINE N == IF c.kind = "update" THEN {d} ELSE {}
  <2>3. /\ calls' = (calls \ {c}) \cup N
        /\ N = {} \/ \E x : N = {x} /\ x.kind = "reread" /\ x.state = "sent"
    BY <1>5, <1>6, <2>1
  <2> HIDE DEF N
  <2>4. c.kind \in {"load", "update", "reread"}
    BY <2>1
  <2> QED
    BY <1>2, <2>1, <2>2, <2>3, <2>4, RowCalm
<1>9. CASE F!AnswerDelete(c)
  <2>1. /\ c.kind = "delete" /\ c.state = "served" /\ calls' = (calls \ {c}) \cup {}
        /\ UNCHANGED <<saved, list, listed>>
    BY <1>9 DEF F!AnswerDelete, F!server
  <2>2. \A e : Brings(c, e) => \E x \in {} : Brings(x, e)
    BY <2>1 DEF Brings
  <2> QED
    BY <1>2, <2>1, <2>2, DoneCalm
<1>10. CASE F!AnswerSave(c)
  <2>1. F!Send("reread", c.id, 0, calls \ {c}) /\ UNCHANGED <<saved, list, listed>>
    BY <1>10 DEF F!AnswerSave, F!server
  <2>2. \A e : Brings(c, e) => Brings(d, e)
    BY <1>5 DEF Brings
  <2> DEFINE N == {d}
  <2>3. /\ calls' = (calls \ {c}) \cup N
        /\ \E x : N = {x} /\ x.kind = "reread" /\ x.state = "sent"
        /\ \A e : Brings(c, e) => \E x \in N : Brings(x, e)
    BY <1>5, <1>6, <2>1, <2>2
  <2> HIDE DEF N
  <2> QED
    BY <1>2, <2>1, <2>3, DoneCalm
<1>11. CASE F!AnswerFailure(c)
  BY <1>3, <1>11 DEF F!AnswerFailure
<1> QED
  BY <1>7, <1>8, <1>9, <1>10, <1>11

LEMMA FilesCalmStep == ASSUME FilesTyped, FilesCalm, F!Next PROVE FilesCalm'
<1> USE DEF F!server, F!wire
<1>1. CASE \/ F!AddLocal \/ F!SelectAll \/ F!GoAway \/ F!OpenDelete \/ F!CancelDelete
           \/ \E i \in DOMAIN F!All : F!SelectFile(F!All[i])
  <2>1. UNCHANGED <<saved, list, listed, calls, calm>>
    BY <1>1 DEF F!AddLocal, F!SelectAll, F!GoAway, F!OpenDelete, F!CancelDelete, F!SelectFile
  <2> QED
    BY <2>1, NothingDisturbed
<1>2. CASE F!ClickResults
  <2>1. PICK ids \in been \cup {<<>>} : F!Visit(ids, calls)
    BY <1>2 DEF F!ClickResults
  <2>2. GoodUrl(ids, born) /\ ids \in Seq(Evaluation)
    BY NoUrl DEF FilesTyped, RouteGood, GoodUrl
  <2>3. F!LoadResults(ids, FALSE, calls) /\ UNCHANGED <<saved, list, listed>>
    BY <1>2, <2>1 DEF F!ClickResults, F!Visit
  <2> QED
    BY <2>2, <2>3, LoadsCalm
<1>3. CASE F!Reload
  BY <1>3, ReloadCalm
<1>4. CASE F!OpenList
  BY <1>4, SentCalm DEF F!OpenList
<1>5. CASE F!LoadFromList
  <2>1. PICK S \in SUBSET F!Ids(list) : F!LoadResults(F!SetToSeq(S), TRUE, calls)
    BY <1>5 DEF F!LoadFromList
  <2>2. \A x \in S : x \in born /\ x \in Evaluation
    BY DEF F!Ids, FilesTyped, RowsGood, EvaluationsGood
  <2>3. GoodUrl(SetToSeq(S), born) /\ SetToSeq(S) \in Seq(Evaluation)
    BY <2>2, ListedIs DEF GoodUrl
  <2>4. F!SetToSeq(S) = SetToSeq(S) /\ UNCHANGED <<saved, list, listed>>
    BY <1>5, FileLists DEF F!LoadFromList
  <2> QED
    BY <2>1, <2>3, <2>4, LoadsCalm
<1>6. CASE F!ConfirmDelete
  BY <1>6, DeleteCalm
<1>7. CASE F!Edit
  BY <1>7, SentCalm DEF F!Edit
<1>8. ASSUME NEW i \in DOMAIN F!All, F!RemoveFile(F!All[i]) PROVE FilesCalm'
  <2>1. F!LoadResults(<<>>, FALSE, calls) /\ UNCHANGED <<saved, list, listed>>
    BY <1>8 DEF F!RemoveFile, F!Visit
  <2> QED
    BY <2>1, NoUrl, EmptySeq, LoadsCalm
<1>9. ASSUME NEW i \in DOMAIN F!All, F!SaveFile(F!All[i]) PROVE FilesCalm'
  BY <1>9, SentCalm DEF F!SaveFile
<1>10. ASSUME NEW c \in calls, F!Handle(c) PROVE FilesCalm'
  BY <1>10, ServeListCalm, ServeOneCalm, ServeSaveCalm, AnswerListCalmly, AnswerCalm DEF F!Handle
<1> QED
  BY <1>1, <1>2, <1>3, <1>4, <1>5, <1>6, <1>7, <1>8, <1>9, <1>10 DEF F!Next

(* The rows of a list are as many as their ids.                            *)
LEMMA RowsCount ==
    ASSUME NEW S, NEW s \in Seq(S), Once(s)
    PROVE  Cardinality(Ids(s)) = Len(s)
<1> DEFINE n == Len(s)
           f == [i \in 1..n |-> s[i].id]
           U == Ids(s)
<1>1. n \in Nat /\ DOMAIN s = 1..n
  BY LenProperties
<1> HIDE DEF n
<1>2. f \in [1..n -> U] /\ (\A i, j \in 1..n : f[i] = f[j] => i = j) /\ \A x \in U : \E i \in 1..n : f[i] = x
  BY <1>1 DEF Ids, Once
<1> HIDE DEF f, U
<1>3. f \in Bijection(1..n, U)
  BY <1>2 DEF Bijection, Injection, Surjection, IsInjective
<1>4. IsFiniteSet(1..n) /\ Cardinality(1..n) = n /\ ExistsBijection(1..n, U)
  BY <1>1, <1>3, FS_Interval DEF ExistsBijection
<1>5. Cardinality(U) = n
  BY <1>4, FS_Bijection
<1> QED
  BY <1>5 DEF n, U

LEMMA ListIsRight == FilesTyped /\ FilesCalm => F!ListRight
<1> SUFFICES ASSUME FilesTyped, FilesCalm, calm, calls = {}, listed
             PROVE  F!Ids(list) = saved /\ Len(list) = F!Cardinality(F!Ids(list))
  BY DEF F!ListRight
<1>1. Ids(list) = saved
  BY DEF FilesCalm, ListMatches
<1>2. Len(list) = Cardinality(Ids(list))
  BY RowsCount DEF FilesTyped, RowsGood
<1> QED
  BY <1>1, <1>2, FileLists

(* At rest, and where nothing disturbed it, the list of evaluations is     *)
(* that of the server, each once; so are the lists of groups: for any      *)
(* number of evaluations, groups and calls, in any order of answers        *)
(* (store/evaluations.ts, store/groups.ts).                                *)
THEOREM ListsStayRight == PartsSpec => []ListsRight
<1>1. PartsInit => FilesCalm
  BY ClientInits, FilesCalmInit
<1>2. ASSUME FilesInv, FilesCalm, [PartsNext]_partsVars PROVE FilesCalm'
  <2>1. CASE F!Next
    BY <1>2, <2>1, FilesCalmStep DEF FilesInv
  <2>2. CASE UNCHANGED F!vars
    BY <1>2, <2>2, NothingDisturbed DEF F!vars
  <2> QED
    BY <1>2, <2>1, <2>2, FilesPart
<1>3. FilesInv /\ FilesCalm /\ G!OwnListRight /\ G!AllListRight => ListsRight
  BY ListIsRight DEF FilesInv, ListsRight
<1> QED
  BY <1>1, <1>2, <1>3, FilesInvariant, GroupListsStayRight, PTL DEF PartsSpec
=============================================================================
