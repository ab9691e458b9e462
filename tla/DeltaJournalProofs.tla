------------------------- MODULE DeltaJournalProofs -------------------------
(***************************************************************************)
(* Proofs about DeltaJournal: an exact log rolls the tree forward and      *)
(* back, for every set of files and texts and every length of the log.     *)
(*                                                                         *)
(* The inductive invariant is TypeOK /\ Consistent.  Two lemmas carry it:  *)
(* a log stays consistent when a change is appended that takes the tree    *)
(* from what it is to what it becomes, and when its last change is         *)
(* replaced by one that tells at least as much.                            *)
(***************************************************************************)
EXTENDS DeltaJournal, TLAPS

Told(l, t0, t) == Replays(l, t0, t) /\ Undoes(l, t0) /\ Chained(l)

(***************************************************************************)
(* Between the trees t and u exactly the places that c touches differ, and *)
(* c says what each held and holds.                                        *)
(***************************************************************************)
Describes(c, t, u) ==
    \A p \in Files : IF Touches(c, p)
                     THEN Before(c, p) = t[p] /\ After(c, p) = u[p]
                     ELSE u[p] = t[p]

-----------------------------------------------------------------------------
(* A change appended to a consistent log keeps it consistent. *)
LEMMA AppendTold ==
    ASSUME NEW l \in Seq(Changes), NEW c \in Changes, NEW t0, NEW t, NEW u,
           Told(l, t0, t), Describes(c, t, u)
    PROVE  Told(Append(l, c), t0, u)
<1> DEFINE m == Append(l, c)
           n == Len(l) + 1
<1>1. /\ m \in Seq(Changes) /\ Len(m) = n /\ n \in Nat \ {0} /\ m[n] = c
      /\ DOMAIN m = 1..n /\ DOMAIN l = 1..(n - 1)
      /\ \A k \in DOMAIN l : k \in DOMAIN m /\ m[k] = l[k] /\ k < n
      /\ \A k \in DOMAIN m : k \in DOMAIN l \/ k = n
  OBVIOUS
<1> HIDE DEF m, n
<1>2. Replays(m, t0, u)
  <2> SUFFICES ASSUME NEW p \in Files
               PROVE  \/ /\ \A k \in DOMAIN m : ~Touches(m[k], p)
                         /\ u[p] = t0[p]
                      \/ \E k \in DOMAIN m :
                            /\ Touches(m[k], p)
                            /\ \A j \in DOMAIN m : j > k => ~Touches(m[j], p)
                            /\ u[p] = After(m[k], p)
    BY DEF Replays
  <2>1. CASE Touches(c, p)
    <3>1. n \in DOMAIN m /\ \A j \in DOMAIN m : ~(j > n)
      BY <1>1
    <3>2. u[p] = After(m[n], p)
      BY <2>1, <1>1 DEF Describes
    <3> QED BY <3>1, <3>2, <2>1, <1>1
  <2>2. CASE ~Touches(c, p)
    <3>1. u[p] = t[p]
      BY <2>2 DEF Describes
    <3>2. CASE (\A k \in DOMAIN l : ~Touches(l[k], p)) /\ t[p] = t0[p]
      BY <3>1, <3>2, <2>2, <1>1
    <3>3. CASE \E k \in DOMAIN l :
                  /\ Touches(l[k], p)
                  /\ \A j \in DOMAIN l : j > k => ~Touches(l[j], p)
                  /\ t[p] = After(l[k], p)
      BY <3>1, <3>3, <2>2, <1>1
    <3> QED BY <3>2, <3>3 DEF Told, Replays
  <2> QED BY <2>1, <2>2
<1>3. Undoes(m, t0)
  <2> SUFFICES ASSUME NEW p \in Files, NEW k \in DOMAIN m, Touches(m[k], p),
                      \A j \in DOMAIN m : j < k => ~Touches(m[j], p)
               PROVE  t0[p] = Before(m[k], p)
    BY DEF Undoes
  <2>1. CASE k \in DOMAIN l
    BY <2>1, <1>1 DEF Told, Undoes
  <2>2. CASE k = n
    <3>1. \A j \in DOMAIN l : ~Touches(l[j], p)
      BY <2>2, <1>1
    <3>2. t[p] = t0[p]
      BY <3>1 DEF Told, Replays
    <3>3. Before(c, p) = t[p]
      BY <2>2, <1>1 DEF Describes
    <3> QED BY <3>2, <3>3, <2>2, <1>1
  <2> QED BY <2>1, <2>2, <1>1
<1>4. Chained(m)
  <2> SUFFICES ASSUME NEW p \in Files, NEW j \in DOMAIN m, NEW k \in DOMAIN m,
                      j < k, Touches(m[j], p), Touches(m[k], p),
                      \A x \in DOMAIN m : j < x /\ x < k => ~Touches(m[x], p)
               PROVE  After(m[j], p) = Before(m[k], p)
    BY DEF Chained
  <2>1. j \in DOMAIN l /\ m[j] = l[j]
    BY <1>1
  <2>2. CASE k \in DOMAIN l
    BY <2>1, <2>2, <1>1 DEF Told, Chained
  <2>3. CASE k = n
    <3>1. \A x \in DOMAIN l : x > j => ~Touches(l[x], p)
      BY <2>3, <1>1
    <3>2. PICK i \in DOMAIN l : /\ Touches(l[i], p)
                                /\ \A x \in DOMAIN l : x > i => ~Touches(l[x], p)
                                /\ t[p] = After(l[i], p)
      BY <2>1 DEF Told, Replays
    <3>3. i = j
      BY <3>1, <3>2, <2>1, <1>1
    <3>4. Before(c, p) = t[p]
      BY <2>3, <1>1 DEF Describes
    <3> QED BY <3>2, <3>3, <3>4, <2>1, <2>3, <1>1
  <2> QED BY <2>2, <2>3, <1>1
<1> QED BY <1>2, <1>3, <1>4 DEF Told, m

(* So does a last change that is replaced by one that says the same of the   *)
(* places the old one touched, and tells the rest of what happened since.    *)
LEMMA ReplaceTold ==
    ASSUME NEW l \in Seq(Changes), l # <<>>, NEW c \in Changes,
           NEW t0, NEW t, NEW u,
           Told(l, t0, t),
           \A p \in Files :
              IF Touches(c, p)
              THEN /\ After(c, p) = u[p]
                   /\ IF Touches(l[Len(l)], p)
                      THEN Before(c, p) = Before(l[Len(l)], p)
                      ELSE Before(c, p) = t[p]
              ELSE u[p] = t[p] /\ ~Touches(l[Len(l)], p)
    PROVE  Told([l EXCEPT ![Len(l)] = c], t0, u)
<1> DEFINE m == [l EXCEPT ![Len(l)] = c]
           n == Len(l)
<1>1. /\ m \in Seq(Changes) /\ Len(m) = n /\ n \in Nat \ {0} /\ m[n] = c
      /\ DOMAIN m = 1..n /\ DOMAIN l = 1..n
      /\ \A k \in DOMAIN l : k # n => m[k] = l[k]
  OBVIOUS
<1>2. \A p \in Files :
         IF Touches(c, p)
         THEN /\ After(c, p) = u[p]
              /\ IF Touches(l[n], p)
                 THEN Before(c, p) = Before(l[n], p)
                 ELSE Before(c, p) = t[p]
         ELSE u[p] = t[p] /\ ~Touches(l[n], p)
  OBVIOUS
<1> HIDE DEF m, n
<1>3. Replays(m, t0, u)
  <2> SUFFICES ASSUME NEW p \in Files
               PROVE  \/ /\ \A k \in DOMAIN m : ~Touches(m[k], p)
                         /\ u[p] = t0[p]
                      \/ \E k \in DOMAIN m :
                            /\ Touches(m[k], p)
                            /\ \A j \in DOMAIN m : j > k => ~Touches(m[j], p)
                            /\ u[p] = After(m[k], p)
    BY DEF Replays
  <2>1. CASE Touches(c, p)
    <3>1. n \in DOMAIN m /\ \A j \in DOMAIN m : ~(j > n)
      BY <1>1
    <3> QED BY <3>1, <2>1, <1>1, <1>2
  <2>2. CASE ~Touches(c, p)
    <3>1. u[p] = t[p] /\ ~Touches(l[n], p)
      BY <2>2, <1>2
    <3>2. CASE (\A k \in DOMAIN l : ~Touches(l[k], p)) /\ t[p] = t0[p]
      BY <3>1, <3>2, <2>2, <1>1
    <3>3. CASE \E k \in DOMAIN l :
                  /\ Touches(l[k], p)
                  /\ \A j \in DOMAIN l : j > k => ~Touches(l[j], p)
                  /\ t[p] = After(l[k], p)
      BY <3>1, <3>3, <2>2, <1>1
    <3> QED BY <3>2, <3>3 DEF Told, Replays
  <2> QED BY <2>1, <2>2
<1>4. Undoes(m, t0)
  <2> SUFFICES ASSUME NEW p \in Files, NEW k \in DOMAIN m, Touches(m[k], p),
                      \A j \in DOMAIN m : j < k => ~Touches(m[j], p)
               PROVE  t0[p] = Before(m[k], p)
    BY DEF Undoes
  <2>1. \A j \in DOMAIN l : j < k => ~Touches(l[j], p)
    BY <1>1
  <2>2. CASE k # n
    BY <2>1, <2>2, <1>1 DEF Told, Undoes
  <2>3. CASE k = n /\ Touches(l[n], p)
    BY <2>1, <2>3, <1>1, <1>2 DEF Told, Undoes
  <2>4. CASE k = n /\ ~Touches(l[n], p)
    <3>1. \A j \in DOMAIN l : ~Touches(l[j], p)
      BY <2>1, <2>4, <1>1
    <3>2. t[p] = t0[p]
      BY <3>1 DEF Told, Replays
    <3> QED BY <3>2, <2>4, <1>1, <1>2
  <2> QED BY <2>2, <2>3, <2>4
<1>5. Chained(m)
  <2> SUFFICES ASSUME NEW p \in Files, NEW j \in DOMAIN m, NEW k \in DOMAIN m,
                      j < k, Touches(m[j], p), Touches(m[k], p),
                      \A x \in DOMAIN m : j < x /\ x < k => ~Touches(m[x], p)
               PROVE  After(m[j], p) = Before(m[k], p)
    BY DEF Chained
  <2>1. /\ j \in DOMAIN l /\ j # n /\ m[j] = l[j]
        /\ \A x \in DOMAIN l : j < x /\ x < k => ~Touches(l[x], p)
    BY <1>1
  <2>2. CASE k # n
    BY <2>1, <2>2, <1>1 DEF Told, Chained
  <2>3. CASE k = n /\ Touches(l[n], p)
    BY <2>1, <2>3, <1>1, <1>2 DEF Told, Chained
  <2>4. CASE k = n /\ ~Touches(l[n], p)
    <3>1. \A x \in DOMAIN l : x > j => ~Touches(l[x], p)
      BY <2>1, <2>4, <1>1
    <3>2. PICK i \in DOMAIN l : /\ Touches(l[i], p)
                                /\ \A x \in DOMAIN l : x > i => ~Touches(l[x], p)
                                /\ t[p] = After(l[i], p)
      BY <2>1 DEF Told, Replays
    <3>3. i = j
      BY <3>1, <3>2, <2>1, <1>1
    <3> QED BY <3>2, <3>3, <2>1, <2>4, <1>1, <1>2
  <2> QED BY <2>2, <2>3, <2>4
<1> QED BY <1>3, <1>4, <1>5 DEF Told, m

-----------------------------------------------------------------------------
LEMMA ChangeTypes ==
    ASSUME NEW p \in Files, NEW dest \in Option(Files), NEW text \in Texts,
           NEW old \in Texts, NEW overwritten \in Option(Texts)
    PROVE  /\ Add(p, text, overwritten) \in Changes
           /\ Delete(p, old) \in Changes
           /\ Update(p, dest, old, overwritten, text) \in Changes
BY DEF Add, Delete, Update, Changes, Option

(* The last change of a log of the right type, when it is an Add. *)
LEMMA LastAddType ==
    ASSUME log \in Seq(Changes), log # <<>>, LastAdd.kind = "add"
    PROVE  /\ LastAdd.path \in Files
           /\ LastAdd.content \in Texts
           /\ LastAdd.overwritten_content \in Option(Texts)
           /\ LastAdd = Add(LastAdd.path, LastAdd.content, LastAdd.overwritten_content)
<1>1. LastAdd \in Changes
  BY DEF LastAdd
<1>2. LastAdd \in [kind : {"add"}, path : Files, content : Texts,
                   overwritten_content : Option(Texts)]
  BY <1>1 DEF Changes
<1> QED BY <1>2 DEF Add

(***************************************************************************)
(* What each recording action does, as a change appended to the log or as  *)
(* the last change replaced.                                               *)
(***************************************************************************)
LEMMA RecordAddTold ==
    ASSUME TypeOK, Consistent, NEW p \in Files, NEW text \in Texts, RecordAdd(p, text)
    PROVE  TypeOK' /\ Consistent'
<1> DEFINE c == Add(p, text, tree[p])
<1>1. c \in Changes
  BY ChangeTypes, None \in Option(Files) DEF RecordAdd, Option
<1>2. Describes(c, tree, tree')
  BY DEF Describes, Touches, Before, After, Add, RecordAdd, TypeOK
<1>3. Told(log, tree0, tree)
  BY DEF Told, Consistent, RecordAdd, Recording
<1>4. log' = Append(log, c) /\ tree0' = tree0
  BY DEF RecordAdd, Recording
<1>5. Told(log', tree0', tree')
  BY <1>1, <1>2, <1>3, <1>4, AppendTold DEF TypeOK
<1>6. TypeOK'
  BY <1>1, <1>4, NodesAssumption DEF TypeOK, RecordAdd, Recording
<1> QED BY <1>5, <1>6 DEF Told, Consistent

LEMMA RecordDeleteTold ==
    ASSUME TypeOK, Consistent, NEW p \in Files, RecordDelete(p)
    PROVE  TypeOK' /\ Consistent'
<1> DEFINE c == Delete(p, tree[p])
<1>1. c \in Changes
  BY DEF RecordDelete, Delete, Changes
<1>2. Describes(c, tree, tree')
  BY DEF Describes, Touches, Before, After, Delete, RecordDelete, TypeOK
<1>3. Told(log, tree0, tree)
  BY DEF Told, Consistent, RecordDelete, Recording
<1>4. log' = Append(log, c) /\ tree0' = tree0
  BY DEF RecordDelete, Recording
<1>5. Told(log', tree0', tree')
  BY <1>1, <1>2, <1>3, <1>4, AppendTold DEF TypeOK
<1>6. TypeOK'
  BY <1>1, <1>4, NodesAssumption DEF TypeOK, RecordDelete, Recording
<1> QED BY <1>5, <1>6 DEF Told, Consistent

LEMMA RecordUpdateTold ==
    ASSUME TypeOK, Consistent, NEW p \in Files, NEW text \in Texts, RecordUpdate(p, text)
    PROVE  TypeOK' /\ Consistent'
<1> DEFINE c == Update(p, None, tree[p], None, text)
<1>1. c \in Changes
  BY DEF RecordUpdate, Update, Changes, Option
<1>2. Describes(c, tree, tree')
  BY NoneAssumption
     DEF Describes, Touches, Before, After, Update, RecordUpdate, TypeOK
<1>3. Told(log, tree0, tree)
  BY DEF Told, Consistent, RecordUpdate, Recording
<1>4. log' = Append(log, c) /\ tree0' = tree0
  BY DEF RecordUpdate, Recording
<1>5. Told(log', tree0', tree')
  BY <1>1, <1>2, <1>3, <1>4, AppendTold DEF TypeOK
<1>6. TypeOK'
  BY <1>1, <1>4, NodesAssumption DEF TypeOK, RecordUpdate, Recording
<1> QED BY <1>5, <1>6 DEF Told, Consistent

(* A move may replace the Add of its destination: the destination was last   *)
(* touched by that Add, and the source is as the log left it.                *)
LEMMA RecordMoveTold ==
    ASSUME TypeOK, Consistent, NEW p \in Files, NEW old \in Texts, RecordMove(p, old)
    PROVE  TypeOK' /\ Consistent'
<1> DEFINE a == LastAdd
           c == MoveOf(p, old)
<1>1. /\ a.path \in Files /\ a.content \in Texts
      /\ a.overwritten_content \in Option(Texts)
      /\ a.kind = "add" /\ log # <<>> /\ a = log[Len(log)]
  BY LastAddType DEF RecordMove, TypeOK, LastAdd
<1>2. c \in Changes
  BY <1>1, ChangeTypes DEF MoveOf, Option
<1>3. Told(log, tree0, tree)
  BY DEF Told, Consistent, RecordMove, Recording
<1>4. a.path # None
  BY <1>1, NoneAssumption
<1>5. tree[a.path] = a.content
  <2>1. Len(log) \in DOMAIN log /\ \A j \in DOMAIN log : ~(j > Len(log))
    BY <1>1 DEF TypeOK
  <2>2. Touches(log[Len(log)], a.path) /\ After(log[Len(log)], a.path) = a.content
    BY <1>1 DEF Touches, After
  <2>3. PICK k \in DOMAIN log : /\ Touches(log[k], a.path)
                                /\ \A j \in DOMAIN log : j > k => ~Touches(log[j], a.path)
                                /\ tree[a.path] = After(log[k], a.path)
    BY <1>1, <1>3, <2>1, <2>2 DEF Told, Replays
  <2>4. k = Len(log)
    BY <2>1, <2>2, <2>3 DEF TypeOK
  <2> QED BY <2>2, <2>3, <2>4
<1>6. \A q \in Files :
         IF Touches(c, q)
         THEN /\ After(c, q) = tree'[q]
              /\ IF Touches(log[Len(log)], q)
                 THEN Before(c, q) = Before(log[Len(log)], q)
                 ELSE Before(c, q) = tree[q]
         ELSE tree'[q] = tree[q] /\ ~Touches(log[Len(log)], q)
  <2> SUFFICES ASSUME NEW q \in Files
               PROVE  IF Touches(c, q)
                      THEN /\ After(c, q) = tree'[q]
                           /\ IF Touches(a, q)
                              THEN Before(c, q) = Before(a, q)
                              ELSE Before(c, q) = tree[q]
                      ELSE tree'[q] = tree[q] /\ ~Touches(a, q)
    BY <1>1
  <2>1. /\ Touches(a, q) <=> q = a.path
        /\ Before(a, q) = a.overwritten_content
    BY <1>1 DEF Touches, Before
  <2>2. /\ Touches(c, q) <=> q \in {p, a.path}
        /\ Before(c, q) = IF q = p THEN old ELSE a.overwritten_content
        /\ After(c, q) = IF q = p THEN None ELSE a.content
    BY <1>4 DEF Touches, Before, After, MoveOf, Update
  <2>3. tree' = [tree EXCEPT ![p] = None]
    BY DEF RecordMove
  <2>4. old = IF p = a.path THEN a.overwritten_content ELSE tree[p]
    BY DEF RecordMove
  <2> HIDE DEF a, c
  <2> QED BY <1>5, <2>1, <2>2, <2>3, <2>4 DEF TypeOK
<1>7. log' = [log EXCEPT ![Len(log)] = c] /\ tree0' = tree0
  BY DEF RecordMove, Recording
<1> HIDE DEF a, c
<1>8. Told(log', tree0', tree')
  BY <1>1, <1>2, <1>3, <1>6, <1>7, ReplaceTold DEF TypeOK
<1>9. log' \in Seq(Changes)
  BY <1>1, <1>2, <1>7 DEF TypeOK
<1>10. tree' \in [Files -> Nodes] /\ exact' \in BOOLEAN
  BY NodesAssumption DEF TypeOK, RecordMove, Recording
<1> QED BY <1>7, <1>8, <1>9, <1>10 DEF Told, Consistent, TypeOK

-----------------------------------------------------------------------------
LEMMA InitConsistent == Init => TypeOK /\ Consistent
BY DEF Init, TypeOK, Consistent, Replays, Undoes, Chained

LEMMA NextConsistent == TypeOK /\ Consistent /\ [Next]_vars => TypeOK' /\ Consistent'
<1> SUFFICES ASSUME TypeOK, Consistent, [Next]_vars PROVE TypeOK' /\ Consistent'
  OBVIOUS
<1>1. ASSUME NEW p \in Files, RecordDelete(p) PROVE TypeOK' /\ Consistent'
  BY <1>1, RecordDeleteTold
<1>2. ASSUME NEW p \in Files, NEW text \in Texts, RecordAdd(p, text)
      PROVE  TypeOK' /\ Consistent'
  BY <1>2, RecordAddTold
<1>3. ASSUME NEW p \in Files, NEW text \in Texts, RecordUpdate(p, text)
      PROVE  TypeOK' /\ Consistent'
  BY <1>3, RecordUpdateTold
<1>4. ASSUME NEW p \in Files, NEW text \in Texts, RecordMove(p, text)
      PROVE  TypeOK' /\ Consistent'
  BY <1>4, RecordMoveTold
<1>5. CASE LoseTrack
  <2>1. log' \in Seq(Changes)
    BY <1>5 DEF LoseTrack, KeepsLog, TypeOK
  <2> QED BY <1>5, <2>1 DEF LoseTrack, TypeOK, Consistent
<1>6. CASE UNCHANGED vars
  BY <1>6 DEF vars, TypeOK, Consistent
<1> QED BY <1>1, <1>2, <1>3, <1>4, <1>5, <1>6 DEF Next

(* As long as the delta is exact it rolls the tree forward from before the   *)
(* patch and back, change by change, however long it is.                     *)
THEOREM JournalConsistent == Spec => [](TypeOK /\ Consistent)
<1>1. Init => TypeOK /\ Consistent
  BY InitConsistent
<1>2. TypeOK /\ Consistent /\ [Next]_vars => (TypeOK /\ Consistent)'
  BY NextConsistent
<1> QED BY <1>1, <1>2, PTL DEF Spec
=============================================================================
