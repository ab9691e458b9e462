------------------------ MODULE MirrorReleaseProofs ------------------------
(***************************************************************************)
(* Proofs about MirrorRelease: no release is skipped, passed releases are  *)
(* whole and the baseline never goes back, for any number of releases and  *)
(* runs, any page size and any number of failures.                         *)
(*                                                                         *)
(* The inductive invariant says what the only active run knows: what it    *)
(* has listed has no gap, so neither has its plan, and what it has gone    *)
(* through of the plan is mirrored.                                        *)
(***************************************************************************)
EXTENDS MirrorRelease, TLAPS

Mirrored(r) == r \in tags /\ releases[r] # None

(* One run at a time, the concurrency group. *)
Alone == \A v, w \in Runs : step[v] # "idle" /\ step[w] # "idle" => v = w

(* No run starts from a baseline that is ahead, and upstream has them all. *)
BaselinesAreBehind ==
    /\ baseline <= published
    /\ pending <= baseline
    /\ \A w \in Runs : base[w] <= baseline

CreatedIsTagged ==
    \A r \in Ids : releases[r] # None =>
        /\ r \in tags
        /\ r \notin torn => Archives \subseteq releases[r]

(* What a run has listed goes from the newest release at its first page down *)
(* to what it has still to see, without a gap.                               *)
Listing(w) ==
    /\ \A k \in DOMAIN listed[w] : listed[w][k] # base[w]
    /\ IF listed[w] = <<>>
       THEN seen[w] = 0
       ELSE /\ baseline <= listed[w][1] /\ listed[w][1] <= published
            /\ \A r \in Ids : published - seen[w] < r /\ r <= listed[w][1] =>
                  \E k \in DOMAIN listed[w] : listed[w][k] = r

(* The plan of a run has every release from its baseline to the last one. *)
Planned(w) ==
    LET last == plan[w][Len(plan[w])]
    IN  /\ plan[w] # <<>>
        /\ baseline <= last /\ last <= published
        /\ \A r \in Ids : base[w] < r /\ r <= last =>
              \E k \in DOMAIN plan[w] : plan[w][k] = r

(* How far it has come with it. *)
Done(w) ==
    /\ step[w] \in {"view", "tag", "create"} =>
          \A k \in DOMAIN plan[w] : k < at[w] => Mirrored(plan[w][k])
    /\ step[w] = "create" => Release(w) \in tags
    /\ step[w] \in {"upload", "record"} =>
          \A k \in DOMAIN plan[w] : Mirrored(plan[w][k])
    /\ step[w] = "upload" =>
          \A k \in DOMAIN plan[w] : k < at[w] => MacBundle \in releases[plan[w][k]]
    /\ step[w] = "record" =>
          \A k \in DOMAIN plan[w] : MacBundle \in releases[plan[w][k]]

RunInv(w) ==
    /\ step[w] = "idle" => listed[w] = <<>> /\ seen[w] = 0
    /\ step[w] \in {"idle", "list"} => at[w] = 1
    /\ step[w] = "list" => Listing(w)
    /\ step[w] \notin {"idle", "list"} => Planned(w) /\ Done(w)

IInv ==
    /\ TypeOK
    /\ Alone
    /\ BaselinesAreBehind
    /\ CreatedIsTagged
    /\ \A w \in Runs : RunInv(w)
    /\ NoReleaseIsSkipped
    /\ PassedReleasesAreWhole

-----------------------------------------------------------------------------
LEMMA Sizes ==
    /\ FirstBaseline \in Ids
    /\ Ids \subseteq Nat \ {0}
    /\ \A S \in SUBSET Bundles : S # None
    /\ Archives \in SUBSET Bundles
    /\ MacBundle \in Bundles
BY MirrorAssumption DEF FirstBaseline, Ids, Bundles

LEMMA Ends ==
    ASSUME NEW list \in Seq(Ids), list # <<>>
    PROVE  /\ Len(list) \in DOMAIN list /\ 1 \in DOMAIN list /\ Len(list) \in Nat
           /\ list[Len(list)] \in Ids /\ list[1] \in Ids
OBVIOUS

(* What a run that lists has still to see, and its list with the next page. *)
Rest(w) == published - seen[w]

Extended(w) == listed[w] \o Page(w)

(* A page holds what follows the releases seen, without a gap. *)
LEMMA PageContents ==
    ASSUME TypeOK, NEW w \in Runs
    PROVE  /\ Page(w) \in Seq(Ids)
           /\ \A k \in DOMAIN Page(w) :
                 /\ k \in Nat \ {0} /\ k <= Rest(w) /\ k <= PageSize
                 /\ Page(w)[k] = Rest(w) - k + 1
           /\ \A k \in Nat \ {0} : k <= Rest(w) /\ k <= PageSize => k \in DOMAIN Page(w)
<1> DEFINE rest == Rest(w)
           n == IF rest < PageSize THEN rest ELSE PageSize
<1>1. rest \in Int /\ rest <= MaxReleases /\ PageSize \in Nat \ {0} /\ n \in Int /\ n <= rest
  BY MirrorAssumption DEF TypeOK, Ids, Rest
<1>2. Page(w) = [k \in 1..n |-> rest - k + 1]
  BY DEF Page, Rest
<1>3. \A k \in 1..n : rest - k + 1 \in Ids
  BY <1>1, MirrorAssumption DEF Ids
<1>4. Page(w) \in Seq(Ids)
  <2>1. CASE n >= 0
    BY <2>1, <1>1, <1>2, <1>3
  <2>2. CASE n < 0
    <3>1. 1..n = {} /\ 1..n = 1..0
      BY <2>2, <1>1
    <3>2. Page(w) = <<>>
      BY <1>2, <3>1
    <3> QED BY <3>2
  <2> QED BY <1>1, <2>1, <2>2
<1> HIDE DEF rest
<1>5. /\ \A k \in DOMAIN Page(w) :
            k \in Nat \ {0} /\ k <= rest /\ k <= PageSize /\ Page(w)[k] = rest - k + 1
      /\ \A k \in Nat \ {0} : k <= rest /\ k <= PageSize => k \in DOMAIN Page(w)
  BY <1>1, <1>2
<1> QED BY <1>4, <1>5 DEF rest

(* What stands in front of a release that occurs once in a list. *)
LEMMA BehindOnce ==
    ASSUME NEW list \in Seq(Ids), NEW end \in DOMAIN list, NEW r, list[end] = r,
           \A k \in DOMAIN list : list[k] = r => k = end
    PROVE  /\ Behind(list, r) \in Seq(Ids)
           /\ Len(Behind(list, r)) = end - 1
           /\ \A k \in 1..(end - 1) : Behind(list, r)[k] = list[end - k]
<1>1. end \in Nat \ {0} /\ end <= Len(list) /\ DOMAIN list = 1..Len(list)
  OBVIOUS
<1>2. (CHOOSE k \in DOMAIN list :
          list[k] = r /\ \A j \in DOMAIN list : list[j] = r => k <= j) = end
  BY <1>1
<1>3. Behind(list, r) = [k \in 1..(end - 1) |-> list[end - k]]
  BY <1>2 DEF Behind
<1>4. \A k \in 1..(end - 1) : list[end - k] \in Ids
  BY <1>1
<1> QED BY <1>1, <1>3, <1>4

RunTypes ==
    /\ step \in [Runs -> Steps]
    /\ base \in [Runs -> Ids]
    /\ seen \in [Runs -> Nat]
    /\ listed \in [Runs -> Seq(Ids)]
    /\ plan \in [Runs -> Seq(Ids)]
    /\ at \in [Runs -> Nat \ {0}]
    /\ \A w \in Runs : step[w] \in {"view", "tag", "create", "upload"} => at[w] \in DOMAIN plan[w]

MirrorTypes ==
    /\ published \in Ids
    /\ baseline \in Ids
    /\ tags \subseteq Ids
    /\ releases \in [Ids -> (SUBSET Bundles) \cup {None}]
    /\ pending \in Ids \cup {0}
    /\ failures \in 0..MaxFailures
    /\ torn \subseteq Ids
    /\ late \subseteq Ids

LEMMA Types == (TypeOK <=> MirrorTypes /\ RunTypes) /\ (TypeOK' <=> MirrorTypes' /\ RunTypes')
BY DEF TypeOK, MirrorTypes, RunTypes

(* What holds of the runs when none of them is active. *)
RunsInv ==
    /\ RunTypes
    /\ Alone
    /\ \A w \in Runs : base[w] <= baseline /\ RunInv(w)

LEMMA OthersAreIdle ==
    ASSUME IInv, NEW w \in Runs, step[w] # "idle", NEW v \in Runs, v # w
    PROVE  step[v] = "idle"
BY DEF IInv, Alone

(* A run that ends leaves no active run behind. *)
LEMMA RunEnds ==
    ASSUME IInv, NEW w \in Runs, step[w] # "idle", End(w), baseline' >= baseline,
           baseline' \in Ids
    PROVE  RunsInv'
<1>1. TypeOK /\ RunTypes /\ baseline \in Nat /\ baseline' \in Nat
  BY Types, Sizes DEF IInv, TypeOK
<1>2. /\ step' = [step EXCEPT ![w] = "idle"]
      /\ base' = [base EXCEPT ![w] = FirstBaseline]
      /\ seen' = [seen EXCEPT ![w] = 0]
      /\ listed' = [listed EXCEPT ![w] = <<>>]
      /\ plan' = [plan EXCEPT ![w] = <<>>]
      /\ at' = [at EXCEPT ![w] = 1]
  BY DEF End, Goto, Clear
<1>3. \A v \in Runs : step'[v] = "idle"
  BY <1>1, <1>2, OthersAreIdle DEF RunTypes
<1>4. RunTypes'
  <2>1. <<>> \in Seq(Ids) /\ "idle" \in Steps
    BY DEF Steps
  <2> QED BY <1>1, <1>2, <1>3, <2>1, Sizes DEF RunTypes
<1>5. Alone'
  BY <1>3 DEF Alone
<1>6. \A v \in Runs : RunInv(v)'
  BY <1>1, <1>2, <1>3, OthersAreIdle DEF RunInv, RunTypes, IInv
<1>7. \A v \in Runs : base'[v] <= baseline'
  <2>1. \A v \in Runs : base[v] <= baseline /\ base[v] \in Nat
    BY <1>1, Sizes DEF IInv, BaselinesAreBehind, RunTypes
  <2>2. FirstBaseline <= baseline'
    BY <1>1, Sizes DEF FirstBaseline
  <2> QED BY <1>1, <1>2, <2>1, <2>2 DEF RunTypes
<1> QED BY <1>4, <1>5, <1>6, <1>7 DEF RunsInv

(* A run that advances is at the next release of its plan, or done with it. *)
LEMMA RunAdvances ==
    ASSUME IInv, NEW w \in Runs, step[w] \in {"view", "create", "upload"},
           NEW again \in Steps \ {"idle"}, NEW next \in Steps \ {"idle"},
           Advance(w, again, next), UNCHANGED <<progress, baseline>>
    PROVE  /\ RunTypes'
           /\ Alone'
           /\ \A v \in Runs : base'[v] <= baseline'
           /\ \A v \in Runs : v # w => RunInv(v)'
           /\ \/ at[w] < Len(plan[w]) /\ at'[w] = at[w] + 1 /\ step'[w] = again
              \/ at[w] = Len(plan[w]) /\ at'[w] = 1 /\ step'[w] = next
<1>1. TypeOK /\ RunTypes
  BY Types DEF IInv
<1>2. at[w] \in DOMAIN plan[w] /\ plan[w] \in Seq(Ids)
  BY <1>1 DEF RunTypes
<1>3. UNCHANGED <<base, seen, listed, plan>>
  BY DEF progress
<1>4. \A v \in Runs : v # w => step[v] = "idle"
  BY OthersAreIdle
<1>5. CASE at[w] < Len(plan[w])
  <2>1. at' = [at EXCEPT ![w] = at[w] + 1] /\ step' = [step EXCEPT ![w] = again]
    BY <1>5 DEF Advance, Goto
  <2>2. at[w] + 1 \in DOMAIN plan[w] /\ at[w] + 1 \in Nat \ {0}
    BY <1>2, <1>5
  <2>3. RunTypes'
    BY <1>1, <1>3, <1>4, <2>1, <2>2 DEF RunTypes
  <2>4. \A v \in Runs : v # w => RunInv(v)'
    BY <1>1, <1>3, <1>4, <2>1 DEF RunTypes, RunInv, IInv
  <2> QED BY <1>1, <1>3, <1>4, <1>5, <2>1, <2>3, <2>4
          DEF RunTypes, Alone, IInv, BaselinesAreBehind
<1>6. CASE ~(at[w] < Len(plan[w]))
  <2>1. at' = [at EXCEPT ![w] = 1] /\ step' = [step EXCEPT ![w] = next]
    BY <1>6 DEF Advance, Goto
  <2>2. 1 \in DOMAIN plan[w] /\ at[w] = Len(plan[w])
    BY <1>2, <1>6
  <2>3. RunTypes'
    BY <1>1, <1>3, <1>4, <2>1, <2>2 DEF RunTypes
  <2>4. \A v \in Runs : v # w => RunInv(v)'
    BY <1>1, <1>3, <1>4, <2>1 DEF RunTypes, RunInv, IInv
  <2> QED BY <1>1, <1>3, <1>4, <2>1, <2>2, <2>3, <2>4
          DEF RunTypes, Alone, IInv, BaselinesAreBehind
<1> QED BY <1>5, <1>6

(***************************************************************************)
(* The inductive invariant in its parts: the runs, and what the mirror     *)
(* holds.                                                                  *)
(***************************************************************************)
MirrorInv ==
    /\ MirrorTypes
    /\ baseline <= published
    /\ pending <= baseline
    /\ CreatedIsTagged
    /\ NoReleaseIsSkipped
    /\ PassedReleasesAreWhole

LEMMA Parts == (IInv <=> RunsInv /\ MirrorInv) /\ (IInv' <=> RunsInv' /\ MirrorInv')
BY Types DEF IInv, RunsInv, MirrorInv, BaselinesAreBehind

(* What a run knows that is at a release of its plan. *)
LEMMA AtRelease ==
    ASSUME IInv, NEW w \in Runs, step[w] \in {"view", "tag", "create", "upload"}
    PROVE  /\ plan[w] \in Seq(Ids) /\ at[w] \in DOMAIN plan[w] /\ at[w] \in Nat
           /\ Release(w) \in Ids /\ Release(w) = plan[w][at[w]]
           /\ \A k \in DOMAIN plan[w] : plan[w][k] \in Ids
           /\ Planned(w) /\ Done(w)
<1>1. RunTypes /\ RunInv(w)
  BY Types DEF IInv
<1> QED BY <1>1 DEF RunTypes, RunInv, Release

-----------------------------------------------------------------------------
(* One lemma for each action: it keeps the invariant. *)
LEMMA KeptByPublishUpstream ==
    ASSUME IInv, PublishUpstream
    PROVE  IInv'
<1>1. TypeOK /\ RunsInv /\ MirrorInv
  BY Parts DEF IInv
<1>2. published' = published + 1 /\ published' \in Ids /\ published \in Nat
  BY <1>1, MirrorAssumption DEF TypeOK, PublishUpstream, Ids
<1>3. /\ UNCHANGED <<baseline, tags, releases, pending, step, base, seen, listed, plan, at>>
      /\ UNCHANGED <<failures, torn, late>>
  BY DEF PublishUpstream, mirror, progress, history
<1>4. MirrorInv'
  BY <1>1, <1>2, <1>3, Sizes
     DEF TypeOK, MirrorInv, MirrorTypes, CreatedIsTagged, NoReleaseIsSkipped,
         PassedReleasesAreWhole
<1>5. ASSUME NEW w \in Runs PROVE RunInv(w)'
  <2>1. RunInv(w) /\ listed[w] \in Seq(Ids) /\ plan[w] \in Seq(Ids) /\ seen[w] \in Nat
    BY <1>1 DEF RunsInv, TypeOK
  <2>2. Listing(w) => Listing(w)'
    <3>1. listed[w] # <<>> => listed[w][1] \in Nat
      BY <2>1, Ends, Sizes
    <3>2. baseline \in Nat /\ \A r \in Ids : r \in Nat
      BY <1>1, Sizes DEF TypeOK
    <3>3. \A r \in Ids : published' - seen'[w] < r => published - seen[w] < r
      <4>1. seen'[w] = seen[w] /\ seen[w] \in Nat /\ published' = published + 1
        BY <1>2, <1>3, <2>1
      <4> HIDE DEF Ids
      <4> QED BY <1>2, <3>2, <4>1
    <3>4. listed[w] # <<>> /\ listed[w][1] <= published => listed'[w][1] <= published'
      BY <1>2, <1>3, <3>1
    <3> QED BY <1>3, <3>3, <3>4 DEF Listing
  <2>3. Planned(w) => Planned(w)'
    <3>1. plan[w] # <<>> => plan[w][Len(plan[w])] \in Nat
      BY <2>1, Ends, Sizes
    <3> QED BY <1>2, <1>3, <2>1, <3>1 DEF Planned
  <2>4. Done(w) => Done(w)'
    BY <1>3 DEF Done, Mirrored, Release
  <2> QED BY <1>3, <2>1, <2>2, <2>3, <2>4 DEF RunInv
<1>6. RunsInv'
  BY <1>1, <1>3, <1>5 DEF RunsInv, RunTypes, Alone
<1> QED BY <1>4, <1>6, Parts

LEMMA KeptByTrigger ==
    ASSUME IInv, Trigger
    PROVE  IInv'
<1>1. TypeOK /\ RunsInv /\ MirrorInv
  BY Parts DEF IInv
<1>2. /\ UNCHANGED <<published, baseline, tags, releases, step, base, seen, listed, plan, at>>
      /\ UNCHANGED <<failures, torn, late>>
      /\ pending' = baseline
  BY DEF Trigger, mirror, progress, history
<1>3. MirrorInv'
  BY <1>1, <1>2, Sizes
     DEF TypeOK, MirrorInv, MirrorTypes, CreatedIsTagged, NoReleaseIsSkipped,
         PassedReleasesAreWhole
<1>4. RunsInv'
  BY <1>1, <1>2
     DEF RunsInv, RunTypes, Alone, RunInv, Listing, Planned, Done, Mirrored, Release
<1> QED BY <1>3, <1>4, Parts

LEMMA KeptByStart ==
    ASSUME IInv, NEW w \in Runs, Start(w)
    PROVE  IInv'
<1>1. TypeOK /\ RunsInv /\ MirrorInv
  BY Parts DEF IInv
<1>2. /\ UNCHANGED <<published, baseline, tags, releases, seen, listed, plan, at>>
      /\ UNCHANGED <<failures, torn, late>>
      /\ pending' = 0 /\ pending # 0
      /\ base' = [base EXCEPT ![w] = pending]
      /\ step' = [step EXCEPT ![w] = "list"]
      /\ \A v \in Runs : step[v] = "idle"
  BY DEF Start, MayStart, Goto, mirror, history
<1>3. MirrorInv'
  BY <1>1, <1>2, Sizes
     DEF TypeOK, MirrorInv, MirrorTypes, CreatedIsTagged, NoReleaseIsSkipped,
         PassedReleasesAreWhole
<1>4. RunTypes' /\ Alone'
  <2>1. pending \in Ids /\ "list" \in Steps
    BY <1>1, <1>2 DEF TypeOK, Steps
  <2> QED BY <1>1, <1>2, <2>1 DEF RunsInv, RunTypes, Alone
<1>5. \A v \in Runs : base'[v] <= baseline'
  BY <1>1, <1>2 DEF RunsInv, RunTypes, MirrorInv
<1>6. listed[w] = <<>> /\ seen[w] = 0 /\ at[w] = 1
  BY <1>1, <1>2 DEF RunsInv, RunInv
<1>7. \A v \in Runs : RunInv(v)'
  BY <1>1, <1>2, <1>6 DEF RunsInv, RunTypes, RunInv, Listing
<1> QED BY <1>3, <1>4, <1>5, <1>7, Parts DEF RunsInv

-----------------------------------------------------------------------------
(* Listing. *)
LEMMA Joined ==
    ASSUME NEW a \in Seq(Ids), NEW b \in Seq(Ids)
    PROVE  /\ a \o b \in Seq(Ids)
           /\ \A k \in DOMAIN a : k \in DOMAIN (a \o b) /\ (a \o b)[k] = a[k]
           /\ \A k \in DOMAIN b : Len(a) + k \in DOMAIN (a \o b) /\ (a \o b)[Len(a) + k] = b[k]
           /\ \A k \in DOMAIN (a \o b) :
                 \/ k \in DOMAIN a
                 \/ \E j \in DOMAIN b : k = Len(a) + j
<1>1. \A k \in DOMAIN (a \o b) : ~(k \in DOMAIN a) => k - Len(a) \in DOMAIN b
  OBVIOUS
<1> QED BY <1>1

(* A run that lists has its baseline still before it. *)
LEMMA BaselineIsAhead ==
    ASSUME IInv, NEW w \in Runs, step[w] = "list"
    PROVE  base[w] <= Rest(w)
<1>1. /\ base[w] \in Ids /\ baseline \in Nat /\ published \in Nat /\ seen[w] \in Nat
      /\ base[w] \in Nat /\ listed[w] \in Seq(Ids)
      /\ Listing(w) /\ base[w] <= baseline /\ baseline <= published
  BY Sizes DEF IInv, TypeOK, RunInv, BaselinesAreBehind
<1>2. CASE listed[w] = <<>>
  BY <1>1, <1>2 DEF Listing, Rest
<1>3. CASE listed[w] # <<>>
  <2>1. listed[w][1] \in Nat
    BY <1>1, <1>3, Ends, Sizes
  <2> SUFFICES ASSUME Rest(w) < base[w] PROVE FALSE
    BY <1>1 DEF Rest
  <2>2. base[w] <= listed[w][1]
    BY <1>1, <1>3, <2>1 DEF Listing
  <2> QED BY <1>1, <1>3, <2>2 DEF Listing, Rest
<1> QED BY <1>2, <1>3

(* The next page continues the list without a gap. *)
LEMMA PageContinues ==
    ASSUME IInv, NEW w \in Runs, step[w] = "list"
    PROVE  /\ Extended(w) \in Seq(Ids) /\ Extended(w) # <<>>
           /\ baseline <= Extended(w)[1] /\ Extended(w)[1] <= published
           /\ \A r \in Ids : Rest(w) < r /\ r <= Extended(w)[1] =>
                 \E k \in DOMAIN listed[w] : Extended(w)[k] = r
           /\ \A r \in Ids : r <= Rest(w) /\ Rest(w) - PageSize < r =>
                 \E k \in DOMAIN Page(w) :
                    k = Rest(w) - r + 1 /\ Extended(w)[Len(listed[w]) + k] = r
<1> DEFINE list == Extended(w)
           rest == Rest(w)
<1>1. /\ TypeOK /\ published \in Nat \ {0} /\ seen[w] \in Nat /\ listed[w] \in Seq(Ids)
      /\ Listing(w) /\ baseline <= published /\ PageSize \in Nat \ {0} /\ rest \in Int
  BY Sizes, MirrorAssumption DEF IInv, TypeOK, RunInv, BaselinesAreBehind, Rest
<1>2. /\ Page(w) \in Seq(Ids)
      /\ \A k \in DOMAIN Page(w) :
            k \in Nat \ {0} /\ k <= rest /\ k <= PageSize /\ Page(w)[k] = rest - k + 1
      /\ \A k \in Nat \ {0} : k <= rest /\ k <= PageSize => k \in DOMAIN Page(w)
  BY <1>1, PageContents
<1>3. /\ list \in Seq(Ids)
      /\ \A k \in DOMAIN listed[w] : k \in DOMAIN list /\ list[k] = listed[w][k]
      /\ \A k \in DOMAIN Page(w) :
            Len(listed[w]) + k \in DOMAIN list /\ list[Len(listed[w]) + k] = Page(w)[k]
  BY <1>1, <1>2, Joined DEF Extended
<1>4. \A r \in Ids : r <= rest /\ rest - PageSize < r =>
         \E k \in DOMAIN Page(w) : k = rest - r + 1 /\ list[Len(listed[w]) + k] = r
  <2> SUFFICES ASSUME NEW r \in Ids, r <= rest, rest - PageSize < r
               PROVE  rest - r + 1 \in DOMAIN Page(w)
                      /\ list[Len(listed[w]) + (rest - r + 1)] = r
    OBVIOUS
  <2>1. r \in Nat \ {0}
    BY Sizes
  <2>2. rest - r + 1 \in Nat \ {0} /\ rest - r + 1 <= rest /\ rest - r + 1 <= PageSize
    BY <1>1, <2>1
  <2>3. rest - (rest - r + 1) + 1 = r
    BY <1>1, <2>1
  <2> QED BY <1>2, <1>3, <2>2, <2>3
<1>5. CASE listed[w] = <<>>
  <2>1. rest = published /\ 1 \in DOMAIN Page(w) /\ Page(w)[1] = published
    BY <1>1, <1>2, <1>5 DEF Listing, Rest
  <2>2. Len(listed[w]) = 0 /\ list[1] = published /\ 1 \in DOMAIN list
    BY <1>3, <1>5, <2>1
  <2>3. \A r \in Ids : ~(rest < r /\ r <= list[1])
    BY <1>1, <2>1, <2>2, Sizes
  <2>4. list # <<>> /\ baseline <= list[1] /\ list[1] <= published
    BY <1>1, <2>2
  <2> HIDE DEF Ids
  <2> QED BY <1>3, <1>4, <2>3, <2>4
<1>6. CASE listed[w] # <<>>
  <2>1. 1 \in DOMAIN listed[w] /\ list[1] = listed[w][1] /\ 1 \in DOMAIN list
    BY <1>1, <1>3, <1>6, Ends
  <2>2. \A r \in Ids : rest < r /\ r <= list[1] => \E k \in DOMAIN listed[w] : list[k] = r
    BY <1>1, <1>3, <1>6, <2>1 DEF Listing, Rest
  <2> QED BY <1>1, <1>3, <1>4, <1>6, <2>1, <2>2 DEF Listing
<1> QED BY <1>5, <1>6

LEMMA KeptByListPage ==
    ASSUME IInv, NEW w \in Runs, ListPage(w)
    PROVE  IInv'
<1> DEFINE rest == Rest(w)
           list == Extended(w)
<1>1. /\ TypeOK /\ RunsInv /\ MirrorInv /\ step[w] = "list" /\ RunInv(w)
      /\ published \in Nat /\ seen[w] \in Nat /\ PageSize \in Nat \ {0}
      /\ listed[w] \in Seq(Ids) /\ rest \in Int
  <2>1. TypeOK /\ RunsInv /\ MirrorInv /\ step[w] = "list"
    BY Parts DEF IInv, ListPage
  <2>2. RunInv(w)
    BY <2>1 DEF RunsInv
  <2> QED BY <2>1, <2>2, MirrorAssumption, Sizes DEF TypeOK, Rest
<1>2. /\ UNCHANGED <<published, baseline, tags, releases, pending>>
      /\ UNCHANGED <<step, base, plan, at, failures, torn, late>>
      /\ seen' = [seen EXCEPT ![w] = @ + PageSize]
      /\ listed' = [listed EXCEPT ![w] = list]
      /\ \A k \in DOMAIN Page(w) : Page(w)[k] # base[w]
  BY DEF ListPage, mirror, history, Extended
<1>3. /\ list \in Seq(Ids) /\ list # <<>>
      /\ baseline <= list[1] /\ list[1] <= published
      /\ \A r \in Ids : rest < r /\ r <= list[1] =>
            \E k \in DOMAIN listed[w] : list[k] = r
      /\ \A r \in Ids : r <= rest /\ rest - PageSize < r =>
            \E k \in DOMAIN Page(w) : k = rest - r + 1 /\ list[Len(listed[w]) + k] = r
  BY <1>1, PageContinues
<1>4. /\ \A k \in DOMAIN listed[w] : k \in DOMAIN list /\ list[k] = listed[w][k]
      /\ \A k \in DOMAIN Page(w) :
            Len(listed[w]) + k \in DOMAIN list /\ list[Len(listed[w]) + k] = Page(w)[k]
      /\ \A k \in DOMAIN list :
            k \in DOMAIN listed[w] \/ \E j \in DOMAIN Page(w) : k = Len(listed[w]) + j
  BY <1>1, PageContents, Joined DEF Extended
<1> HIDE DEF list
<1>5. MirrorInv'
  BY <1>1, <1>2
     DEF MirrorInv, MirrorTypes, CreatedIsTagged, NoReleaseIsSkipped, PassedReleasesAreWhole
<1>6. RunTypes' /\ Alone' /\ \A v \in Runs : base'[v] <= baseline'
  <2>1. seen[w] + PageSize \in Nat
    BY <1>1
  <2> QED BY <1>1, <1>2, <1>3, <2>1 DEF RunsInv, RunTypes, Alone
<1>7. listed'[w] = list /\ seen'[w] = seen[w] + PageSize /\ published - seen'[w] = rest - PageSize
  BY <1>1, <1>2 DEF TypeOK, Rest
<1>8. Listing(w)'
  <2>1. \A k \in DOMAIN list : list[k] # base[w]
    BY <1>1, <1>2, <1>4 DEF RunInv, Listing
  <2>2. ASSUME NEW r \in Ids, rest - PageSize < r, r <= list[1]
        PROVE  \E k \in DOMAIN list : list[k] = r
    <3>1. r \in Nat /\ rest \in Int
      BY <1>1, Sizes
    <3>2. CASE rest < r
      BY <1>3, <1>4, <2>2, <3>2
    <3>3. CASE r <= rest
      BY <1>3, <1>4, <2>2, <3>3
    <3> QED BY <3>1, <3>2, <3>3
  <2> QED BY <1>2, <1>3, <1>7, <2>1, <2>2 DEF Listing
<1>9. \A v \in Runs : RunInv(v)'
  <2>1. RunInv(w)'
    BY <1>1, <1>2, <1>8 DEF RunInv
  <2>2. ASSUME NEW v \in Runs, v # w PROVE RunInv(v)'
    <3>1. step[v] = "idle" /\ RunInv(v)
      BY <1>1, <2>2, OthersAreIdle DEF RunsInv
    <3> QED BY <1>1, <1>2, <2>2, <3>1 DEF RunInv, TypeOK
  <2> QED BY <2>1, <2>2
<1> QED BY <1>5, <1>6, <1>9, Parts DEF RunsInv

LEMMA KeptByListLastPage ==
    ASSUME IInv, NEW w \in Runs, ListLastPage(w)
    PROVE  IInv'
<1> DEFINE rest == Rest(w)
           list == Extended(w)
           planned == Behind(list, base[w])
<1>1. /\ TypeOK /\ RunsInv /\ MirrorInv /\ step[w] = "list" /\ RunInv(w)
      /\ published \in Nat /\ seen[w] \in Nat /\ PageSize \in Nat \ {0}
      /\ listed[w] \in Seq(Ids) /\ base[w] \in Nat /\ rest \in Int
  <2>1. TypeOK /\ RunsInv /\ MirrorInv /\ step[w] = "list"
    BY Parts DEF IInv, ListLastPage
  <2>2. RunInv(w)
    BY <2>1 DEF RunsInv
  <2>3. base[w] \in Nat
    BY <2>1, Sizes DEF TypeOK
  <2>4. published \in Nat /\ seen[w] \in Nat /\ rest \in Int
    BY <2>1, Sizes DEF TypeOK, Rest
  <2> QED BY <2>1, <2>2, <2>3, <2>4, MirrorAssumption DEF TypeOK
<1>2. /\ UNCHANGED <<published, baseline, tags, releases, pending>>
      /\ UNCHANGED <<base, at, failures, torn, late>>
      /\ step' = [step EXCEPT ![w] = "view"]
      /\ seen' = [seen EXCEPT ![w] = 0]
      /\ listed' = [listed EXCEPT ![w] = <<>>]
      /\ plan' = [plan EXCEPT ![w] = planned]
      /\ planned # <<>>
  BY DEF ListLastPage, Goto, mirror, history, Extended
<1>3. PICK j \in DOMAIN Page(w) : Page(w)[j] = base[w]
  BY DEF ListLastPage
<1>4. /\ Page(w) \in Seq(Ids)
      /\ \A k \in DOMAIN Page(w) :
            k \in Nat \ {0} /\ k <= rest /\ k <= PageSize /\ Page(w)[k] = rest - k + 1
  BY <1>1, PageContents
<1>5. /\ list \in Seq(Ids) /\ list # <<>>
      /\ baseline <= list[1] /\ list[1] <= published
      /\ \A r \in Ids : rest < r /\ r <= list[1] =>
            \E k \in DOMAIN listed[w] : list[k] = r
      /\ \A r \in Ids : r <= rest /\ rest - PageSize < r =>
            \E k \in DOMAIN Page(w) : k = rest - r + 1 /\ list[Len(listed[w]) + k] = r
  BY <1>1, PageContinues
<1>6. /\ \A k \in DOMAIN listed[w] : k \in DOMAIN list /\ list[k] = listed[w][k]
      /\ \A k \in DOMAIN Page(w) :
            Len(listed[w]) + k \in DOMAIN list /\ list[Len(listed[w]) + k] = Page(w)[k]
      /\ \A k \in DOMAIN list :
            k \in DOMAIN listed[w] \/ \E i \in DOMAIN Page(w) : k = Len(listed[w]) + i
  BY <1>1, <1>4, Joined DEF Extended
<1> DEFINE end == Len(listed[w]) + j
<1> HIDE DEF list
<1>7. end \in DOMAIN list /\ list[end] = base[w]
  BY <1>3, <1>6
<1>8. \A k \in DOMAIN list : list[k] = base[w] => k = end
  <2>1. \A k \in DOMAIN listed[w] : list[k] # base[w]
    BY <1>1, <1>6 DEF RunInv, Listing
  <2>2. \A i \in DOMAIN Page(w) : Page(w)[i] = base[w] => i = j
    BY <1>1, <1>3, <1>4
  <2> QED BY <1>6, <2>1, <2>2
<1>9. /\ planned \in Seq(Ids)
      /\ Len(planned) = end - 1
      /\ \A k \in 1..(end - 1) : planned[k] = list[end - k]
  BY <1>5, <1>7, <1>8, BehindOnce
<1>10. end \in Nat /\ end > 1 /\ DOMAIN planned = 1..(end - 1)
  BY <1>1, <1>2, <1>4, <1>9
<1> HIDE DEF planned
<1>11. planned[Len(planned)] = list[1]
  BY <1>9, <1>10
<1>12. ASSUME NEW r \in Ids, base[w] < r, r <= list[1]
       PROVE  \E k \in DOMAIN planned : planned[k] = r
  <2>1. r \in Nat /\ rest \in Int /\ Len(listed[w]) \in Nat /\ j \in Nat \ {0}
    BY <1>1, <1>4, Sizes
  <2>2. \E k \in 1..(end - 1) : list[k] = r
    <3>1. CASE rest < r
      <4>1. PICK k \in DOMAIN listed[w] : list[k] = r
        BY <1>5, <1>12, <3>1
      <4> QED BY <1>1, <2>1, <4>1
    <3>2. CASE r <= rest
      <4>1. rest - j + 1 = base[w] /\ j <= PageSize
        BY <1>3, <1>4
      <4>2. rest - PageSize < r /\ rest - r + 1 < j /\ rest - r + 1 >= 1
        BY <1>1, <1>12, <2>1, <3>2, <4>1
      <4>3. list[Len(listed[w]) + (rest - r + 1)] = r
        BY <1>5, <3>2, <4>2
      <4> QED BY <2>1, <4>2, <4>3
    <3> QED BY <2>1, <3>1, <3>2
  <2>3. PICK k \in 1..(end - 1) : list[k] = r
    BY <2>2
  <2>4. end - k \in 1..(end - 1) /\ end - (end - k) = k
    BY <1>10
  <2> QED BY <1>9, <1>10, <2>3, <2>4
<1>13. MirrorInv'
  BY <1>1, <1>2
     DEF MirrorInv, MirrorTypes, CreatedIsTagged, NoReleaseIsSkipped, PassedReleasesAreWhole
<1>14. at[w] = 1
  BY <1>1 DEF RunInv
<1>15. RunTypes' /\ Alone' /\ \A v \in Runs : base'[v] <= baseline'
  <2>1. <<>> \in Seq(Ids) /\ "view" \in Steps /\ 1 \in DOMAIN planned
    BY <1>10 DEF Steps
  <2>2. \A v \in Runs : v # w => step[v] = "idle"
    BY <1>1, OthersAreIdle
  <2> QED BY <1>1, <1>2, <1>9, <1>14, <2>1, <2>2 DEF RunsInv, RunTypes, Alone
<1>16. plan'[w] = planned /\ step'[w] = "view"
  BY <1>1, <1>2 DEF TypeOK
<1>17. \A v \in Runs : RunInv(v)'
  <2>1. Planned(w)'
    BY <1>2, <1>5, <1>11, <1>12, <1>16 DEF Planned
  <2>2. Done(w)'
    BY <1>2, <1>9, <1>10, <1>14, <1>16 DEF Done
  <2>3. RunInv(w)'
    BY <1>16, <2>1, <2>2 DEF RunInv
  <2>4. ASSUME NEW v \in Runs, v # w PROVE RunInv(v)'
    <3>1. step[v] = "idle" /\ RunInv(v)
      BY <1>1, <2>4, OthersAreIdle DEF RunsInv
    <3> QED BY <1>1, <1>2, <2>4, <3>1 DEF RunInv, TypeOK
  <2> QED BY <2>3, <2>4
<1> QED BY <1>13, <1>15, <1>17, Parts DEF RunsInv

LEMMA KeptByListNothingNew ==
    ASSUME IInv, NEW w \in Runs, ListNothingNew(w)
    PROVE  IInv'
<1>1. MirrorInv /\ baseline \in Nat /\ baseline \in Ids
  BY Parts, Sizes DEF MirrorInv, MirrorTypes
<1>2. /\ UNCHANGED <<published, baseline, tags, releases, pending, failures, torn, late>>
      /\ step[w] # "idle" /\ End(w)
  BY DEF ListNothingNew, mirror, history
<1>3. RunsInv'
  BY <1>1, <1>2, RunEnds
<1>4. MirrorInv'
  BY <1>1, <1>2
     DEF MirrorInv, MirrorTypes, CreatedIsTagged, NoReleaseIsSkipped, PassedReleasesAreWhole
<1> QED BY <1>3, <1>4, Parts

-----------------------------------------------------------------------------
(* One release of the plan after the other. *)
LEMMA KeptByRetainRelease ==
    ASSUME IInv, NEW w \in Runs, RetainRelease(w)
    PROVE  IInv'
<1>1. /\ RunsInv /\ MirrorInv /\ step[w] = "view" /\ Advance(w, "view", "upload")
      /\ "view" \in Steps \ {"idle"} /\ "upload" \in Steps \ {"idle"}
  BY Parts DEF RetainRelease, Steps
<1>2. /\ UNCHANGED <<published, baseline, tags, releases, pending, failures, torn, late>>
      /\ UNCHANGED progress /\ UNCHANGED <<base, seen, listed, plan>>
  BY DEF RetainRelease, mirror, history, progress
<1>3. /\ plan[w] \in Seq(Ids) /\ at[w] \in DOMAIN plan[w] /\ at[w] \in Nat
      /\ Release(w) \in Ids /\ Release(w) = plan[w][at[w]]
      /\ Planned(w) /\ Done(w)
  BY <1>1, AtRelease
<1>4. Mirrored(Release(w))
  BY <1>1, <1>3 DEF RetainRelease, Mirrored, MirrorInv, CreatedIsTagged
<1>5. /\ RunTypes' /\ Alone' /\ (\A v \in Runs : base'[v] <= baseline')
      /\ \A v \in Runs : v # w => RunInv(v)'
      /\ \/ at[w] < Len(plan[w]) /\ at'[w] = at[w] + 1 /\ step'[w] = "view"
         \/ at[w] = Len(plan[w]) /\ at'[w] = 1 /\ step'[w] = "upload"
  BY <1>1, <1>2, RunAdvances
<1>6. MirrorInv'
  BY <1>1, <1>2
     DEF MirrorInv, MirrorTypes, CreatedIsTagged, NoReleaseIsSkipped, PassedReleasesAreWhole
<1>7. Planned(w)'
  BY <1>2, <1>3 DEF Planned
<1>8. Done(w)'
  <2>1. \A k \in DOMAIN plan[w] : k <= at[w] => Mirrored(plan[w][k])
    BY <1>1, <1>3, <1>4 DEF Done
  <2>2. \A r : Mirrored(r)' <=> Mirrored(r)
    BY <1>2 DEF Mirrored
  <2> QED BY <1>2, <1>3, <1>5, <2>1, <2>2 DEF Done
<1>9. RunInv(w)'
  BY <1>5, <1>7, <1>8 DEF RunInv
<1> QED BY <1>5, <1>6, <1>9, Parts DEF RunsInv

LEMMA KeptByFindNoRelease ==
    ASSUME IInv, NEW w \in Runs, FindNoRelease(w)
    PROVE  IInv'
<1>1. RunsInv /\ MirrorInv /\ step[w] = "view" /\ "tag" \in Steps
  BY Parts DEF FindNoRelease, Steps
<1>2. /\ UNCHANGED <<published, baseline, tags, releases, pending, failures, torn, late>>
      /\ UNCHANGED <<base, seen, listed, plan, at>>
      /\ step' = [step EXCEPT ![w] = "tag"]
  BY DEF FindNoRelease, Goto, mirror, history, progress
<1>3. MirrorInv'
  BY <1>1, <1>2
     DEF MirrorInv, MirrorTypes, CreatedIsTagged, NoReleaseIsSkipped, PassedReleasesAreWhole
<1>4. RunTypes' /\ Alone' /\ \A v \in Runs : base'[v] <= baseline'
  BY <1>1, <1>2 DEF RunsInv, RunTypes, Alone
<1>5. \A v \in Runs : RunInv(v)'
  BY <1>1, <1>2 DEF RunsInv, RunTypes, RunInv, Listing, Planned, Done, Mirrored, Release
<1> QED BY <1>3, <1>4, <1>5, Parts DEF RunsInv

LEMMA KeptByPushTag ==
    ASSUME IInv, NEW w \in Runs, PushTag(w)
    PROVE  IInv'
<1>1. /\ RunsInv /\ MirrorInv /\ step[w] = "tag" /\ "create" \in Steps
      /\ Release(w) \in Ids
  BY Parts, AtRelease DEF PushTag, Steps
<1>2. /\ UNCHANGED <<published, baseline, releases, pending, failures, torn, late>>
      /\ UNCHANGED <<base, seen, listed, plan, at>>
      /\ step' = [step EXCEPT ![w] = "create"]
      /\ tags' = tags \cup {Release(w)}
  BY DEF PushTag, Goto, history, progress
<1>3. MirrorInv'
  BY <1>1, <1>2
     DEF MirrorInv, MirrorTypes, CreatedIsTagged, NoReleaseIsSkipped, PassedReleasesAreWhole
<1>4. RunTypes' /\ Alone' /\ \A v \in Runs : base'[v] <= baseline'
  BY <1>1, <1>2 DEF RunsInv, RunTypes, Alone
<1>5. \A v \in Runs : RunInv(v)'
  BY <1>1, <1>2 DEF RunsInv, RunTypes, RunInv, Listing, Planned, Done, Mirrored, Release
<1> QED BY <1>3, <1>4, <1>5, Parts DEF RunsInv

LEMMA KeptByCreateRelease ==
    ASSUME IInv, NEW w \in Runs, CreateRelease(w)
    PROVE  IInv'
<1>1. /\ RunsInv /\ MirrorInv /\ step[w] = "create" /\ Advance(w, "view", "upload")
      /\ "view" \in Steps \ {"idle"} /\ "upload" \in Steps \ {"idle"}
  BY Parts DEF CreateRelease, Steps
<1>2. /\ UNCHANGED <<published, baseline, tags, pending, failures, torn, late>>
      /\ UNCHANGED progress /\ UNCHANGED <<base, seen, listed, plan>>
      /\ releases[Release(w)] = None
      /\ releases' = [releases EXCEPT ![Release(w)] = Archives]
  BY DEF CreateRelease, history, progress
<1>3. /\ plan[w] \in Seq(Ids) /\ at[w] \in DOMAIN plan[w] /\ at[w] \in Nat
      /\ Release(w) \in Ids /\ Release(w) = plan[w][at[w]]
      /\ (\A k \in DOMAIN plan[w] : plan[w][k] \in Ids)
      /\ Planned(w) /\ Done(w)
  BY <1>1, AtRelease
<1>4. /\ RunTypes' /\ Alone' /\ (\A v \in Runs : base'[v] <= baseline')
      /\ \A v \in Runs : v # w => RunInv(v)'
      /\ \/ at[w] < Len(plan[w]) /\ at'[w] = at[w] + 1 /\ step'[w] = "view"
         \/ at[w] = Len(plan[w]) /\ at'[w] = 1 /\ step'[w] = "upload"
  BY <1>1, <1>2, RunAdvances
<1>5. /\ releases'[Release(w)] = Archives
      /\ \A r \in Ids : r # Release(w) => releases'[r] = releases[r]
  BY <1>1, <1>2, <1>3 DEF MirrorInv, MirrorTypes
<1>6. Release(w) \in tags /\ Archives # None
  BY <1>1, <1>3, Sizes DEF Done
<1>7. MirrorInv'
  <2>1. MirrorTypes'
    BY <1>1, <1>2, <1>3, Sizes DEF MirrorInv, MirrorTypes
  <2>2. CreatedIsTagged'
    BY <1>1, <1>2, <1>5, <1>6 DEF MirrorInv, CreatedIsTagged
  <2>3. NoReleaseIsSkipped'
    BY <1>1, <1>2, <1>5, <1>6 DEF MirrorInv, NoReleaseIsSkipped
  <2>4. PassedReleasesAreWhole'
    BY <1>1, <1>2, <1>3, <1>5
       DEF MirrorInv, NoReleaseIsSkipped, PassedReleasesAreWhole
  <2> QED BY <1>1, <1>2, <2>1, <2>2, <2>3, <2>4 DEF MirrorInv
<1>8. Planned(w)'
  BY <1>2, <1>3 DEF Planned
<1>9. Done(w)'
  <2>1. \A r \in Ids : Mirrored(r) \/ r = Release(w) => Mirrored(r)'
    BY <1>2, <1>5, <1>6 DEF Mirrored
  <2>2. \A k \in DOMAIN plan[w] : k <= at[w] => k < at[w] \/ k = at[w]
    BY <1>3
  <2>3. \A k \in DOMAIN plan[w] : k < at[w] => Mirrored(plan[w][k])
    BY <1>1, <1>3 DEF Done
  <2>4. \A k \in DOMAIN plan[w] : k <= at[w] => Mirrored(plan[w][k])'
    <3> SUFFICES ASSUME NEW k \in DOMAIN plan[w], k <= at[w]
                 PROVE  Mirrored(plan[w][k])'
      OBVIOUS
    <3>1. plan'[w][k] = plan[w][k] /\ plan[w][k] \in Ids
      BY <1>2, <1>3
    <3>2. Mirrored(plan[w][k]) \/ plan[w][k] = Release(w)
      BY <1>3, <2>2, <2>3
    <3> QED BY <1>2, <1>5, <1>6, <3>1, <3>2 DEF Mirrored
  <2> QED BY <1>2, <1>3, <1>4, <2>4 DEF Done
<1>10. RunInv(w)'
  BY <1>4, <1>8, <1>9 DEF RunInv
<1> QED BY <1>4, <1>7, <1>10, Parts DEF RunsInv

LEMMA KeptByUploadMacBundle ==
    ASSUME IInv, NEW w \in Runs, UploadMacBundle(w)
    PROVE  IInv'
<1>1. /\ RunsInv /\ MirrorInv /\ step[w] = "upload" /\ Advance(w, "upload", "record")
      /\ "upload" \in Steps \ {"idle"} /\ "record" \in Steps \ {"idle"}
  BY Parts DEF UploadMacBundle, Steps
<1>2. /\ UNCHANGED <<published, baseline, tags, pending, failures, torn>>
      /\ UNCHANGED progress /\ UNCHANGED <<base, seen, listed, plan>>
      /\ releases' = [releases EXCEPT ![Release(w)] = @ \cup {MacBundle}]
      /\ late' = late \ {Release(w)}
  BY DEF UploadMacBundle, progress
<1>3. /\ plan[w] \in Seq(Ids) /\ at[w] \in DOMAIN plan[w] /\ at[w] \in Nat
      /\ Release(w) \in Ids /\ Release(w) = plan[w][at[w]]
      /\ (\A k \in DOMAIN plan[w] : plan[w][k] \in Ids)
      /\ Planned(w) /\ Done(w)
  BY <1>1, AtRelease
<1>4. /\ RunTypes' /\ Alone' /\ (\A v \in Runs : base'[v] <= baseline')
      /\ \A v \in Runs : v # w => RunInv(v)'
      /\ \/ at[w] < Len(plan[w]) /\ at'[w] = at[w] + 1 /\ step'[w] = "upload"
         \/ at[w] = Len(plan[w]) /\ at'[w] = 1 /\ step'[w] = "record"
  BY <1>1, <1>2, RunAdvances
<1>5. /\ releases'[Release(w)] = releases[Release(w)] \cup {MacBundle}
      /\ \A r \in Ids : r # Release(w) => releases'[r] = releases[r]
  BY <1>1, <1>2, <1>3 DEF MirrorInv, MirrorTypes
<1>6. /\ \A k \in DOMAIN plan[w] : Mirrored(plan[w][k])
      /\ releases[Release(w)] \in SUBSET Bundles
  <2>1. \A k \in DOMAIN plan[w] : Mirrored(plan[w][k])
    BY <1>1, <1>3 DEF Done
  <2>2. releases[Release(w)] # None
    BY <1>3, <2>1 DEF Mirrored
  <2>3. releases[Release(w)] \in (SUBSET Bundles) \cup {None}
    BY <1>1, <1>3 DEF MirrorInv, MirrorTypes
  <2> QED BY <2>1, <2>2, <2>3
<1>7. releases'[Release(w)] \in SUBSET Bundles /\ releases'[Release(w)] # None
  BY <1>5, <1>6, Sizes
<1>8. MirrorInv'
  <2>1. MirrorTypes'
    BY <1>1, <1>2, <1>3, <1>5, <1>7 DEF MirrorInv, MirrorTypes
  <2>2. CreatedIsTagged'
    BY <1>1, <1>2, <1>3, <1>5, <1>6 DEF MirrorInv, CreatedIsTagged, Mirrored
  <2>3. NoReleaseIsSkipped'
    BY <1>1, <1>2, <1>5, <1>7 DEF MirrorInv, NoReleaseIsSkipped
  <2>4. PassedReleasesAreWhole'
    BY <1>1, <1>2, <1>5 DEF MirrorInv, PassedReleasesAreWhole
  <2> QED BY <1>1, <1>2, <2>1, <2>2, <2>3, <2>4 DEF MirrorInv
<1>9. Planned(w)'
  BY <1>2, <1>3 DEF Planned
<1>10. Done(w)'
  <2>1. \A k \in DOMAIN plan[w] : Mirrored(plan[w][k])'
    BY <1>2, <1>3, <1>5, <1>6, <1>7 DEF Mirrored
  <2>2. \A r \in Ids : MacBundle \in releases[r] \/ r = Release(w) => MacBundle \in releases'[r]
    BY <1>5
  <2>3. \A k \in DOMAIN plan[w] : k <= at[w] => MacBundle \in releases'[plan[w][k]]
    BY <1>1, <1>3, <2>2 DEF Done
  <2> QED BY <1>2, <1>3, <1>4, <2>1, <2>3 DEF Done
<1>11. RunInv(w)'
  BY <1>4, <1>9, <1>10 DEF RunInv
<1> QED BY <1>4, <1>8, <1>11, Parts DEF RunsInv

(* The plan reaches as far as the baseline does, and all of it is mirrored. *)
LEMMA RecordedIsMirrored ==
    ASSUME IInv, NEW w \in Runs, RecordBaseline(w)
    PROVE  /\ baseline' \in Ids /\ baseline <= baseline' /\ baseline' <= published
           /\ \A r \in Ids : baseline < r /\ r <= baseline' =>
                 Mirrored(r) /\ MacBundle \in releases[r]
<1>1. /\ step[w] = "record" /\ RunInv(w) /\ baseline \in Nat /\ base[w] \in Nat
      /\ plan[w] \in Seq(Ids) /\ base[w] <= baseline
      /\ baseline' = plan[w][Len(plan[w])]
  BY Sizes DEF RecordBaseline, IInv, TypeOK, BaselinesAreBehind
<1>2. Planned(w) /\ Done(w)
  BY <1>1 DEF RunInv
<1>3. baseline' \in Ids /\ baseline <= baseline' /\ baseline' <= published
  BY <1>1, <1>2, Ends DEF Planned
<1>4. ASSUME NEW r \in Ids, baseline < r, r <= baseline'
      PROVE  Mirrored(r) /\ MacBundle \in releases[r]
  <2>1. base[w] < r
    BY <1>1, <1>4, Sizes
  <2>2. \E k \in DOMAIN plan[w] : plan[w][k] = r
    BY <1>1, <1>2, <1>4, <2>1 DEF Planned
  <2> QED BY <1>1, <1>2, <2>2 DEF Done
<1> QED BY <1>3, <1>4

LEMMA KeptByRecordBaseline ==
    ASSUME IInv, NEW w \in Runs, RecordBaseline(w)
    PROVE  IInv'
<1>1. RunsInv /\ MirrorInv /\ baseline \in Nat /\ published \in Nat /\ pending \in Nat
  <2>1. RunsInv /\ MirrorInv
    BY Parts
  <2>2. baseline \in Ids /\ published \in Ids /\ pending \in Ids \cup {0}
    BY <2>1 DEF MirrorInv, MirrorTypes
  <2> QED BY <2>1, <2>2, Sizes
<1>2. /\ UNCHANGED <<published, tags, releases, pending, failures, torn, late>>
      /\ step[w] # "idle" /\ End(w)
  BY DEF RecordBaseline, history
<1>3. /\ baseline' \in Ids /\ baseline' \in Nat
      /\ baseline <= baseline' /\ baseline' <= published
      /\ \A r \in Ids : baseline < r /\ r <= baseline' =>
            Mirrored(r) /\ MacBundle \in releases[r]
  BY RecordedIsMirrored, Sizes
<1>4. RunsInv'
  BY <1>1, <1>2, <1>3, RunEnds
<1>5. MirrorInv'
  <2>1. MirrorTypes' /\ CreatedIsTagged' /\ baseline' <= published' /\ pending' <= baseline'
    BY <1>1, <1>2, <1>3 DEF MirrorInv, MirrorTypes, CreatedIsTagged
  <2>2. \A r \in Ids : r <= baseline' => r <= baseline \/ baseline < r
    BY <1>1, Sizes
  <2>3. NoReleaseIsSkipped'
    BY <1>1, <1>2, <1>3, <2>2 DEF MirrorInv, NoReleaseIsSkipped, Mirrored
  <2>4. PassedReleasesAreWhole'
    BY <1>1, <1>2, <1>3, <2>2
       DEF MirrorInv, PassedReleasesAreWhole, CreatedIsTagged, Mirrored
  <2> QED BY <2>1, <2>3, <2>4 DEF MirrorInv
<1> QED BY <1>4, <1>5, Parts

-----------------------------------------------------------------------------
(* Runs that fail. *)
LEMMA FailureIsCounted ==
    ASSUME IInv, NEW w \in Runs, Fails(w), step[w] # "idle", UNCHANGED baseline
    PROVE  RunsInv' /\ failures' \in 0..MaxFailures
<1>1. baseline \in Nat /\ baseline \in Ids /\ failures \in 0..MaxFailures
  BY Sizes DEF IInv, TypeOK
<1>2. failures' \in 0..MaxFailures
  BY <1>1, MirrorAssumption DEF Fails
<1>3. RunsInv'
  BY <1>1, RunEnds DEF Fails
<1> QED BY <1>2, <1>3

LEMMA KeptByStopRun ==
    ASSUME IInv, NEW w \in Runs, StopRun(w)
    PROVE  IInv'
<1>1. MirrorInv
  BY Parts
<1>2. UNCHANGED <<published, baseline, tags, releases, pending, torn, late>>
  BY DEF StopRun, mirror
<1>3. RunsInv' /\ failures' \in 0..MaxFailures
  BY <1>2, FailureIsCounted DEF StopRun
<1>4. MirrorInv'
  BY <1>1, <1>2, <1>3
     DEF MirrorInv, MirrorTypes, CreatedIsTagged, NoReleaseIsSkipped, PassedReleasesAreWhole
<1> QED BY <1>3, <1>4, Parts

LEMMA KeptByMissRelease ==
    ASSUME IInv, NEW w \in Runs, MissRelease(w)
    PROVE  IInv'
<1>1. MirrorInv /\ Release(w) \in Ids
  BY Parts, AtRelease DEF MissRelease
<1>2. /\ UNCHANGED <<published, baseline, releases, pending, torn, late>>
      /\ tags' = tags \cup {Release(w)}
  BY DEF MissRelease
<1>3. RunsInv' /\ failures' \in 0..MaxFailures
  BY <1>2, FailureIsCounted DEF MissRelease
<1>4. MirrorInv'
  BY <1>1, <1>2, <1>3
     DEF MirrorInv, MirrorTypes, CreatedIsTagged, NoReleaseIsSkipped, PassedReleasesAreWhole
<1> QED BY <1>3, <1>4, Parts

LEMMA KeptByCreateIsInterrupted ==
    ASSUME IInv, NEW w \in Runs, CreateIsInterrupted(w)
    PROVE  IInv'
<1>1. MirrorInv /\ Release(w) \in Ids /\ Release(w) \in tags
  BY Parts, AtRelease DEF CreateIsInterrupted, Done
<1>2. PICK uploaded \in SUBSET Archives :
         releases' = [releases EXCEPT ![Release(w)] = uploaded]
  BY DEF CreateIsInterrupted
<1>3. /\ UNCHANGED <<published, baseline, tags, pending, late>>
      /\ releases[Release(w)] = None
      /\ torn' = torn \cup {Release(w)}
  BY DEF CreateIsInterrupted
<1>4. uploaded \in SUBSET Bundles /\ uploaded # None
  BY Sizes
<1>5. RunsInv' /\ failures' \in 0..MaxFailures
  BY <1>3, FailureIsCounted DEF CreateIsInterrupted
<1>6. /\ releases'[Release(w)] = uploaded
      /\ \A r \in Ids : r # Release(w) => releases'[r] = releases[r]
  BY <1>1, <1>2 DEF MirrorInv, MirrorTypes
<1>7. MirrorInv'
  <2>1. MirrorTypes'
    BY <1>1, <1>2, <1>3, <1>4, <1>5 DEF MirrorInv, MirrorTypes
  <2>2. CreatedIsTagged'
    BY <1>1, <1>3, <1>6 DEF MirrorInv, CreatedIsTagged
  <2>3. NoReleaseIsSkipped'
    BY <1>1, <1>3, <1>4, <1>6 DEF MirrorInv, NoReleaseIsSkipped
  <2>4. PassedReleasesAreWhole'
    BY <1>1, <1>3, <1>6 DEF MirrorInv, NoReleaseIsSkipped, PassedReleasesAreWhole
  <2> QED BY <1>1, <1>3, <2>1, <2>2, <2>3, <2>4 DEF MirrorInv
<1> QED BY <1>5, <1>7, Parts

LEMMA KeptByUploadIsInterrupted ==
    ASSUME IInv, NEW w \in Runs, UploadIsInterrupted(w)
    PROVE  IInv'
<1>1. /\ MirrorInv /\ Release(w) \in Ids
      /\ at[w] \in DOMAIN plan[w] /\ Release(w) = plan[w][at[w]]
      /\ step[w] = "upload" /\ Done(w)
  BY Parts, AtRelease DEF UploadIsInterrupted
<1>2. /\ UNCHANGED <<published, baseline, tags, pending, torn>>
      /\ releases' = [releases EXCEPT ![Release(w)] = @ \ {MacBundle}]
      /\ late' = IF Release(w) <= baseline THEN late \cup {Release(w)} ELSE late
  BY DEF UploadIsInterrupted
<1>3. releases[Release(w)] # None
  BY <1>1 DEF Done, Mirrored
<1>4. releases[Release(w)] \ {MacBundle} \in SUBSET Bundles
  <2>1. releases[Release(w)] \in (SUBSET Bundles) \cup {None}
    BY <1>1 DEF MirrorInv, MirrorTypes
  <2> QED BY <1>3, <2>1
<1>5. RunsInv' /\ failures' \in 0..MaxFailures
  BY <1>2, FailureIsCounted DEF UploadIsInterrupted
<1>6. /\ releases'[Release(w)] = releases[Release(w)] \ {MacBundle}
      /\ \A r \in Ids : r # Release(w) => releases'[r] = releases[r]
      /\ releases'[Release(w)] # None
  BY <1>1, <1>2, <1>4, Sizes DEF MirrorInv, MirrorTypes
<1>7. MirrorInv'
  <2>1. MirrorTypes'
    <3>1. late' \subseteq Ids
      BY <1>1, <1>2 DEF MirrorInv, MirrorTypes
    <3>2. releases' \in [Ids -> (SUBSET Bundles) \cup {None}]
      BY <1>1, <1>2, <1>4 DEF MirrorInv, MirrorTypes
    <3> QED BY <1>1, <1>2, <1>5, <3>1, <3>2 DEF MirrorInv, MirrorTypes
  <2>2. CreatedIsTagged'
    <3>1. MacBundle \notin Archives
      BY MirrorAssumption
    <3> QED BY <1>1, <1>2, <1>3, <1>6, <3>1 DEF MirrorInv, CreatedIsTagged
  <2>3. NoReleaseIsSkipped'
    BY <1>1, <1>2, <1>6 DEF MirrorInv, NoReleaseIsSkipped
  <2>4. PassedReleasesAreWhole'
    <3>1. MacBundle \notin Archives
      BY MirrorAssumption
    <3> QED BY <1>1, <1>2, <1>6, <3>1 DEF MirrorInv, PassedReleasesAreWhole
  <2> QED BY <1>1, <1>2, <2>1, <2>2, <2>3, <2>4 DEF MirrorInv
<1> QED BY <1>5, <1>7, Parts

-----------------------------------------------------------------------------
LEMMA Initial == Init => IInv
<1> SUFFICES ASSUME Init PROVE IInv
  OBVIOUS
<1>1. RunTypes
  <2>1. <<>> \in Seq(Ids) /\ "idle" \in Steps /\ 1 \in Nat \ {0}
    BY DEF Steps
  <2> QED BY <2>1, Sizes DEF Init, RunTypes
<1>2. MirrorTypes
  <2>1. 0 \in 0..MaxFailures
    BY MirrorAssumption
  <2>2. releases \in [Ids -> (SUBSET Bundles) \cup {None}]
    BY DEF Init
  <2> QED BY <2>1, <2>2, Sizes DEF Init, MirrorTypes
<1>3. /\ Alone /\ CreatedIsTagged /\ NoReleaseIsSkipped /\ PassedReleasesAreWhole
      /\ \A w \in Runs : RunInv(w)
  BY Sizes DEF Init, Alone, CreatedIsTagged, NoReleaseIsSkipped, PassedReleasesAreWhole, RunInv
<1>4. BaselinesAreBehind
  BY Sizes DEF Init, BaselinesAreBehind, FirstBaseline
<1> QED BY <1>1, <1>2, <1>3, <1>4, Types DEF IInv

LEMMA Inductive == IInv /\ [Next]_vars => IInv'
<1> SUFFICES ASSUME IInv, [Next]_vars PROVE IInv'
  OBVIOUS
<1>1. CASE PublishUpstream
  BY <1>1, KeptByPublishUpstream
<1>2. CASE Trigger
  BY <1>2, KeptByTrigger
<1>3. ASSUME NEW w \in Runs, Proceed(w) PROVE IInv'
  BY <1>3, KeptByStart, KeptByListPage, KeptByListLastPage, KeptByListNothingNew,
     KeptByRetainRelease, KeptByFindNoRelease, KeptByPushTag, KeptByCreateRelease,
     KeptByUploadMacBundle, KeptByRecordBaseline DEF Proceed
<1>4. ASSUME NEW w \in Runs, Fail(w) PROVE IInv'
  BY <1>4, KeptByStopRun, KeptByMissRelease, KeptByCreateIsInterrupted,
     KeptByUploadIsInterrupted DEF Fail
<1>5. CASE UNCHANGED vars
  BY <1>5
     DEF vars, mirror, progress, history, IInv, TypeOK, Alone, BaselinesAreBehind,
         CreatedIsTagged, NoReleaseIsSkipped, PassedReleasesAreWhole, RunInv, Listing,
         Planned, Done, Mirrored, Release
<1> QED BY <1>1, <1>2, <1>3, <1>4, <1>5 DEF Next

(* The invariant holds in every state. *)
THEOREM Invariance == Spec => []IInv
BY Initial, Inductive, PTL DEF Spec

(* Type correctness: in particular, a bundle is only ever added to a release *)
(* that exists.                                                              *)
THEOREM TypeCorrect == Spec => []TypeOK
<1>1. IInv => TypeOK
  BY DEF IInv
<1> QED BY <1>1, Invariance, PTL

(* However many runs stopped, wherever they did, and whatever upstream       *)
(* published between two pages: no release behind the baseline is left out.  *)
THEOREM NoneSkipped == Spec => []NoReleaseIsSkipped
<1>1. IInv => NoReleaseIsSkipped
  BY DEF IInv
<1> QED BY <1>1, Invariance, PTL

(* A release behind the baseline has all its bundles, but for the two kinds  *)
(* of interruption that nothing repairs.                                     *)
THEOREM PassedWhole == Spec => []PassedReleasesAreWhole
<1>1. IInv => PassedReleasesAreWhole
  BY DEF IInv
<1> QED BY <1>1, Invariance, PTL

(* A run that starts from a stale baseline never takes the baseline back.    *)
THEOREM NeverBack == Spec => BaselineNeverGoesBack
<1>1. ASSUME IInv, [Next]_vars PROVE baseline' >= baseline
  <2>1. baseline \in Nat
    BY <1>1, Sizes DEF IInv, TypeOK
  <2>2. ASSUME NEW w \in Runs, RecordBaseline(w) PROVE baseline' >= baseline
    <3>1. baseline' \in Nat
      BY <1>1, <2>2, RecordedIsMirrored, Sizes
    <3> QED BY <1>1, <2>1, <2>2, <3>1, RecordedIsMirrored
  <2>3. ASSUME UNCHANGED baseline PROVE baseline' >= baseline
    BY <2>1, <2>3
  <2>4. ASSUME NEW w \in Runs, Proceed(w) PROVE UNCHANGED baseline \/ RecordBaseline(w)
    BY <2>4
       DEF Proceed, Start, ListPage, ListLastPage, ListNothingNew, RetainRelease,
           FindNoRelease, PushTag, CreateRelease, UploadMacBundle, mirror
  <2>5. ASSUME NEW w \in Runs, Fail(w) PROVE UNCHANGED baseline
    BY <2>5 DEF Fail, StopRun, MissRelease, CreateIsInterrupted, UploadIsInterrupted, mirror
  <2>6. PublishUpstream \/ Trigger \/ UNCHANGED vars => UNCHANGED baseline
    BY DEF PublishUpstream, Trigger, vars, mirror
  <2> QED BY <1>1, <2>2, <2>3, <2>4, <2>5, <2>6 DEF Next
<1>2. IInv /\ [Next]_vars => [baseline' >= baseline]_vars
  BY <1>1
<1> QED BY <1>2, Invariance, PTL DEF Spec, BaselineNeverGoesBack
=============================================================================
