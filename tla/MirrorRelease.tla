--------------------------- MODULE MirrorRelease ---------------------------
(***************************************************************************)
(* The workflow that mirrors upstream releases: daily-sync.yml with its    *)
(* two jobs, sync/update.sh and sync/publish-macos-arm64.sh.  The first    *)
(* job lists the upstream releases behind the baseline and creates a       *)
(* release for each with the bundles of Linux and Windows; the second adds *)
(* the bundle of macOS to each and records the new baseline.  Any step may *)
(* fail, and the run stops there; the next run starts again from the       *)
(* baseline it finds.                                                      *)
(*                                                                         *)
(* Releases are numbered in the order upstream publishes them; a release   *)
(* is never withdrawn, so the baseline is always found.  The run that      *)
(* finds nothing new synchronises upstream main, which is not modelled.    *)
(***************************************************************************)
EXTENDS Integers, Sequences

CONSTANTS
    Runs,         \* workflow runs that may be in progress at a time
    Archives,     \* the bundles of Linux and Windows
    MacBundle,    \* the bundle of macOS
    None,
    PageSize,     \* release_page_size
    MaxReleases,  \* bound on upstream releases
    MaxFailures   \* bound on runs that fail

ASSUME MirrorAssumption ==
    /\ MacBundle \notin Archives
    /\ \A bundles \in SUBSET (Archives \cup {MacBundle}) : bundles # None
    /\ PageSize \in Nat \ {0}
    /\ MaxReleases \in Nat \ {0}
    /\ MaxFailures \in Nat

Bundles == Archives \cup {MacBundle}

Ids == 1..MaxReleases

(* The baseline the mirror was set up with: it is not mirrored itself. *)
FirstBaseline == 1

-----------------------------------------------------------------------------
VARIABLES
    published,  \* upstream has published the releases 1 to published
    baseline,   \* sync/state/release-id on main
    tags,       \* of the mirror
    releases,   \* of the mirror: the bundles of each, None if not created
    pending,    \* the run that waits: the baseline of its commit, 0 if none
    step,       \* where each run is
    base,       \* the baseline a run has checked out
    seen,       \* how many upstream releases it has asked for
    listed,     \* what it was answered, newest first
    plan,       \* the releases it is to mirror, oldest first
    at,         \* the one it is at
    failures,   \* history
    torn,       \* history: releases whose creation was interrupted
    late        \* history: releases the baseline had passed when an upload of
                \* their macOS bundle was interrupted, until another succeeds

mirror == <<baseline, tags, releases>>
progress == <<base, seen, listed, plan>>
history == <<failures, torn, late>>
vars == <<published, mirror, pending, step, progress, at, history>>

Steps == {"idle", "list", "view", "tag", "create", "upload", "record"}

TypeOK ==
    /\ published \in Ids
    /\ baseline \in Ids
    /\ tags \subseteq Ids
    /\ releases \in [Ids -> (SUBSET Bundles) \cup {None}]
    /\ pending \in Ids \cup {0}
    /\ step \in [Runs -> Steps]
    /\ base \in [Runs -> Ids]
    /\ seen \in [Runs -> Nat]
    /\ listed \in [Runs -> Seq(Ids)]
    /\ plan \in [Runs -> Seq(Ids)]
    /\ at \in [Runs -> Nat \ {0}]
    /\ failures \in 0..MaxFailures
    /\ torn \subseteq Ids
    /\ late \subseteq Ids
    /\ \A w \in Runs : step[w] \in {"view", "tag", "create", "upload"} => at[w] \in DOMAIN plan[w]

Init ==
    /\ published \in Ids
    /\ baseline = FirstBaseline
    /\ tags = {}
    /\ releases = [r \in Ids |-> None]
    /\ pending = 0
    /\ step = [w \in Runs |-> "idle"]
    /\ base = [w \in Runs |-> FirstBaseline]
    /\ seen = [w \in Runs |-> 0]
    /\ listed = [w \in Runs |-> <<>>]
    /\ plan = [w \in Runs |-> <<>>]
    /\ at = [w \in Runs |-> 1]
    /\ failures = 0
    /\ torn = {}
    /\ late = {}

-----------------------------------------------------------------------------
(* Upstream publishes a release; the workflow is triggered: a run waits that *)
(* will check out the commit of this moment, in place of one that waited.    *)
PublishUpstream ==
    /\ published < MaxReleases
    /\ published' = published + 1
    /\ UNCHANGED <<mirror, pending, step, progress, at, history>>

Trigger ==
    /\ pending # baseline
    /\ pending' = baseline
    /\ UNCHANGED <<published, mirror, step, progress, at, history>>

Goto(w, next) == step' = [step EXCEPT ![w] = next]

Clear(w) ==
    /\ base' = [base EXCEPT ![w] = FirstBaseline]
    /\ seen' = [seen EXCEPT ![w] = 0]
    /\ listed' = [listed EXCEPT ![w] = <<>>]
    /\ plan' = [plan EXCEPT ![w] = <<>>]
    /\ at' = [at EXCEPT ![w] = 1]

End(w) == Goto(w, "idle") /\ Clear(w)

(* Mutant of MayStart: no concurrency group. *)
MayStartAtOnce(w) == step[w] = "idle"

(* The concurrency group lets one run through at a time. *)
MayStart(w) == \A v \in Runs : step[v] = "idle"

Start(w) ==
    /\ pending # 0
    /\ MayStart(w)
    /\ pending' = 0
    /\ base' = [base EXCEPT ![w] = pending]
    /\ Goto(w, "list")
    /\ UNCHANGED <<published, mirror, seen, listed, plan, at, history>>

-----------------------------------------------------------------------------
(* update.sh: the list of releases, newest first, page by page until one has *)
(* the baseline.  Upstream may publish between two pages, which moves the    *)
(* rest of the list back: what was seen is then seen again.                  *)
Page(w) ==
    LET rest == published - seen[w]
    IN  [k \in 1..(IF rest < PageSize THEN rest ELSE PageSize) |-> rest - k + 1]

(* The releases in front of the first r, in reverse. *)
Behind(list, r) ==
    LET end == CHOOSE k \in DOMAIN list :
                  list[k] = r /\ \A j \in DOMAIN list : list[j] = r => k <= j
    IN  [k \in 1..(end - 1) |-> list[end - k]]

(* Mutant of ListPage: the next page starts one release too late. *)
ListPageSkipping(w) ==
    /\ step[w] = "list"
    /\ \A k \in DOMAIN Page(w) : Page(w)[k] # base[w]
    /\ seen' = [seen EXCEPT ![w] = @ + PageSize + 1]
    /\ listed' = [listed EXCEPT ![w] = @ \o Page(w)]
    /\ UNCHANGED <<published, mirror, pending, step, base, plan, at, history>>

ListPage(w) ==
    /\ step[w] = "list"
    /\ \A k \in DOMAIN Page(w) : Page(w)[k] # base[w]
    /\ seen' = [seen EXCEPT ![w] = @ + PageSize]
    /\ listed' = [listed EXCEPT ![w] = @ \o Page(w)]
    /\ UNCHANGED <<published, mirror, pending, step, base, plan, at, history>>

ListLastPage(w) ==
    /\ step[w] = "list"
    /\ \E k \in DOMAIN Page(w) : Page(w)[k] = base[w]
    /\ Behind(listed[w] \o Page(w), base[w]) # <<>>
    /\ plan' = [plan EXCEPT ![w] = Behind(listed[w] \o Page(w), base[w])]
    /\ seen' = [seen EXCEPT ![w] = 0]
    /\ listed' = [listed EXCEPT ![w] = <<>>]
    /\ Goto(w, "view")
    /\ UNCHANGED <<published, mirror, pending, base, at, history>>

(* Nothing new: upstream main is synchronised and the second job skipped. *)
ListNothingNew(w) ==
    /\ step[w] = "list"
    /\ \E k \in DOMAIN Page(w) : Page(w)[k] = base[w]
    /\ Behind(listed[w] \o Page(w), base[w]) = <<>>
    /\ End(w)
    /\ UNCHANGED <<published, mirror, pending, history>>

-----------------------------------------------------------------------------
Release(w) == plan[w][at[w]]

(* Mutant of Advance: one release too many. *)
AdvanceTooFar(w, again, next) ==
    IF at[w] <= Len(plan[w])
    THEN at' = [at EXCEPT ![w] = @ + 1] /\ Goto(w, again)
    ELSE at' = [at EXCEPT ![w] = 1] /\ Goto(w, next)

(* On to the next release of the plan, or to what follows the last one. *)
Advance(w, again, next) ==
    IF at[w] < Len(plan[w])
    THEN at' = [at EXCEPT ![w] = @ + 1] /\ Goto(w, again)
    ELSE at' = [at EXCEPT ![w] = 1] /\ Goto(w, next)

(* Mutant of RetainRelease: a release that exists ends the run. *)
RefuseExistingRelease(w) ==
    /\ step[w] = "view"
    /\ releases[Release(w)] # None
    /\ End(w)
    /\ UNCHANGED <<published, mirror, pending, history>>

(* update.sh, one release of the plan: one that exists is kept as it is;     *)
(* otherwise the sources are pushed, and the tag unless it is there.         *)
RetainRelease(w) ==
    /\ step[w] = "view"
    /\ releases[Release(w)] # None
    /\ Advance(w, "view", "upload")
    /\ UNCHANGED <<published, mirror, pending, progress, history>>

FindNoRelease(w) ==
    /\ step[w] = "view"
    /\ releases[Release(w)] = None
    /\ Goto(w, "tag")
    /\ UNCHANGED <<published, mirror, pending, progress, at, history>>

PushTag(w) ==
    /\ step[w] = "tag"
    /\ tags' = tags \cup {Release(w)}
    /\ Goto(w, "create")
    /\ UNCHANGED <<published, baseline, releases, pending, progress, at, history>>

(* Mutant of CreateRelease: the first job records the baseline. *)
CreateReleaseAndRecord(w) ==
    /\ step[w] = "create"
    /\ releases[Release(w)] = None
    /\ releases' = [releases EXCEPT ![Release(w)] = Archives]
    /\ baseline' = IF at[w] = Len(plan[w]) THEN Release(w) ELSE baseline
    /\ Advance(w, "view", "upload")
    /\ UNCHANGED <<published, tags, pending, progress, history>>

CreateRelease(w) ==
    /\ step[w] = "create"
    /\ releases[Release(w)] = None
    /\ releases' = [releases EXCEPT ![Release(w)] = Archives]
    /\ Advance(w, "view", "upload")
    /\ UNCHANGED <<published, baseline, tags, pending, progress, history>>

(* publish-macos-arm64.sh: the bundle replaces one that is there already.    *)
(* The baseline of main, recorded last, is the newest release of the plan.   *)
UploadMacBundle(w) ==
    /\ step[w] = "upload"
    /\ releases' = [releases EXCEPT ![Release(w)] = @ \cup {MacBundle}]
    /\ late' = late \ {Release(w)}
    /\ Advance(w, "upload", "record")
    /\ UNCHANGED <<published, baseline, tags, pending, progress, failures, torn>>

RecordBaseline(w) ==
    /\ step[w] = "record"
    /\ baseline' = plan[w][Len(plan[w])]
    /\ End(w)
    /\ UNCHANGED <<published, tags, releases, pending, history>>

-----------------------------------------------------------------------------
Fails(w) ==
    /\ failures < MaxFailures
    /\ failures' = failures + 1
    /\ End(w)

(* A call is refused, a job is cancelled or runs out of time. *)
StopRun(w) ==
    /\ step[w] # "idle"
    /\ Fails(w)
    /\ UNCHANGED <<published, mirror, pending, torn, late>>

(* A release that exists is not found, for another reason: the attempt to    *)
(* create it again fails.                                                    *)
MissRelease(w) ==
    /\ step[w] = "view"
    /\ releases[Release(w)] # None
    /\ tags' = tags \cup {Release(w)}
    /\ Fails(w)
    /\ UNCHANGED <<published, baseline, releases, pending, torn, late>>

(* The release is there, not all its bundles are. *)
CreateIsInterrupted(w) ==
    /\ step[w] = "create"
    /\ releases[Release(w)] = None
    /\ \E uploaded \in (SUBSET Archives) \ {Archives} :
          releases' = [releases EXCEPT ![Release(w)] = uploaded]
    /\ torn' = torn \cup {Release(w)}
    /\ Fails(w)
    /\ UNCHANGED <<published, baseline, tags, pending, late>>

(* The old bundle was deleted, the new one has not arrived. *)
UploadIsInterrupted(w) ==
    /\ step[w] = "upload"
    /\ releases' = [releases EXCEPT ![Release(w)] = @ \ {MacBundle}]
    /\ late' = IF Release(w) <= baseline THEN late \cup {Release(w)} ELSE late
    /\ Fails(w)
    /\ UNCHANGED <<published, baseline, tags, pending, torn>>

Proceed(w) ==
    \/ Start(w)
    \/ ListPage(w) \/ ListLastPage(w) \/ ListNothingNew(w)
    \/ RetainRelease(w) \/ FindNoRelease(w) \/ PushTag(w) \/ CreateRelease(w)
    \/ UploadMacBundle(w) \/ RecordBaseline(w)

Fail(w) == StopRun(w) \/ MissRelease(w) \/ CreateIsInterrupted(w) \/ UploadIsInterrupted(w)

Next ==
    \/ PublishUpstream
    \/ Trigger
    \/ \E w \in Runs : Proceed(w) \/ Fail(w)

Spec == Init /\ [][Next]_vars

(* The schedule triggers the workflow every day, and a run goes on until it  *)
(* ends or a step of it fails.                                               *)
FairSpec == Spec /\ WF_vars(Trigger) /\ WF_vars(\E w \in Runs : Proceed(w))

-----------------------------------------------------------------------------
(* A release the baseline has passed is mirrored: however many runs failed,  *)
(* at whichever step, and whatever upstream published meanwhile, none is     *)
(* left out.                                                                 *)
NoReleaseIsSkipped ==
    \A r \in Ids : FirstBaseline < r /\ r <= baseline =>
        r \in tags /\ releases[r] # None

(* And it has all its bundles, unless its creation was interrupted, after    *)
(* which nobody makes the others again, or a run that started from an older  *)
(* baseline was interrupted while it replaced a bundle.                      *)
PassedReleasesAreWhole ==
    \A r \in Ids : FirstBaseline < r /\ r <= baseline =>
        /\ r \notin torn => Archives \subseteq releases[r]
        /\ r \notin late => MacBundle \in releases[r]

(* A run that waited for another one starts from the baseline of its own     *)
(* commit, and still never takes the baseline back.                          *)
BaselineNeverGoesBack == [][baseline' >= baseline]_vars

(* Every upstream release is mirrored in the end. *)
EveryReleaseIsMirrored ==
    \A r \in Ids : published >= r ~> baseline >= r
=============================================================================
