------------------------------ MODULE Versioning ------------------------------
(***************************************************************************)
(* Patch markers and TemporalVersioning.match: runs that live through      *)
(* several deployments of their workflow code. The runtime guards its own  *)
(* changes, such as the ids of children, by the same markers.              *)
(***************************************************************************)
EXTENDS Naturals, Sequences, FiniteSetsExt

CONSTANTS
  Executions,  \* those that may be open
  MaxVersion,  \* bound: the versions ever declared
  MaxBranches, \* bound: the passes of one run
  NoBranch     \* match dies

ASSUME VersioningAssumption == MaxVersion \in Nat \ {0} /\ MaxBranches \in Nat \ {0}

VARIABLES
  oldest,  \* the oldest version the code declares; 0: it has a legacy branch
  newest,  \* the newest one; 0: the code was deployed before match
  markers  \* of each open run: the version whose branch, and whose marker, a
           \* pass recorded; 0 is the legacy branch, which has no marker

versionVars == <<oldest, newest, markers>>

Open(r) == markers[r] # <<>>

-----------------------------------------------------------------------------
\* The markers the sandbox knows when it replays pass n: those recorded by
\* then.
Known(r, n) == {markers[r][m] : m \in 1 .. n} \ {0}

\* patched: always in a live pass, and in a replay if the marker is known.
patched(v, replaying, known) == ~replaying \/ v \in known

\* The newest declared version, whatever the history recorded.
matchBug(replaying, known) == newest

\* match: the newest declared version that is patched, or legacy, or a defect.
match(replaying, known) ==
  LET matching == {v \in oldest .. newest : v > 0 /\ patched(v, replaying, known)} IN
  IF matching # {} THEN Max(matching) ELSE IF oldest = 0 THEN 0 ELSE NoBranch

-----------------------------------------------------------------------------
\* A workflow that has a legacy branch, or one that used match from the first.
VersionInit ==
  /\ oldest \in {0, 1} /\ newest = oldest
  /\ markers = [r \in Executions |-> <<>>]

\* { id, run } is appended to the versions.
Deploy ==
  /\ newest < MaxVersion
  /\ newest' = newest + 1
  /\ UNCHANGED <<oldest, markers>>

\* The branches before v are deleted and their ids deprecated, once no open
\* execution predates v.
deprecatePatch ==
  /\ \E v \in oldest + 1 .. newest :
       /\ \A r \in Executions : Open(r) => markers[r][1] >= v
       /\ oldest' = v
  /\ UNCHANGED <<newest, markers>>

\* A live pass of the deployed code evaluates match and records the marker.
LivePass(r) ==
  /\ Len(markers[r]) < MaxBranches
  /\ markers' = [markers EXCEPT ![r] = Append(@, match(FALSE, {}))]
  /\ UNCHANGED <<oldest, newest>>

\* The run closes; its history is not replayed any more.
RunCloses(r) ==
  /\ Open(r)
  /\ markers' = [markers EXCEPT ![r] = <<>>]
  /\ UNCHANGED <<oldest, newest>>

VersionNext == Deploy \/ deprecatePatch \/ \E r \in Executions : LivePass(r) \/ RunCloses(r)

VersionSpec == VersionInit /\ [][VersionNext]_versionVars

-----------------------------------------------------------------------------
(* Properties                                                              *)

VersionTypeOK ==
  /\ oldest \in 0 .. MaxVersion /\ newest \in oldest .. MaxVersion
  /\ \A r \in Executions : markers[r] \in Seq(0 .. MaxVersion)

\* Whatever was deployed and deleted since, replaying the history of an open
\* run takes in every pass the branch that the pass took when it was live, and
\* never finds itself without a branch.
ReplaysAgree ==
  \A r \in Executions : \A n \in DOMAIN markers[r] : match(TRUE, Known(r, n)) = markers[r][n]

\* A run keeps the branch it took first: "a history predating every version
\* runs legacy". Its passes run the same body again, so another branch repeats
\* under a new version what the run has done under the old one.
KeepsBranch ==
  \A r \in Executions : \A n \in DOMAIN markers[r] : markers[r][n] = markers[r][1]
=============================================================================
