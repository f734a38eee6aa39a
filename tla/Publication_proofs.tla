------------------------- MODULE Publication_proofs -------------------------
(***************************************************************************)
(* Proofs about the publication of releases and channels, for every value  *)
(* of the constants.                                                       *)
(***************************************************************************)
EXTENDS Publication, FiniteSetTheorems, TLAPS

\* What a request has to go on with.
HandleShape ==
    \A r \in Requests :
        /\ h[r].pc = "reading" => h[r].read \in 0 .. 3
        /\ h[r].pc = "staging" => h[r].commit \in Commits
        /\ h[r].op = "release" => h[r].release \in Releases

TypeInv == TypeOK /\ HandleShape

-----------------------------------------------------------------------------
(* Metadata *)

LEMMA MetadataFields ==
    ASSUME NEW m \in Metadata
    PROVE  /\ m.root \in [id : Nat]
           /\ m.targets \in [id : Idents, releases : SUBSET Releases, channels : Channeled]
           /\ m.snapshot \in [id : Idents, targets : Idents]
           /\ m.timestamp \in [id : Idents, snapshot : Idents]
BY DEF Metadata

LEMMA MetadataReplaced ==
    ASSUME NEW m \in Metadata, NEW n \in Metadata, NEW role \in Roles
    PROVE  [m EXCEPT ![role] = n[role]] \in Metadata
<1>1. CASE role = "root"
  BY <1>1, MetadataFields DEF Metadata
<1>2. CASE role = "targets"
  BY <1>2, MetadataFields DEF Metadata
<1>3. CASE role = "snapshot"
  BY <1>3, MetadataFields DEF Metadata
<1>4. CASE role = "timestamp"
  BY <1>4, MetadataFields DEF Metadata
<1>5. QED
  BY <1>1, <1>2, <1>3, <1>4 DEF Roles

LEMMA FirstMetadataType == FirstMetadata \in Metadata
BY PublicationAssumption DEF FirstMetadata, Metadata, NoChannels, Channeled

LEMMA UnionBound ==
    ASSUME NEW S, NEW T, IsFiniteSet(S), IsFiniteSet(T)
    PROVE  /\ IsFiniteSet(S \cup T) /\ Cardinality(S \cup T) \in Nat
           /\ Cardinality(S) \in Nat /\ Cardinality(T) \in Nat
           /\ Cardinality(S \cup T) <= Cardinality(S) + Cardinality(T)
<1>1. IsFiniteSet(S \cap T)
  BY FS_Subset
<1>2. IsFiniteSet(S \cup T)
      /\ Cardinality(S \cup T) = Cardinality(S) + Cardinality(T) - Cardinality(S \cap T)
  BY FS_Union
<1>3. /\ Cardinality(S) \in Nat /\ Cardinality(T) \in Nat
      /\ Cardinality(S \cap T) \in Nat /\ Cardinality(S \cup T) \in Nat
  BY <1>1, <1>2, FS_CardinalityType
<1>4. QED
  BY <1>2, <1>3

\* The identities a role's file is known by are those of two functions, one
\* for the file and one for the file that names it, on the bucket and the handles.
LEMMA FreshIsIdent ==
    ASSUME NEW role \in {"targets", "snapshot", "timestamp"}
    PROVE  Fresh(role) \in Idents \ InUse(role)
<1> DEFINE Holders == Requests \cup {NoRequest}
           m(x) == IF x = NoRequest THEN store ELSE h[x].meta
           own(x) == m(x)[role].id
           named(x) == IF role = "targets" THEN m(x).snapshot.targets
                       ELSE IF role = "snapshot" THEN m(x).timestamp.snapshot
                       ELSE m(x)[role].id
           Own == {own(x) : x \in Holders}
           Name == {named(x) : x \in Holders}
<1>1. IsFiniteSet(Holders) /\ Cardinality(Holders) = Cardinality(Requests) + 1
      /\ Cardinality(Requests) \in Nat
  BY PublicationAssumption, FS_AddElement, FS_CardinalityType
<1>2. IsFiniteSet(Own) /\ Cardinality(Own) <= Cardinality(Holders)
  <2> DEFINE f == [x \in Holders |-> own(x)]
  <2>1. f \in Surjection(Holders, Own)
    BY DEF Surjection
  <2>2. QED
    BY <1>1, <2>1, FS_Surjection
<1>3. IsFiniteSet(Name) /\ Cardinality(Name) <= Cardinality(Holders)
  <2> DEFINE f == [x \in Holders |-> named(x)]
  <2>1. f \in Surjection(Holders, Name)
    BY DEF Surjection
  <2>2. QED
    BY <1>1, <2>1, FS_Surjection
<1>4. /\ IsFiniteSet(Own \cup Name) /\ Cardinality(Own \cup Name) \in Nat
      /\ Cardinality(Own) \in Nat /\ Cardinality(Name) \in Nat
      /\ Cardinality(Own \cup Name) <= Cardinality(Own) + Cardinality(Name)
  <2> HIDE DEF Own, Name
  <2>1. QED
    BY <1>2, <1>3, UnionBound
<1>5. InUse(role) \subseteq Own \cup Name
  BY PublicationAssumption DEF InUse, Named
<1>6. ~(Idents \subseteq InUse(role))
  <2>1. SUFFICES ASSUME Idents \subseteq InUse(role) PROVE FALSE
    OBVIOUS
  <2>2. Idents \in SUBSET (Own \cup Name)
    BY <1>5, <2>1
  <2>3. Cardinality(Idents) <= Cardinality(Own \cup Name)
    BY <1>4, <2>2, FS_Subset
  <2>4. Cardinality(Idents) \in Nat
    BY PublicationAssumption, FS_CardinalityType
  <2> HIDE DEF Own, Name, Holders
  <2>5. QED
    BY <1>1, <1>2, <1>3, <1>4, <2>3, <2>4, PublicationAssumption
<1>7. QED
  BY <1>6 DEF Fresh

LEMMA NewVersionsType ==
    ASSUME NEW m \in Metadata, NEW roles
    PROVE  NewVersions(m, roles) \in Metadata
<1> DEFINE root == IF "root" \in roles THEN [id |-> m.root.id + 1] ELSE m.root
           targets == IF "targets" \in roles THEN [m.targets EXCEPT !.id = Fresh("targets")]
                      ELSE m.targets
           snapshot == IF "snapshot" \in roles
                       THEN [id |-> Fresh("snapshot"), targets |-> targets.id] ELSE m.snapshot
           timestamp == IF "timestamp" \in roles
                        THEN [id |-> Fresh("timestamp"), snapshot |-> snapshot.id] ELSE m.timestamp
<1>1. root \in [id : Nat]
  BY MetadataFields
<1>2. targets \in [id : Idents, releases : SUBSET Releases, channels : Channeled]
  BY MetadataFields, FreshIsIdent
<1>3. snapshot \in [id : Idents, targets : Idents]
  <2> HIDE DEF targets
  <2>1. QED
    BY <1>2, MetadataFields, FreshIsIdent
<1>4. timestamp \in [id : Idents, snapshot : Idents]
  <2> HIDE DEF snapshot
  <2>1. QED
    BY <1>3, MetadataFields, FreshIsIdent
<1> HIDE DEF root, targets, snapshot, timestamp
<1>5. [root |-> root, targets |-> targets, snapshot |-> snapshot, timestamp |-> timestamp] \in Metadata
  BY <1>1, <1>2, <1>3, <1>4 DEF Metadata
<1>6. QED
  BY <1>5 DEF NewVersions, root, targets, snapshot, timestamp

-----------------------------------------------------------------------------
(* Types *)

LEMMA IdleType == Idle \in Handle
BY FirstMetadataType DEF Idle, Handle

LEMMA TypeInit == Init => TypeInv
<1> SUFFICES ASSUME Init PROVE TypeInv
  OBVIOUS
<1>2. NoChannels \in Channeled
  BY DEF NoChannels, Channeled
<1>3. h \in [Requests -> Handle]
  BY IdleType DEF Init
<1>4. HandleShape
  BY DEF Init, Idle, HandleShape
<1>5. store \in Metadata /\ channelFile \in Channeled
  BY <1>2, FirstMetadataType DEF Init
<1>6. /\ rootCopies \subseteq Nat /\ lastPublished \in Commits \cup {NoCommit}
      /\ hourPassed \in BOOLEAN /\ current \in Requests \cup {NoRequest}
      /\ head \in Commits /\ staleTasks \in BOOLEAN
      /\ opened \in Nat /\ abandons \in Nat /\ faults \in Nat /\ crashes \in Nat
  <2>1. rootCopies \subseteq Nat
    BY DEF Init
  <2>2. /\ lastPublished \in Commits \cup {NoCommit} /\ hourPassed \in BOOLEAN
        /\ current \in Requests \cup {NoRequest}
        /\ head \in Commits /\ staleTasks \in BOOLEAN
    BY DEF Init
  <2>3. opened \in Nat /\ abandons \in Nat /\ faults \in Nat /\ crashes \in Nat
    BY DEF Init
  <2>4. QED
    BY <2>1, <2>2, <2>3
<1>7. QED
  BY <1>3, <1>4, <1>5, <1>6 DEF TypeInv, TypeOK

\* Most steps change one handle.
LEMMA HandleReplaced ==
    ASSUME TypeInv, NEW r \in Requests, NEW n \in Handle, h' = [h EXCEPT ![r] = n],
           n.pc = "reading" => n.read \in 0 .. 3,
           n.pc = "staging" => n.commit \in Commits,
           \/ n.op = h[r].op /\ n.release = h[r].release
           \/ n.op = "release" => n.release \in Releases
    PROVE  h' \in [Requests -> Handle] /\ HandleShape'
<1>1. h' \in [Requests -> Handle]
  BY DEF TypeInv, TypeOK
<1>2. ASSUME NEW q \in Requests
      PROVE  /\ h'[q].pc = "reading" => h'[q].read \in 0 .. 3
             /\ h'[q].pc = "staging" => h'[q].commit \in Commits
             /\ h'[q].op = "release" => h'[q].release \in Releases
  BY DEF TypeInv, TypeOK, HandleShape
<1>3. QED
  BY <1>1, <1>2 DEF HandleShape

LEMMA EndTaskType ==
    ASSUME TypeInv, NEW r \in Requests, EndTask(r)
    PROVE  /\ h' \in [Requests -> Handle] /\ HandleShape'
           /\ current' \in Requests \cup {NoRequest}
<1>1. h' \in [Requests -> Handle] /\ HandleShape'
  <2>1. Idle.pc = "none" /\ Idle.op = "none"
    BY DEF Idle
  <2>2. QED
    BY <2>1, IdleType, HandleReplaced DEF EndTask
<1>2. QED
  BY <1>1 DEF EndTask, TypeInv, TypeOK

LEMMA BeginType ==
    ASSUME TypeInv, NEW r \in Requests, NEW op \in {"release", "publish", "periodic"},
           NEW release \in Releases \cup {NoRelease}, Begin(r, op, release),
           op = "release" => release \in Releases
    PROVE  h' \in [Requests -> Handle] /\ HandleShape'
<1> DEFINE n == [Idle EXCEPT !.op = op, !.pc = "reading", !.release = release,
                             !.last = IF op = "publish" THEN LastPublished ELSE NoCommit]
<1>1. n \in Handle
  <2> DEFINE last == IF op = "publish" THEN LastPublished ELSE NoCommit
  <2>1. last \in Commits \cup {NoCommit}
    BY PublicationAssumption DEF TypeInv, TypeOK, LastPublished
  <2> HIDE DEF last
  <2>2. [Idle EXCEPT !.op = op, !.pc = "reading", !.release = release, !.last = last] \in Handle
    BY <2>1, IdleType DEF Handle
  <2>3. QED
    BY <2>2 DEF last
<1>2. n.read \in 0 .. 3 /\ n.pc # "staging" /\ n.op = op /\ n.release = release
  BY DEF Idle
<1>3. h' = [h EXCEPT ![r] = n]
  BY DEF Begin
<1> HIDE DEF n
<1>4. QED
  BY <1>1, <1>2, <1>3, HandleReplaced

LEMMA ReadMetaType ==
    ASSUME TypeInv, NEW r \in Requests, ReadMeta(r)
    PROVE  h' \in [Requests -> Handle] /\ HandleShape'
<1> DEFINE k == h[r].read + 1
           role == TopLevelManifests[k]
           m == [h[r].meta EXCEPT ![role] = store[role]]
           pc == IF k = 4 THEN "opened" ELSE "reading"
           n == [h[r] EXCEPT !.read = k, !.meta = m, !.pc = pc]
<1>1. h[r] \in Handle /\ h[r].read \in 0 .. 3 /\ k \in 1 .. 4 /\ store \in Metadata
  BY DEF TypeInv, TypeOK, HandleShape, ReadMeta
<1>2. role \in Roles
  BY <1>1 DEF TopLevelManifests, Roles
<1>3. h[r].meta \in Metadata
  BY <1>1 DEF Handle
<1>4. m \in Metadata
  <2> HIDE DEF role, k
  <2>1. QED
    BY <1>1, <1>2, <1>3, MetadataReplaced
<1>5. h' = [h EXCEPT ![r] = n]
  <2>1. h' = [h EXCEPT ![r] = [h[r] EXCEPT !.read = k, !.meta[role] = store[role], !.pc = pc]]
    BY DEF ReadMeta, TypeInv, TypeOK
  <2> HIDE DEF role, k, pc
  <2>2. [h[r] EXCEPT !.read = k, !.meta[role] = store[role], !.pc = pc] = n
    BY <1>1 DEF Handle
  <2>3. QED
    BY <2>1, <2>2
<1>6. n \in Handle
  <2>1. pc \in {"opened", "reading"} /\ k \in 0 .. 4
    BY <1>1
  <2> HIDE DEF m, k, pc
  <2>2. QED
    BY <1>1, <1>4, <2>1 DEF Handle
<1>7. /\ n.pc = "reading" => n.read \in 0 .. 3
      /\ n.pc # "staging" /\ n.op = h[r].op /\ n.release = h[r].release
  <2> HIDE DEF m
  <2>1. QED
    BY <1>1 DEF Handle
<1> HIDE DEF n
<1>8. QED
  BY <1>5, <1>6, <1>7, HandleReplaced

LEMMA RunTaskType ==
    ASSUME TypeInv, NEW r \in Requests, RunTask(r)
    PROVE  /\ h' \in [Requests -> Handle] /\ HandleShape'
           /\ current' \in Requests \cup {NoRequest}
           /\ hourPassed' \in BOOLEAN /\ staleTasks' \in BOOLEAN
<1> DEFINE late == Overtaken(r)
           n == [h[r] EXCEPT !.pc = "task", !.late = late]
<1>1. h[r] \in Handle /\ late \in BOOLEAN
  BY DEF TypeInv, TypeOK, Overtaken
<1> HIDE DEF late
<1>2. n \in Handle /\ n.pc = "task" /\ n.op = h[r].op /\ n.release = h[r].release
  BY <1>1 DEF Handle
<1>3. h' = [h EXCEPT ![r] = n]
  BY DEF RunTask, late
<1>4. h' \in [Requests -> Handle] /\ HandleShape'
  <2> HIDE DEF n
  <2>1. n.pc # "reading" /\ n.pc # "staging"
    BY <1>2
  <2>2. QED
    BY <1>2, <1>3, <2>1, HandleReplaced
<1>5. hourPassed' \in BOOLEAN /\ current' = r
  BY DEF RunTask, TypeInv, TypeOK
<1>6. staleTasks' \in BOOLEAN
  BY DEF RunTask, TypeInv, TypeOK
<1>7. QED
  BY <1>4, <1>5, <1>6

LEMMA StageReleaseType ==
    ASSUME TypeInv, NEW r \in Requests, StageRelease(r)
    PROVE  h' \in [Requests -> Handle] /\ HandleShape'
<1> DEFINE releases == h[r].meta.targets.releases \cup {h[r].release}
           t == [h[r].meta.targets EXCEPT !.releases = releases]
           m == [h[r].meta EXCEPT !.targets = t]
           n == [h[r] EXCEPT !.pc = "commit", !.staged = {"targets"}, !.meta = m]
<1>1. h[r] \in Handle /\ h[r].meta \in Metadata /\ h[r].release \in Releases
  BY DEF TypeInv, TypeOK, Handle, HandleShape, StageRelease
<1>2. m \in Metadata
  <2>1. t \in [id : Idents, releases : SUBSET Releases, channels : Channeled]
    BY <1>1, MetadataFields
  <2> HIDE DEF t
  <2>2. QED
    BY <1>1, <2>1 DEF Metadata
<1>3. n \in Handle /\ n.pc = "commit" /\ n.op = h[r].op /\ n.release = h[r].release
  <2> HIDE DEF m
  <2>1. QED
    BY <1>1, <1>2 DEF Handle, Roles
<1>4. h' = [h EXCEPT ![r] = n]
  <2> DEFINE q == [h[r] EXCEPT !.pc = "commit", !.staged = {"targets"},
                               !.meta.targets.releases = releases]
  <2>1. h' = [h EXCEPT ![r] = q]
    BY DEF StageRelease
  <2>2. q = n
    BY <1>1 DEF Handle, Metadata
  <2>3. QED
    BY <2>1, <2>2
<1> HIDE DEF n
<1>5. n.pc # "reading" /\ n.pc # "staging"
  BY <1>3
<1>6. QED
  BY <1>3, <1>4, <1>5, HandleReplaced

LEMMA CloneType ==
    ASSUME TypeInv, NEW r \in Requests, Clone(r)
    PROVE  h' \in [Requests -> Handle] /\ HandleShape'
<1> DEFINE todo == {ch \in Channels : Config[head][ch] # NoRelease}
           pc == IF todo = {} THEN "commit" ELSE "staging"
           n == [h[r] EXCEPT !.commit = head, !.todo = todo, !.pc = pc]
<1>1. h[r] \in Handle /\ head \in Commits
  BY DEF TypeInv, TypeOK
<1>2. pc \in {"commit", "staging"} /\ todo \in SUBSET Channels
  OBVIOUS
<1>3. h' = [h EXCEPT ![r] = n]
  BY DEF Clone
<1> HIDE DEF todo, pc
<1>4. /\ n \in Handle /\ n.pc = pc /\ n.commit = head
      /\ n.op = h[r].op /\ n.release = h[r].release
  BY <1>1, <1>2 DEF Handle
<1> HIDE DEF n
<1>5. n.pc # "reading"
  BY <1>2, <1>4
<1>6. QED
  BY <1>1, <1>3, <1>4, <1>5, HandleReplaced

LEMMA StageChannelType ==
    ASSUME TypeInv, NEW r \in Requests, StageChannel(r)
    PROVE  h' \in [Requests -> Handle] /\ HandleShape' /\ channelFile' \in Channeled
<1>1. PICK ch \in h[r].todo :
        LET release == Config[h[r].commit][ch]
            todo    == h[r].todo \ {ch}
        IN  /\ channelFile' = [channelFile EXCEPT ![ch] = release]
            /\ h' = [h EXCEPT ![r] = [h[r] EXCEPT !.meta.targets.channels[ch] = release,
                                                  !.staged = {"targets"}, !.todo = todo,
                                       !.pc = IF todo = {} THEN "commit" ELSE "staging"]]
  BY DEF StageChannel, TypeInv, TypeOK
<1> DEFINE release == Config[h[r].commit][ch]
           todo == h[r].todo \ {ch}
           pc == IF todo = {} THEN "commit" ELSE "staging"
           t == [h[r].meta.targets EXCEPT !.channels = [@ EXCEPT ![ch] = release]]
           m == [h[r].meta EXCEPT !.targets = t]
           n == [h[r] EXCEPT !.meta = m, !.staged = {"targets"}, !.todo = todo, !.pc = pc]
<1>2. /\ h[r] \in Handle /\ h[r].meta \in Metadata /\ h[r].todo \in SUBSET Channels
      /\ h[r].commit \in Commits /\ ch \in Channels
  BY DEF TypeInv, TypeOK, HandleShape, Handle, StageChannel
<1>3. release \in Releases \cup {NoRelease}
  BY <1>2, PublicationAssumption
<1>4. channelFile' \in Channeled
  <2>1. channelFile' = [channelFile EXCEPT ![ch] = release] /\ channelFile \in Channeled
    BY <1>1 DEF TypeInv, TypeOK
  <2> HIDE DEF release
  <2>2. QED
    BY <1>3, <2>1 DEF Channeled
<1>5. m \in Metadata
  <2> HIDE DEF release
  <2>1. h[r].meta.targets.channels \in Channeled
    BY <1>2, MetadataFields
  <2>2. [h[r].meta.targets.channels EXCEPT ![ch] = release] \in Channeled
    BY <1>3, <2>1 DEF Channeled
  <2>3. t \in [id : Idents, releases : SUBSET Releases, channels : Channeled]
    BY <1>2, <2>2, MetadataFields
  <2> HIDE DEF t
  <2>4. QED
    BY <1>2, <2>3 DEF Metadata
<1>6. h' = [h EXCEPT ![r] = n]
  <2>1. h' = [h EXCEPT ![r] = [h[r] EXCEPT !.meta.targets.channels[ch] = release,
                                           !.staged = {"targets"}, !.todo = todo, !.pc = pc]]
    BY <1>1
  <2> HIDE DEF release, todo, pc
  <2>2. [h[r] EXCEPT !.meta.targets.channels[ch] = release,
                     !.staged = {"targets"}, !.todo = todo, !.pc = pc] = n
    BY <1>2 DEF Handle, Metadata, Channeled
  <2>3. QED
    BY <2>1, <2>2
<1>7. pc \in {"commit", "staging"} /\ todo \in SUBSET Channels
  BY <1>2
<1>8. /\ n \in Handle /\ n.pc = pc /\ n.commit = h[r].commit
      /\ n.op = h[r].op /\ n.release = h[r].release
  <2> HIDE DEF m, pc, todo
  <2>1. QED
    BY <1>2, <1>5, <1>7 DEF Handle, Roles
<1> HIDE DEF n, pc
<1>9. n.pc # "reading"
  BY <1>7, <1>8
<1>10. QED
  BY <1>2, <1>4, <1>6, <1>8, <1>9, HandleReplaced

LEMMA CommitType ==
    ASSUME TypeInv, NEW r \in Requests, NEW staged \in SUBSET Roles, NEW m \in Metadata,
           h' = [h EXCEPT ![r] = [h[r] EXCEPT !.pc = "committing", !.staged = staged, !.meta = m]]
    PROVE  h' \in [Requests -> Handle] /\ HandleShape'
<1> DEFINE n == [h[r] EXCEPT !.pc = "committing", !.staged = staged, !.meta = m]
<1>1. h[r] \in Handle
  BY DEF TypeInv, TypeOK
<1>2. n \in Handle /\ n.pc = "committing" /\ n.op = h[r].op /\ n.release = h[r].release
  BY <1>1 DEF Handle
<1>3. h' = [h EXCEPT ![r] = n]
  OBVIOUS
<1> HIDE DEF n
<1>4. n.pc # "reading" /\ n.pc # "staging"
  BY <1>2
<1>5. QED
  BY <1>2, <1>3, <1>4, HandleReplaced

LEMMA CommitStagedType ==
    ASSUME TypeInv, NEW r \in Requests, CommitStaged(r)
    PROVE  h' \in [Requests -> Handle] /\ HandleShape'
<1> DEFINE staged == h[r].staged \cup {"snapshot", "timestamp"}
           m == NewVersions(h[r].meta, staged)
<1>1. h[r].staged \in SUBSET Roles /\ h[r].meta \in Metadata
  BY DEF TypeInv, TypeOK, Handle
<1>2. staged \in SUBSET Roles /\ m \in Metadata
  BY <1>1, NewVersionsType DEF Roles
<1>3. h' = [h EXCEPT ![r] = [h[r] EXCEPT !.pc = "committing", !.staged = staged, !.meta = m]]
  BY DEF CommitStaged
<1> HIDE DEF staged, m
<1>4. QED
  BY <1>2, <1>3, CommitType

LEMMA RotateType ==
    ASSUME TypeInv, NEW r \in Requests, NEW due \in Dues, Rotate(r, due)
    PROVE  /\ h' \in [Requests -> Handle] /\ HandleShape'
           /\ current' \in Requests \cup {NoRequest}
<1> DEFINE staged == Rotated(due)
           m == NewVersions(h[r].meta, staged)
<1>1. CASE staged # {} /\ Consistent(m)
  <2>1. h[r].meta \in Metadata
    BY DEF TypeInv, TypeOK, Handle
  <2>2. staged \in SUBSET Roles /\ m \in Metadata
    BY <2>1, NewVersionsType, PublicationAssumption DEF Roles, Rotated
  <2>3. /\ h' = [h EXCEPT ![r] = [h[r] EXCEPT !.pc = "committing", !.staged = staged, !.meta = m]]
        /\ current' = current
    BY <1>1 DEF Rotate
  <2> HIDE DEF staged, m
  <2>4. QED
    BY <2>2, <2>3, CommitType DEF TypeInv, TypeOK
<1>2. CASE ~(staged # {} /\ Consistent(m))
  <2>1. EndTask(r)
    BY <1>2 DEF Rotate
  <2>2. QED
    BY <2>1, EndTaskType
<1>3. QED
  BY <1>1, <1>2

LEMMA WriteMetaType ==
    ASSUME TypeInv, NEW r \in Requests, WriteMeta(r)
    PROVE  h' \in [Requests -> Handle] /\ HandleShape' /\ store' \in Metadata
<1>1. PICK role \in h[r].staged :
        /\ store' = [store EXCEPT ![role] = h[r].meta[role]]
        /\ h' = [h EXCEPT ![r] = [h[r] EXCEPT !.staged = h[r].staged \ {role},
                                   !.pc = IF role = "root" THEN "rootcopy" ELSE "committing"]]
  BY DEF WriteMeta
<1> DEFINE pc == IF role = "root" THEN "rootcopy" ELSE "committing"
           n == [h[r] EXCEPT !.staged = h[r].staged \ {role}, !.pc = pc]
<1>2. /\ h[r] \in Handle /\ h[r].staged \in SUBSET Roles /\ h[r].meta \in Metadata
      /\ store \in Metadata /\ role \in Roles
  BY DEF TypeInv, TypeOK, Handle
<1>3. store' \in Metadata
  BY <1>1, <1>2, MetadataReplaced
<1>4. h' = [h EXCEPT ![r] = n]
  BY <1>1
<1>5. pc \in {"rootcopy", "committing"}
  OBVIOUS
<1> HIDE DEF pc
<1>6. n \in Handle /\ n.pc = pc /\ n.op = h[r].op /\ n.release = h[r].release
  BY <1>2, <1>5 DEF Handle
<1> HIDE DEF n
<1>7. n.pc # "reading" /\ n.pc # "staging"
  BY <1>5, <1>6
<1>8. QED
  BY <1>3, <1>4, <1>6, <1>7, HandleReplaced

LEMMA PcType ==
    ASSUME TypeInv, NEW r \in Requests, NEW pc \in {"committing", "record"},
           h' = [h EXCEPT ![r] = [h[r] EXCEPT !.pc = pc]]
    PROVE  h' \in [Requests -> Handle] /\ HandleShape'
<1> DEFINE n == [h[r] EXCEPT !.pc = pc]
<1>1. h[r] \in Handle
  BY DEF TypeInv, TypeOK
<1>2. n \in Handle /\ n.pc = pc /\ n.op = h[r].op /\ n.release = h[r].release
  BY <1>1 DEF Handle
<1>3. h' = [h EXCEPT ![r] = n]
  OBVIOUS
<1> HIDE DEF n
<1>4. n.pc # "reading" /\ n.pc # "staging"
  BY <1>2
<1>5. QED
  BY <1>2, <1>3, <1>4, HandleReplaced

LEMMA AbandonType ==
    ASSUME TypeInv, NEW r \in Requests, Abandon(r)
    PROVE  h' \in [Requests -> Handle] /\ HandleShape'
<1> DEFINE n == [h[r] EXCEPT !.stray = TRUE]
<1>1. h[r] \in Handle
  BY DEF TypeInv, TypeOK
<1>2. /\ n \in Handle /\ n.pc = h[r].pc /\ n.read = h[r].read /\ n.commit = h[r].commit
      /\ n.op = h[r].op /\ n.release = h[r].release
  BY <1>1 DEF Handle
<1>3. h' = [h EXCEPT ![r] = n]
  BY DEF Abandon
<1>4. /\ h[r].pc = "reading" => h[r].read \in 0 .. 3
      /\ h[r].pc = "staging" => h[r].commit \in Commits
  BY DEF TypeInv, HandleShape
<1> HIDE DEF n
<1>5. QED
  BY <1>2, <1>3, <1>4, HandleReplaced

LEMMA CrashType == Crash => h' \in [Requests -> Handle] /\ HandleShape'
<1>1. Crash => h' \in [Requests -> Handle]
  BY IdleType DEF Crash
<1>2. Crash => HandleShape'
  BY DEF Crash, HandleShape, Idle
<1>3. QED
  BY <1>1, <1>2

LEMMA TypeStep == TypeInv /\ [Next]_vars => TypeInv'
<1> SUFFICES ASSUME TypeInv, [Next]_vars PROVE TypeInv'
  OBVIOUS
<1> USE DEF bucket, counters
<1>1. ASSUME NEW r \in Requests, Release(r) PROVE TypeInv'
  <2>1. PICK release \in Releases : Begin(r, "release", release)
    BY <1>1 DEF Release
  <2>2. h' \in [Requests -> Handle] /\ HandleShape'
    BY <2>1, BeginType
  <2>3. QED
    BY <1>1, <2>1, <2>2 DEF Release, Begin, TypeInv, TypeOK
<1>2. ASSUME NEW r \in Requests, Publish(r) PROVE TypeInv'
  <2>1. Begin(r, "publish", NoRelease)
    BY <1>2 DEF Publish
  <2>2. h' \in [Requests -> Handle] /\ HandleShape'
    BY <2>1, BeginType
  <2>3. opened' \in Nat
    BY <1>2, PublicationAssumption DEF Publish, TypeInv, TypeOK
  <2>4. QED
    BY <1>2, <2>1, <2>2, <2>3 DEF Publish, Begin, TypeInv, TypeOK
<1>3. ASSUME NEW r \in Requests, Periodic(r) PROVE TypeInv'
  <2>1. Begin(r, "periodic", NoRelease)
    BY <1>3 DEF Periodic
  <2>2. h' \in [Requests -> Handle] /\ HandleShape'
    BY <2>1, BeginType
  <2>3. opened' \in Nat
    BY <1>3, PublicationAssumption DEF Periodic, TypeInv, TypeOK
  <2>4. QED
    BY <1>3, <2>1, <2>2, <2>3 DEF Periodic, Begin, TypeInv, TypeOK
<1>4. ASSUME NEW r \in Requests, ReadMeta(r) PROVE TypeInv'
  <2>1. QED
    BY <1>4, ReadMetaType DEF ReadMeta, TypeInv, TypeOK
<1>5. ASSUME NEW r \in Requests, Busy(r) PROVE TypeInv'
  <2>1. Idle.pc = "none" /\ Idle.op = "none"
    BY DEF Idle
  <2>2. h' \in [Requests -> Handle] /\ HandleShape'
    BY <1>5, <2>1, IdleType, HandleReplaced DEF Busy
  <2>3. QED
    BY <1>5, <2>2 DEF Busy, TypeInv, TypeOK
<1>6. ASSUME NEW r \in Requests, RunTask(r) PROVE TypeInv'
  <2>1. QED
    BY <1>6, RunTaskType DEF RunTask, TypeInv, TypeOK
<1>7. ASSUME NEW r \in Requests, StageRelease(r) PROVE TypeInv'
  <2>1. QED
    BY <1>7, StageReleaseType DEF StageRelease, TypeInv, TypeOK
<1>8. ASSUME NEW r \in Requests, Clone(r) PROVE TypeInv'
  <2>1. QED
    BY <1>8, CloneType DEF Clone, TypeInv, TypeOK
<1>9. ASSUME NEW r \in Requests, SkipPublish(r) PROVE TypeInv'
  <2>1. QED
    BY <1>9, EndTaskType DEF SkipPublish, TypeInv, TypeOK
<1>10. ASSUME NEW r \in Requests, StageChannel(r) PROVE TypeInv'
  <2>1. QED
    BY <1>10, StageChannelType DEF StageChannel, TypeInv, TypeOK
<1>11. ASSUME NEW r \in Requests, CommitStaged(r) PROVE TypeInv'
  <2>1. QED
    BY <1>11, CommitStagedType DEF CommitStaged, TypeInv, TypeOK
<1>12. ASSUME NEW r \in Requests, NEW due \in Dues, Rotate(r, due) PROVE TypeInv'
  <2>1. h' \in [Requests -> Handle] /\ HandleShape' /\ current' \in Requests \cup {NoRequest}
    BY <1>12, RotateType
  <2>2. QED
    BY <1>12, <2>1 DEF Rotate, TypeInv, TypeOK
<1>13. ASSUME NEW r \in Requests, WriteMeta(r) PROVE TypeInv'
  <2>1. QED
    BY <1>13, WriteMetaType DEF WriteMeta, TypeInv, TypeOK
<1>14. ASSUME NEW r \in Requests, WriteRootCopy(r) PROVE TypeInv'
  <2>1. h' = [h EXCEPT ![r] = [h[r] EXCEPT !.pc = "committing"]]
    BY <1>14 DEF WriteRootCopy
  <2>2. h' \in [Requests -> Handle] /\ HandleShape'
    BY <2>1, PcType
  <2>3. rootCopies' \subseteq Nat
    <3>1. h[r].meta \in Metadata
      BY DEF TypeInv, TypeOK, Handle
    <3>2. h[r].meta.root.id \in Nat
      BY <3>1, MetadataFields
    <3>3. QED
      BY <1>14, <3>2 DEF WriteRootCopy, TypeInv, TypeOK
  <2>4. QED
    BY <1>14, <2>2, <2>3 DEF WriteRootCopy, TypeInv, TypeOK
<1>15. ASSUME NEW r \in Requests, Committed(r) PROVE TypeInv'
  <2>1. CASE h[r].op = "publish"
    <3>1. h' = [h EXCEPT ![r] = [h[r] EXCEPT !.pc = "record"]]
      BY <1>15, <2>1 DEF Committed
    <3>2. h' \in [Requests -> Handle] /\ HandleShape'
      BY <3>1, PcType
    <3>3. QED
      BY <1>15, <2>1, <3>2 DEF Committed, TypeInv, TypeOK
  <2>2. CASE h[r].op # "publish"
    <3>1. EndTask(r)
      BY <1>15, <2>2 DEF Committed
    <3>2. QED
      BY <1>15, <3>1, EndTaskType DEF Committed, TypeInv, TypeOK
  <2>3. QED
    BY <2>1, <2>2
<1>16. ASSUME NEW r \in Requests, RecordCommit(r) PROVE TypeInv'
  <2>1. lastPublished' \in Commits \cup {NoCommit}
    BY <1>16 DEF RecordCommit, TypeInv, TypeOK, Handle
  <2>2. QED
    BY <1>16, <2>1, EndTaskType DEF RecordCommit, TypeInv, TypeOK
<1>17. ASSUME NEW r \in Requests, TaskRefused(r) PROVE TypeInv'
  <2>1. QED
    BY <1>17, EndTaskType DEF TaskRefused, TypeInv, TypeOK
<1>18. ASSUME NEW r \in Requests, StrayStops(r) PROVE TypeInv'
  <2>1. QED
    BY <1>18, EndTaskType DEF StrayStops, TypeInv, TypeOK
<1>19. ASSUME NEW r \in Requests, CallFails(r) PROVE TypeInv'
  <2>1. QED
    BY <1>19, EndTaskType DEF CallFails, TypeInv, TypeOK
<1>20. ASSUME NEW r \in Requests, Abandon(r) PROVE TypeInv'
  <2>1. h' \in [Requests -> Handle] /\ HandleShape'
    BY <1>20, AbandonType
  <2>2. QED
    BY <1>20, <2>1 DEF Abandon, TypeInv, TypeOK
<1>21. CASE Crash
  BY <1>21, CrashType DEF Crash, TypeInv, TypeOK
<1>22. CASE DeleteLastPublished
  BY <1>22 DEF DeleteLastPublished, TypeInv, TypeOK, HandleShape
<1>23. CASE Push
  BY <1>23 DEF Push, TypeInv, TypeOK, HandleShape
<1>24. CASE HourPasses
  BY <1>24 DEF HourPasses, TypeInv, TypeOK, HandleShape
<1>25. CASE UNCHANGED vars
  BY <1>25 DEF vars, TypeInv, TypeOK, HandleShape
<1>26. QED
  BY <1>1, <1>2, <1>3, <1>4, <1>5, <1>6, <1>7, <1>8, <1>9, <1>10, <1>11, <1>12, <1>13, <1>14, <1>15, <1>16, <1>17, <1>18, <1>19, <1>20, <1>21, <1>22, <1>23, <1>24, <1>25 DEF Next, Proceed

\* Every variable keeps its type, whatever requests, failures and restarts come.
THEOREM PublicationTypes == Spec => []TypeOK
<1>1. Init => TypeInv
  BY TypeInit
<1>2. TypeInv /\ [Next]_vars => TypeInv'
  BY TypeStep
<1>3. TypeInv => TypeOK
  BY DEF TypeInv
<1>4. QED
  BY <1>1, <1>2, <1>3, PTL DEF Spec

-----------------------------------------------------------------------------
(* The channels of targets.json *)

\* Every handle is as sound as the bucket, whenever it was read, and a publish
\* has checked all that it is about to stage.
ReleasesKnown ==
    /\ PointsToReleases(store.targets)
    /\ \A r \in Requests :
         /\ PointsToReleases(h[r].meta.targets)
         /\ h[r].pc = "staging" => ValidatePublishConfig(r, h[r].commit)

KnownInv == TypeInv /\ ReleasesKnown

LEMMA FirstKnown == PointsToReleases(FirstMetadata.targets)
BY DEF PointsToReleases, FirstMetadata, NoChannels

LEMMA KnownInit == Init => ReleasesKnown
<1> SUFFICES ASSUME Init PROVE ReleasesKnown
  OBVIOUS
<1>1. store = FirstMetadata
  BY DEF Init
<1>2. ASSUME NEW r \in Requests PROVE h[r].meta = FirstMetadata /\ h[r].pc = "none"
  BY DEF Init, Idle
<1>3. QED
  BY <1>1, <1>2, FirstKnown DEF ReleasesKnown

LEMMA KnownReplaced ==
    ASSUME KnownInv, NEW r \in Requests, NEW n, h' = [h EXCEPT ![r] = n],
           PointsToReleases(n.meta.targets), PointsToReleases(store'.targets),
           n.pc = "staging" =>
               \A ch \in Channels :
                   Config[n.commit][ch] \in n.meta.targets.releases \cup {NoRelease}
    PROVE  ReleasesKnown'
<1>1. h'[r] = n /\ \A q \in Requests \ {r} : h'[q] = h[q]
  BY DEF KnownInv, TypeInv, TypeOK
<1>2. QED
  BY <1>1 DEF ReleasesKnown, PointsToReleases, ValidatePublishConfig, KnownInv

LEMMA IdleKnown ==
    ASSUME KnownInv, NEW r \in Requests, h' = [h EXCEPT ![r] = Idle], store' = store
    PROVE  ReleasesKnown'
<1>1. Idle.meta = FirstMetadata /\ Idle.pc = "none"
  BY DEF Idle
<1>2. PointsToReleases(store'.targets)
  BY DEF KnownInv, ReleasesKnown
<1>3. QED
  BY <1>1, <1>2, FirstKnown, KnownReplaced

\* Steps that neither touch the targets of a handle nor begin to stage.
LEMMA TargetsKept ==
    ASSUME KnownInv, NEW r \in Requests, NEW n, h' = [h EXCEPT ![r] = n],
           n.meta.targets = h[r].meta.targets, n.pc # "staging", store' = store
    PROVE  ReleasesKnown'
<1>1. PointsToReleases(n.meta.targets) /\ PointsToReleases(store'.targets)
  BY DEF KnownInv, ReleasesKnown, PointsToReleases
<1>2. QED
  BY <1>1, KnownReplaced

LEMMA NewVersionsTargets ==
    ASSUME NEW m \in Metadata, NEW roles
    PROVE  /\ NewVersions(m, roles).targets.releases = m.targets.releases
           /\ NewVersions(m, roles).targets.channels = m.targets.channels
BY MetadataFields DEF NewVersions

LEMMA CommitKnown ==
    ASSUME KnownInv, NEW r \in Requests, NEW roles, NEW staged, store' = store,
           h' = [h EXCEPT ![r] = [h[r] EXCEPT !.pc = "committing", !.staged = staged,
                                              !.meta = NewVersions(h[r].meta, roles)]]
    PROVE  ReleasesKnown'
<1> DEFINE m == NewVersions(h[r].meta, roles)
           n == [h[r] EXCEPT !.pc = "committing", !.staged = staged, !.meta = m]
<1>1. h[r] \in Handle /\ h[r].meta \in Metadata
  BY DEF KnownInv, TypeInv, TypeOK, Handle
<1>2. PointsToReleases(m.targets)
  <2>1. PointsToReleases(h[r].meta.targets)
    BY DEF KnownInv, ReleasesKnown
  <2> HIDE DEF m
  <2>2. m.targets.releases = h[r].meta.targets.releases
        /\ m.targets.channels = h[r].meta.targets.channels
    BY <1>1, NewVersionsTargets DEF m
  <2>3. QED
    BY <2>1, <2>2 DEF PointsToReleases
<1> HIDE DEF m
<1>3. n.meta = m /\ n.pc = "committing"
  BY <1>1 DEF Handle
<1>4. h' = [h EXCEPT ![r] = n]
  BY DEF m
<1>5. PointsToReleases(store'.targets)
  BY DEF KnownInv, ReleasesKnown
<1> HIDE DEF n
<1>6. QED
  BY <1>2, <1>3, <1>4, <1>5, KnownReplaced

LEMMA BeginKnown ==
    ASSUME KnownInv, NEW r \in Requests, NEW op, NEW release, Begin(r, op, release)
    PROVE  ReleasesKnown'
<1> DEFINE n == [Idle EXCEPT !.op = op, !.pc = "reading", !.release = release,
                             !.last = IF op = "publish" THEN LastPublished ELSE NoCommit]
<1>1. n.meta = FirstMetadata /\ n.pc = "reading"
  BY DEF Idle
<1>2. h' = [h EXCEPT ![r] = n] /\ store' = store
  BY DEF Begin, bucket
<1>3. PointsToReleases(store'.targets)
  BY <1>2 DEF KnownInv, ReleasesKnown
<1> HIDE DEF n
<1>4. QED
  BY <1>1, <1>2, <1>3, FirstKnown, KnownReplaced

LEMMA ReadMetaKnown ==
    ASSUME KnownInv, NEW r \in Requests, ReadMeta(r)
    PROVE  ReleasesKnown'
<1> DEFINE k == h[r].read + 1
           role == TopLevelManifests[k]
           pc == IF k = 4 THEN "opened" ELSE "reading"
           n == [h[r] EXCEPT !.read = k, !.meta[role] = store[role], !.pc = pc]
<1>1. /\ h[r] \in Handle /\ h[r].meta \in Metadata /\ store \in Metadata
      /\ h' = [h EXCEPT ![r] = n] /\ store' = store
  BY DEF KnownInv, TypeInv, TypeOK, ReadMeta, bucket, Handle
<1>2. PointsToReleases(h[r].meta.targets) /\ PointsToReleases(store.targets)
  BY DEF KnownInv, ReleasesKnown
<1>3. pc # "staging"
  OBVIOUS
<1>4. n.meta = [h[r].meta EXCEPT ![role] = store[role]] /\ n.pc = pc
  <2> HIDE DEF role, k, pc
  <2>1. QED
    BY <1>1 DEF Handle
<1>5. n.meta.targets \in {h[r].meta.targets, store.targets}
  <2> HIDE DEF role, n
  <2>1. QED
    BY <1>1, <1>4 DEF Metadata
<1> HIDE DEF n, pc
<1>6. PointsToReleases(n.meta.targets) /\ PointsToReleases(store'.targets)
  BY <1>1, <1>2, <1>5 DEF PointsToReleases
<1>7. QED
  BY <1>1, <1>3, <1>4, <1>6, KnownReplaced

LEMMA PcKnown ==
    ASSUME KnownInv, NEW r \in Requests, NEW pc, pc # "staging", store' = store,
           h' = [h EXCEPT ![r] = [h[r] EXCEPT !.pc = pc]]
    PROVE  ReleasesKnown'
<1> DEFINE n == [h[r] EXCEPT !.pc = pc]
<1>1. h[r] \in Handle
  BY DEF KnownInv, TypeInv, TypeOK
<1>2. n.pc # "staging" /\ n.meta.targets = h[r].meta.targets
  BY <1>1 DEF Handle
<1>3. h' = [h EXCEPT ![r] = n]
  OBVIOUS
<1> HIDE DEF n
<1>4. QED
  BY <1>2, <1>3, TargetsKept

LEMMA RunTaskKnown ==
    ASSUME KnownInv, NEW r \in Requests, RunTask(r)
    PROVE  ReleasesKnown'
<1> DEFINE late == Overtaken(r)
           n == [h[r] EXCEPT !.pc = "task", !.late = late]
<1>1. h[r] \in Handle /\ h' = [h EXCEPT ![r] = n] /\ store' = store
  BY DEF KnownInv, TypeInv, TypeOK, RunTask, bucket
<1> HIDE DEF late
<1>2. n.pc # "staging" /\ n.meta.targets = h[r].meta.targets
  BY <1>1 DEF Handle
<1> HIDE DEF n
<1>3. QED
  BY <1>1, <1>2, TargetsKept

LEMMA StageReleaseKnown ==
    ASSUME KnownInv, NEW r \in Requests, StageRelease(r)
    PROVE  ReleasesKnown'
<1> DEFINE releases == h[r].meta.targets.releases \cup {h[r].release}
           n == [h[r] EXCEPT !.pc = "commit", !.staged = {"targets"},
                             !.meta.targets.releases = releases]
<1>1. h[r] \in Handle /\ h[r].meta \in Metadata
  BY DEF KnownInv, TypeInv, TypeOK, Handle
<1>2. h' = [h EXCEPT ![r] = n] /\ store' = store
  BY DEF StageRelease, bucket
<1>3. /\ n.pc = "commit" /\ n.meta.targets.releases = releases
      /\ n.meta.targets.channels = h[r].meta.targets.channels
  <2> HIDE DEF releases
  <2>1. QED
    BY <1>1 DEF Handle, Metadata
<1>4. PointsToReleases(h[r].meta.targets) /\ PointsToReleases(store'.targets)
  BY <1>2 DEF KnownInv, ReleasesKnown
<1> HIDE DEF n
<1>5. PointsToReleases(n.meta.targets)
  BY <1>3, <1>4 DEF PointsToReleases
<1>6. QED
  BY <1>2, <1>3, <1>4, <1>5, KnownReplaced

LEMMA CloneKnown ==
    ASSUME KnownInv, NEW r \in Requests, Clone(r)
    PROVE  ReleasesKnown'
<1> DEFINE todo == {ch \in Channels : Config[head][ch] # NoRelease}
           pc == IF todo = {} THEN "commit" ELSE "staging"
           n == [h[r] EXCEPT !.commit = head, !.todo = todo, !.pc = pc]
<1>1. h[r] \in Handle
  BY DEF KnownInv, TypeInv, TypeOK
<1>2. h' = [h EXCEPT ![r] = n] /\ store' = store /\ ValidatePublishConfig(r, head)
  BY DEF Clone, bucket
<1>3. n.meta = h[r].meta /\ n.commit = head
  <2> HIDE DEF todo, pc
  <2>1. QED
    BY <1>1 DEF Handle
<1>4. PointsToReleases(h[r].meta.targets) /\ PointsToReleases(store'.targets)
  BY <1>2 DEF KnownInv, ReleasesKnown
<1> HIDE DEF n
<1>5. QED
  BY <1>2, <1>3, <1>4, KnownReplaced DEF ValidatePublishConfig

LEMMA StageChannelKnown ==
    ASSUME KnownInv, NEW r \in Requests, StageChannel(r)
    PROVE  ReleasesKnown'
<1>1. PICK ch \in h[r].todo :
        LET release == Config[h[r].commit][ch]
            todo    == h[r].todo \ {ch}
        IN  h' = [h EXCEPT ![r] = [h[r] EXCEPT !.meta.targets.channels[ch] = release,
                                               !.staged = {"targets"}, !.todo = todo,
                                       !.pc = IF todo = {} THEN "commit" ELSE "staging"]]
  BY DEF StageChannel
<1> DEFINE release == Config[h[r].commit][ch]
           todo == h[r].todo \ {ch}
           pc == IF todo = {} THEN "commit" ELSE "staging"
           n == [h[r] EXCEPT !.meta.targets.channels[ch] = release,
                             !.staged = {"targets"}, !.todo = todo, !.pc = pc]
<1>2. h[r] \in Handle /\ h[r].meta \in Metadata /\ ch \in Channels
  BY DEF KnownInv, TypeInv, TypeOK, Handle
<1>3. h' = [h EXCEPT ![r] = n] /\ store' = store /\ h[r].pc = "staging"
  BY <1>1 DEF StageChannel
<1>4. /\ n.commit = h[r].commit
      /\ n.meta.targets.releases = h[r].meta.targets.releases
      /\ \A c \in Channels :
           n.meta.targets.channels[c] = IF c = ch THEN release
                                        ELSE h[r].meta.targets.channels[c]
  <2> HIDE DEF release, todo, pc
  <2>1. QED
    BY <1>2 DEF Handle, Metadata, Channeled
<1>5. \A c \in Channels :
        Config[h[r].commit][c] \in h[r].meta.targets.releases \cup {NoRelease}
  BY <1>3 DEF KnownInv, ReleasesKnown, ValidatePublishConfig
<1>6. PointsToReleases(h[r].meta.targets) /\ PointsToReleases(store'.targets)
  BY <1>3 DEF KnownInv, ReleasesKnown
<1> HIDE DEF n
<1>7. PointsToReleases(n.meta.targets)
  BY <1>2, <1>4, <1>5, <1>6 DEF PointsToReleases
<1>8. QED
  BY <1>3, <1>4, <1>5, <1>6, <1>7, KnownReplaced

LEMMA WriteMetaKnown ==
    ASSUME KnownInv, NEW r \in Requests, WriteMeta(r)
    PROVE  ReleasesKnown'
<1>1. PICK role \in h[r].staged :
        /\ store' = [store EXCEPT ![role] = h[r].meta[role]]
        /\ h' = [h EXCEPT ![r] = [h[r] EXCEPT !.staged = h[r].staged \ {role},
                                   !.pc = IF role = "root" THEN "rootcopy" ELSE "committing"]]
  BY DEF WriteMeta
<1> DEFINE pc == IF role = "root" THEN "rootcopy" ELSE "committing"
           n == [h[r] EXCEPT !.staged = h[r].staged \ {role}, !.pc = pc]
<1>2. h[r] \in Handle /\ h[r].meta \in Metadata /\ store \in Metadata
  BY DEF KnownInv, TypeInv, TypeOK, Handle
<1>3. store'.targets \in {h[r].meta.targets, store.targets}
  BY <1>1, <1>2 DEF Metadata
<1>4. PointsToReleases(h[r].meta.targets) /\ PointsToReleases(store.targets)
  BY DEF KnownInv, ReleasesKnown
<1>5. PointsToReleases(store'.targets)
  BY <1>3, <1>4 DEF PointsToReleases
<1>6. n.meta = h[r].meta /\ n.pc = pc /\ pc # "staging" /\ h' = [h EXCEPT ![r] = n]
  BY <1>1, <1>2 DEF Handle
<1> HIDE DEF n
<1>7. QED
  BY <1>4, <1>5, <1>6, KnownReplaced

LEMMA AbandonKnown ==
    ASSUME KnownInv, NEW r \in Requests, Abandon(r)
    PROVE  ReleasesKnown'
<1> DEFINE n == [h[r] EXCEPT !.stray = TRUE]
<1>1. h[r] \in Handle
  BY DEF KnownInv, TypeInv, TypeOK
<1>2. h' = [h EXCEPT ![r] = n] /\ store' = store
  BY DEF Abandon, bucket
<1>3. n.meta = h[r].meta /\ n.pc = h[r].pc /\ n.commit = h[r].commit
  BY <1>1 DEF Handle
<1>4. PointsToReleases(h[r].meta.targets) /\ PointsToReleases(store'.targets)
  BY <1>2 DEF KnownInv, ReleasesKnown
<1>5. h[r].pc = "staging" =>
        \A ch \in Channels :
            Config[h[r].commit][ch] \in h[r].meta.targets.releases \cup {NoRelease}
  BY DEF KnownInv, ReleasesKnown, ValidatePublishConfig
<1> HIDE DEF n
<1>6. QED
  BY <1>2, <1>3, <1>4, <1>5, KnownReplaced

LEMMA KnownStep == KnownInv /\ [Next]_vars => ReleasesKnown'
<1> SUFFICES ASSUME KnownInv, [Next]_vars PROVE ReleasesKnown'
  OBVIOUS
<1> USE DEF bucket
<1>1. ASSUME NEW r \in Requests, Release(r) \/ Publish(r) \/ Periodic(r) PROVE ReleasesKnown'
  BY <1>1, BeginKnown DEF Release, Publish, Periodic
<1>2. ASSUME NEW r \in Requests, EndTask(r) /\ store' = store PROVE ReleasesKnown'
  BY <1>2, IdleKnown DEF EndTask
<1>3. ASSUME NEW r \in Requests, ReadMeta(r) PROVE ReleasesKnown'
  BY <1>3, ReadMetaKnown
<1>4. ASSUME NEW r \in Requests, Busy(r) PROVE ReleasesKnown'
  BY <1>4, IdleKnown DEF Busy
<1>5. ASSUME NEW r \in Requests, RunTask(r) PROVE ReleasesKnown'
  BY <1>5, RunTaskKnown
<1>6. ASSUME NEW r \in Requests, StageRelease(r) PROVE ReleasesKnown'
  BY <1>6, StageReleaseKnown
<1>7. ASSUME NEW r \in Requests, Clone(r) PROVE ReleasesKnown'
  BY <1>7, CloneKnown
<1>8. ASSUME NEW r \in Requests, StageChannel(r) PROVE ReleasesKnown'
  BY <1>8, StageChannelKnown
<1>9. ASSUME NEW r \in Requests, CommitStaged(r) PROVE ReleasesKnown'
  <2> DEFINE staged == h[r].staged \cup {"snapshot", "timestamp"}
  <2>1. /\ h' = [h EXCEPT ![r] = [h[r] EXCEPT !.pc = "committing", !.staged = staged,
                                              !.meta = NewVersions(h[r].meta, staged)]]
        /\ store' = store
    BY <1>9 DEF CommitStaged
  <2> HIDE DEF staged
  <2>2. QED
    BY <2>1, CommitKnown
<1>10. ASSUME NEW r \in Requests, NEW due \in Dues, Rotate(r, due) PROVE ReleasesKnown'
  <2> DEFINE staged == Rotated(due)
  <2>1. store' = store
    BY <1>10 DEF Rotate
  <2>2. \/ h' = [h EXCEPT ![r] = [h[r] EXCEPT !.pc = "committing", !.staged = staged,
                                              !.meta = NewVersions(h[r].meta, staged)]]
        \/ EndTask(r)
    BY <1>10 DEF Rotate
  <2> HIDE DEF staged
  <2>3. QED
    BY <1>2, <2>1, <2>2, CommitKnown
<1>11. ASSUME NEW r \in Requests, WriteMeta(r) PROVE ReleasesKnown'
  BY <1>11, WriteMetaKnown
<1>12. ASSUME NEW r \in Requests, WriteRootCopy(r) PROVE ReleasesKnown'
  BY <1>12, PcKnown DEF WriteRootCopy
<1>13. ASSUME NEW r \in Requests, Committed(r) PROVE ReleasesKnown'
  <2>1. CASE h[r].op = "publish"
    BY <1>13, <2>1, PcKnown DEF Committed
  <2>2. CASE h[r].op # "publish"
    BY <1>2, <1>13, <2>2 DEF Committed
  <2>3. QED
    BY <2>1, <2>2
<1>14. ASSUME NEW r \in Requests,
              \/ SkipPublish(r) \/ RecordCommit(r) \/ TaskRefused(r) \/ StrayStops(r) \/ CallFails(r)
       PROVE  ReleasesKnown'
  BY <1>2, <1>14 DEF SkipPublish, RecordCommit, TaskRefused, StrayStops, CallFails
<1>15. ASSUME NEW r \in Requests, Abandon(r) PROVE ReleasesKnown'
  BY <1>15, AbandonKnown
<1>16. CASE Crash
  <2>1. \A r \in Requests : h'[r].meta = FirstMetadata /\ h'[r].pc = "none"
    BY <1>16 DEF Crash, Idle
  <2>2. PointsToReleases(store'.targets)
    BY <1>16 DEF Crash, KnownInv, ReleasesKnown
  <2>3. QED
    BY <2>1, <2>2, FirstKnown DEF ReleasesKnown, PointsToReleases
<1>17. CASE UNCHANGED <<store, h>>
  BY <1>17 DEF KnownInv, ReleasesKnown, PointsToReleases, ValidatePublishConfig
<1>18. CASE DeleteLastPublished \/ Push \/ HourPasses \/ UNCHANGED vars
  BY <1>17, <1>18 DEF DeleteLastPublished, Push, HourPasses, vars
<1>19. QED
  BY <1>1, <1>3, <1>4, <1>5, <1>6, <1>7, <1>8, <1>9, <1>10, <1>11, <1>12, <1>13, <1>14,
     <1>15, <1>16, <1>18 DEF Next, Proceed

\* A client that follows a channel finds its release (update.go:129): whatever
\* handles were opened before others committed, tasks given up and calls lost,
\* the published targets.json is one some publish has checked.
THEOREM ChannelsFindReleases == Spec => []ChannelsPointToReleases
<1>1. Init => KnownInv
  BY TypeInit, KnownInit DEF KnownInv
<1>2. KnownInv /\ [Next]_vars => KnownInv'
  BY TypeStep, KnownStep DEF KnownInv
<1>3. KnownInv => ChannelsPointToReleases
  BY DEF KnownInv, ReleasesKnown, ChannelsPointToReleases
<1>4. QED
  BY <1>1, <1>2, <1>3, PTL DEF Spec

-----------------------------------------------------------------------------
(* The last published commit *)

InTask(x) == x.pc \in {"task", "staging", "commit", "committing", "rootcopy", "record"}

HasCloned(x) ==
    x.op = "publish" /\ x.pc \in {"staging", "commit", "committing", "rootcopy", "record"}

\* Only the running task may still record. Unless it was overtaken before it began,
\* the commit it compares with stays the last published one, and what it has cloned
\* descends from that.
InOrder(r, x, running, published) ==
    /\ InTask(x) /\ ~x.stray => running = r
    /\ x.pc \in {"staging", "record"} => x.op = "publish"
    /\ InTask(x) /\ x.op = "publish" /\ ~x.stray /\ ~x.late /\ published \in Commits
          => x.last = published
    /\ HasCloned(x) => /\ x.commit \in Commits
                       /\ x.last \in Commits => IsAncestor(x.last, x.commit)

CommitsInOrder == \A r \in Requests : InOrder(r, h[r], current, lastPublished)

OrderInv == TypeInv /\ CommitsInOrder

LEMMA OrderInit == Init => CommitsInOrder
<1> SUFFICES ASSUME Init PROVE CommitsInOrder
  OBVIOUS
<1>1. \A r \in Requests : h[r].pc = "none"
  BY DEF Init, Idle
<1>2. QED
  BY <1>1 DEF CommitsInOrder, InOrder, InTask, HasCloned

LEMMA OrderReplaced ==
    ASSUME OrderInv, NEW r \in Requests, NEW n, h' = [h EXCEPT ![r] = n],
           current' = current \/ current \in {r, NoRequest},
           lastPublished' = lastPublished, InOrder(r, n, current', lastPublished')
    PROVE  CommitsInOrder'
<1>1. h'[r] = n /\ \A q \in Requests \ {r} : h'[q] = h[q]
  BY DEF OrderInv, TypeInv, TypeOK
<1>2. ASSUME NEW q \in Requests \ {r} PROVE InOrder(q, h'[q], current', lastPublished')
  <2>1. InOrder(q, h[q], current, lastPublished) /\ h'[q] = h[q]
    BY <1>1 DEF OrderInv, CommitsInOrder
  <2>2. current = q => current' = q
    BY PublicationAssumption
  <2>3. QED
    BY <2>1, <2>2 DEF InOrder, InTask, HasCloned, IsAncestor
<1>3. InOrder(r, h'[r], current', lastPublished')
  BY <1>1 DEF InOrder, InTask, HasCloned, IsAncestor
<1>4. QED
  BY <1>2, <1>3 DEF CommitsInOrder

\* A step of a task within the task, or of a request before it.
LEMMA OrderKept ==
    ASSUME OrderInv, NEW r \in Requests, NEW n, h' = [h EXCEPT ![r] = n],
           UNCHANGED <<current, lastPublished>>,
           n.op = h[r].op, n.commit = h[r].commit, n.stray = h[r].stray,
           n.last = h[r].last, n.late = h[r].late,
           InTask(n) => InTask(h[r]), HasCloned(n) => HasCloned(h[r]),
           n.pc \in {"staging", "record"} => n.op = "publish"
    PROVE  CommitsInOrder'
<1>1. InOrder(r, h[r], current, lastPublished)
  BY DEF OrderInv, CommitsInOrder
<1>2. InOrder(r, n, current', lastPublished')
  BY <1>1 DEF InOrder, InTask, HasCloned, IsAncestor
<1>3. QED
  BY <1>2, OrderReplaced

LEMMA OrderIdle ==
    ASSUME OrderInv, NEW r \in Requests, h' = [h EXCEPT ![r] = Idle],
           current' = current \/ current = r, UNCHANGED lastPublished
    PROVE  CommitsInOrder'
<1>1. ~InTask(Idle) /\ ~HasCloned(Idle) /\ Idle.pc = "none"
  BY DEF Idle, InTask, HasCloned
<1>2. InOrder(r, Idle, current', lastPublished')
  BY <1>1 DEF InOrder, InTask, HasCloned
<1>3. QED
  BY <1>2, OrderReplaced

LEMMA OrderPc ==
    ASSUME OrderInv, NEW r \in Requests, NEW pc \in {"committing", "record"},
           h[r].pc \in {"committing", "rootcopy"}, pc = "record" => h[r].op = "publish",
           h' = [h EXCEPT ![r] = [h[r] EXCEPT !.pc = pc]],
           UNCHANGED <<current, lastPublished>>
    PROVE  CommitsInOrder'
<1> DEFINE n == [h[r] EXCEPT !.pc = pc]
<1>1. h[r] \in Handle
  BY DEF OrderInv, TypeInv, TypeOK
<1>2. /\ n.pc = pc /\ n.op = h[r].op /\ n.commit = h[r].commit /\ n.stray = h[r].stray
      /\ n.last = h[r].last /\ n.late = h[r].late
  BY <1>1 DEF Handle
<1>3. h' = [h EXCEPT ![r] = n]
  OBVIOUS
<1> HIDE DEF n
<1>4. QED
  <2>1. InTask(n) => InTask(h[r])
    BY <1>2 DEF InTask
  <2>2. HasCloned(n) => HasCloned(h[r])
    BY <1>2 DEF HasCloned
  <2>3. n.pc \in {"staging", "record"} => n.op = "publish"
    BY <1>2
  <2>4. QED
    BY <1>2, <1>3, <2>1, <2>2, <2>3, OrderKept

LEMMA OrderCommit ==
    ASSUME OrderInv, NEW r \in Requests, NEW staged, NEW m,
           h[r].pc = "commit" \/ (h[r].pc = "task" /\ h[r].op # "publish"),
           h' = [h EXCEPT ![r] = [h[r] EXCEPT !.pc = "committing", !.staged = staged, !.meta = m]],
           UNCHANGED <<current, lastPublished>>
    PROVE  CommitsInOrder'
<1> DEFINE n == [h[r] EXCEPT !.pc = "committing", !.staged = staged, !.meta = m]
<1>1. h[r] \in Handle
  BY DEF OrderInv, TypeInv, TypeOK
<1>2. /\ n.pc = "committing" /\ n.op = h[r].op /\ n.commit = h[r].commit
      /\ n.stray = h[r].stray /\ n.last = h[r].last /\ n.late = h[r].late
  BY <1>1 DEF Handle
<1>3. h' = [h EXCEPT ![r] = n]
  OBVIOUS
<1> HIDE DEF n
<1>4. QED
  <2>1. InTask(n) => InTask(h[r])
    BY <1>2 DEF InTask
  <2>2. HasCloned(n) => HasCloned(h[r])
    BY <1>2 DEF HasCloned
  <2>3. n.pc \in {"staging", "record"} => n.op = "publish"
    BY <1>2
  <2>4. QED
    BY <1>2, <1>3, <2>1, <2>2, <2>3, OrderKept

LEMMA OrderBegin ==
    ASSUME OrderInv, NEW r \in Requests, NEW op, NEW release, Begin(r, op, release)
    PROVE  CommitsInOrder'
<1> DEFINE last == IF op = "publish" THEN LastPublished ELSE NoCommit
           n == [Idle EXCEPT !.op = op, !.pc = "reading", !.release = release,
                             !.last = last]
<1>1. n.pc = "reading"
  BY DEF Idle
<1>2. h' = [h EXCEPT ![r] = n] /\ UNCHANGED <<current, lastPublished>>
  BY DEF Begin
<1> HIDE DEF n
<1>3. InOrder(r, n, current', lastPublished')
  BY <1>1 DEF InOrder, InTask, HasCloned
<1>4. QED
  BY <1>2, <1>3, OrderReplaced

LEMMA OrderReadMeta ==
    ASSUME OrderInv, NEW r \in Requests, ReadMeta(r)
    PROVE  CommitsInOrder'
<1> DEFINE k == h[r].read + 1
           role == TopLevelManifests[k]
           pc == IF k = 4 THEN "opened" ELSE "reading"
           n == [h[r] EXCEPT !.read = k, !.meta[role] = store[role], !.pc = pc]
<1>1. h[r] \in Handle /\ h' = [h EXCEPT ![r] = n] /\ UNCHANGED <<current, lastPublished>>
  BY DEF OrderInv, TypeInv, TypeOK, ReadMeta
<1>2. pc \in {"opened", "reading"}
  OBVIOUS
<1>3. n.pc = pc
  <2> HIDE DEF role, k, pc
  <2>1. QED
    BY <1>1 DEF Handle
<1> HIDE DEF n, pc
<1>4. InOrder(r, n, current', lastPublished')
  BY <1>2, <1>3 DEF InOrder, InTask, HasCloned
<1>5. QED
  BY <1>1, <1>4, OrderReplaced

\* A task that is not late compares with the commit published last.
LEMMA OrderRunTask ==
    ASSUME OrderInv, NEW r \in Requests, RunTask(r)
    PROVE  CommitsInOrder'
<1> DEFINE late == Overtaken(r)
           n == [h[r] EXCEPT !.pc = "task", !.late = late]
<1>1. h[r] \in Handle
  BY DEF OrderInv, TypeInv, TypeOK
<1>2. n.pc = "task" /\ n.late = late /\ n.last = h[r].last /\ n.op = h[r].op
  <2> HIDE DEF late
  <2>1. QED
    BY <1>1 DEF Handle
<1>3. /\ h' = [h EXCEPT ![r] = n] /\ current = NoRequest /\ current' = r
      /\ UNCHANGED lastPublished
  BY DEF RunTask
<1>4. n.op = "publish" /\ ~n.late /\ lastPublished \in Commits => n.last = lastPublished
  BY <1>2, PublicationAssumption DEF Overtaken, LastPublished
<1> HIDE DEF n
<1>5. InOrder(r, n, current', lastPublished')
  BY <1>2, <1>3, <1>4 DEF InOrder, HasCloned
<1>6. QED
  BY <1>3, <1>5, OrderReplaced

LEMMA OrderStageRelease ==
    ASSUME OrderInv, NEW r \in Requests, StageRelease(r)
    PROVE  CommitsInOrder'
<1> DEFINE releases == h[r].meta.targets.releases \cup {h[r].release}
           n == [h[r] EXCEPT !.pc = "commit", !.staged = {"targets"},
                             !.meta.targets.releases = releases]
<1>1. h[r] \in Handle /\ h[r].op = "release" /\ h[r].pc = "task"
  BY DEF OrderInv, TypeInv, TypeOK, StageRelease
<1>2. h' = [h EXCEPT ![r] = n] /\ UNCHANGED <<current, lastPublished>>
  BY DEF StageRelease
<1>3. /\ n.pc = "commit" /\ n.op = h[r].op /\ n.commit = h[r].commit /\ n.stray = h[r].stray
      /\ n.last = h[r].last /\ n.late = h[r].late
  <2> HIDE DEF releases
  <2>1. QED
    BY <1>1 DEF Handle
<1> HIDE DEF n
<1>4. QED
  BY <1>1, <1>2, <1>3, OrderKept DEF InTask, HasCloned

\* The head a publish clones descends from the commit it compares with.
LEMMA OrderClone ==
    ASSUME OrderInv, NEW r \in Requests, Clone(r)
    PROVE  CommitsInOrder'
<1> DEFINE todo == {ch \in Channels : Config[head][ch] # NoRelease}
           pc == IF todo = {} THEN "commit" ELSE "staging"
           n == [h[r] EXCEPT !.commit = head, !.todo = todo, !.pc = pc]
<1>1. /\ h[r] \in Handle /\ head \in Commits
      /\ h[r].op = "publish" /\ h[r].pc = "task" /\ ~h[r].stray
      /\ h[r].last \in Commits => IsAncestor(h[r].last, head)
  BY PublicationAssumption DEF OrderInv, TypeInv, TypeOK, Clone
<1>2. h' = [h EXCEPT ![r] = n] /\ UNCHANGED <<current, lastPublished>>
  BY DEF Clone
<1>3. /\ n.op = h[r].op /\ n.commit = head /\ n.stray = h[r].stray
      /\ n.last = h[r].last /\ n.late = h[r].late
  <2> HIDE DEF todo, pc
  <2>1. QED
    BY <1>1 DEF Handle
<1>4. InOrder(r, h[r], current, lastPublished)
  BY DEF OrderInv, CommitsInOrder
<1> HIDE DEF n
<1>5. InOrder(r, n, current', lastPublished')
  BY <1>1, <1>2, <1>3, <1>4 DEF InOrder, InTask, HasCloned, IsAncestor
<1>6. QED
  BY <1>2, <1>5, OrderReplaced

LEMMA OrderStageChannel ==
    ASSUME OrderInv, NEW r \in Requests, StageChannel(r)
    PROVE  CommitsInOrder'
<1>1. PICK ch \in h[r].todo :
        LET release == Config[h[r].commit][ch]
            todo    == h[r].todo \ {ch}
        IN  h' = [h EXCEPT ![r] = [h[r] EXCEPT !.meta.targets.channels[ch] = release,
                                               !.staged = {"targets"}, !.todo = todo,
                                       !.pc = IF todo = {} THEN "commit" ELSE "staging"]]
  BY DEF StageChannel
<1> DEFINE release == Config[h[r].commit][ch]
           todo == h[r].todo \ {ch}
           pc == IF todo = {} THEN "commit" ELSE "staging"
           n == [h[r] EXCEPT !.meta.targets.channels[ch] = release,
                             !.staged = {"targets"}, !.todo = todo, !.pc = pc]
<1>2. /\ h[r] \in Handle /\ h[r].pc = "staging"
      /\ UNCHANGED <<current, lastPublished>>
  BY DEF OrderInv, TypeInv, TypeOK, StageChannel
<1>3. h[r].op = "publish"
  BY <1>2 DEF OrderInv, CommitsInOrder, InOrder
<1>4. h' = [h EXCEPT ![r] = n] /\ pc \in {"commit", "staging"}
  BY <1>1
<1>5. /\ n.pc = pc /\ n.op = h[r].op /\ n.commit = h[r].commit /\ n.stray = h[r].stray
      /\ n.last = h[r].last /\ n.late = h[r].late
  <2> HIDE DEF release, todo, pc
  <2>1. QED
    BY <1>2 DEF Handle
<1> HIDE DEF n, pc
<1>6. QED
  BY <1>2, <1>3, <1>4, <1>5, OrderKept DEF InTask, HasCloned

LEMMA OrderWriteMeta ==
    ASSUME OrderInv, NEW r \in Requests, WriteMeta(r)
    PROVE  CommitsInOrder'
<1>1. PICK role \in h[r].staged :
        h' = [h EXCEPT ![r] = [h[r] EXCEPT !.staged = h[r].staged \ {role},
                                !.pc = IF role = "root" THEN "rootcopy" ELSE "committing"]]
  BY DEF WriteMeta
<1> DEFINE pc == IF role = "root" THEN "rootcopy" ELSE "committing"
           n == [h[r] EXCEPT !.staged = h[r].staged \ {role}, !.pc = pc]
<1>2. /\ h[r] \in Handle /\ h[r].pc = "committing"
      /\ UNCHANGED <<current, lastPublished>>
  BY DEF OrderInv, TypeInv, TypeOK, WriteMeta
<1>3. h' = [h EXCEPT ![r] = n] /\ pc \in {"rootcopy", "committing"}
  BY <1>1
<1>4. /\ n.pc = pc /\ n.op = h[r].op /\ n.commit = h[r].commit /\ n.stray = h[r].stray
      /\ n.last = h[r].last /\ n.late = h[r].late
  <2> HIDE DEF pc
  <2>1. QED
    BY <1>2 DEF Handle
<1> HIDE DEF n, pc
<1>5. QED
  BY <1>2, <1>3, <1>4, OrderKept DEF InTask, HasCloned

LEMMA OrderAbandon ==
    ASSUME OrderInv, NEW r \in Requests, Abandon(r)
    PROVE  CommitsInOrder'
<1> DEFINE n == [h[r] EXCEPT !.stray = TRUE]
<1>1. h[r] \in Handle
  BY DEF OrderInv, TypeInv, TypeOK
<1>2. /\ n.pc = h[r].pc /\ n.op = h[r].op /\ n.commit = h[r].commit /\ n.stray = TRUE
      /\ n.last = h[r].last
  BY <1>1 DEF Handle
<1>3. h' = [h EXCEPT ![r] = n] /\ current = r /\ UNCHANGED lastPublished
  BY DEF Abandon
<1>4. InOrder(r, h[r], current, lastPublished)
  BY DEF OrderInv, CommitsInOrder
<1> HIDE DEF n
<1>5. InOrder(r, n, current', lastPublished')
  BY <1>2, <1>4 DEF InOrder, HasCloned, IsAncestor
<1>6. QED
  BY <1>3, <1>5, OrderReplaced

\* The recorded commit is the running task's: no other request is in order to record.
LEMMA OrderRecord ==
    ASSUME OrderInv, NEW r \in Requests, RecordCommit(r)
    PROVE  /\ CommitsInOrder'
           /\ lastPublished \in Commits =>
                 \/ IsAncestor(lastPublished, lastPublished')
                 \/ h[r].late /\ h[r].pc = "record" /\ h'[r] = Idle
<1>1. /\ h[r].pc = "record" /\ ~h[r].stray /\ lastPublished' = h[r].commit
      /\ h' = [h EXCEPT ![r] = Idle]
  BY DEF RecordCommit, EndTask
<1>2. InOrder(r, h[r], current, lastPublished)
  BY DEF OrderInv, CommitsInOrder
<1>3. /\ current = r /\ h[r].op = "publish" /\ InTask(h[r]) /\ HasCloned(h[r])
  BY <1>1, <1>2 DEF InOrder, InTask, HasCloned
<1>4. h'[r] = Idle /\ \A q \in Requests \ {r} : h'[q] = h[q]
  BY <1>1 DEF OrderInv, TypeInv, TypeOK
<1>5. lastPublished \in Commits /\ ~h[r].late => IsAncestor(lastPublished, lastPublished')
  <2>1. h[r].late \in BOOLEAN
    BY DEF OrderInv, TypeInv, TypeOK, Handle
  <2>2. QED
    BY <1>1, <1>2, <1>3, <2>1 DEF InOrder, IsAncestor
<1>6. ASSUME NEW q \in Requests PROVE InOrder(q, h'[q], current', lastPublished')
  <2>1. CASE q = r
    <3>1. h'[q].pc = "none"
      BY <1>4, <2>1 DEF Idle
    <3>2. QED
      BY <3>1 DEF InOrder, InTask, HasCloned
  <2>2. CASE q # r
    <3>1. h'[q] = h[q] /\ InOrder(q, h[q], current, lastPublished)
      BY <1>4, <2>2 DEF OrderInv, CommitsInOrder
    <3>2. ~(InTask(h[q]) /\ ~h[q].stray)
      BY <1>3, <2>2, <3>1 DEF InOrder
    <3>3. QED
      BY <3>1, <3>2 DEF InOrder, InTask, HasCloned, IsAncestor
  <2>3. QED
    BY <2>1, <2>2
<1>7. QED
  BY <1>1, <1>4, <1>5, <1>6 DEF CommitsInOrder

LEMMA OrderStep ==
    OrderInv /\ [Next]_vars =>
        /\ CommitsInOrder'
        /\ {lastPublished, lastPublished'} \subseteq Commits =>
              \/ IsAncestor(lastPublished, lastPublished')
              \/ \E r \in Requests : h[r].late /\ h[r].pc = "record" /\ h'[r] = Idle
<1> DEFINE Advances ==
             {lastPublished, lastPublished'} \subseteq Commits =>
                \/ IsAncestor(lastPublished, lastPublished')
                \/ \E r \in Requests : h[r].late /\ h[r].pc = "record" /\ h'[r] = Idle
<1> SUFFICES ASSUME OrderInv, [Next]_vars PROVE CommitsInOrder' /\ Advances
  OBVIOUS
<1>0. ASSUME lastPublished' = lastPublished PROVE Advances
  BY <1>0, PublicationAssumption DEF IsAncestor
<1> HIDE DEF Advances
<1>1. ASSUME NEW r \in Requests, Release(r) \/ Publish(r) \/ Periodic(r)
      PROVE  CommitsInOrder' /\ Advances
  BY <1>0, <1>1, OrderBegin DEF Release, Publish, Periodic, Begin
<1>2. ASSUME NEW r \in Requests, EndTask(r), UNCHANGED lastPublished
      PROVE  CommitsInOrder' /\ Advances
  BY <1>0, <1>2, OrderIdle DEF EndTask
<1>3. ASSUME NEW r \in Requests, ReadMeta(r) PROVE CommitsInOrder' /\ Advances
  BY <1>0, <1>3, OrderReadMeta DEF ReadMeta
<1>4. ASSUME NEW r \in Requests, Busy(r) PROVE CommitsInOrder' /\ Advances
  BY <1>0, <1>4, OrderIdle DEF Busy
<1>5. ASSUME NEW r \in Requests, RunTask(r) PROVE CommitsInOrder' /\ Advances
  BY <1>0, <1>5, OrderRunTask DEF RunTask
<1>6. ASSUME NEW r \in Requests, StageRelease(r) PROVE CommitsInOrder' /\ Advances
  BY <1>0, <1>6, OrderStageRelease DEF StageRelease
<1>7. ASSUME NEW r \in Requests, Clone(r) PROVE CommitsInOrder' /\ Advances
  BY <1>0, <1>7, OrderClone DEF Clone
<1>8. ASSUME NEW r \in Requests, StageChannel(r) PROVE CommitsInOrder' /\ Advances
  BY <1>0, <1>8, OrderStageChannel DEF StageChannel
<1>9. ASSUME NEW r \in Requests, CommitStaged(r) PROVE CommitsInOrder' /\ Advances
  <2> DEFINE staged == h[r].staged \cup {"snapshot", "timestamp"}
             m == NewVersions(h[r].meta, staged)
  <2>1. /\ h' = [h EXCEPT ![r] = [h[r] EXCEPT !.pc = "committing", !.staged = staged, !.meta = m]]
        /\ h[r].pc = "commit" /\ UNCHANGED <<current, lastPublished>>
    BY <1>9 DEF CommitStaged
  <2> HIDE DEF staged, m
  <2>2. QED
    BY <1>0, <2>1, OrderCommit
<1>10. ASSUME NEW r \in Requests, NEW due \in Dues, Rotate(r, due)
       PROVE  CommitsInOrder' /\ Advances
  <2> DEFINE staged == Rotated(due)
             m == NewVersions(h[r].meta, staged)
  <2>1. /\ h[r].op = "periodic" /\ h[r].pc = "task" /\ UNCHANGED lastPublished
        /\ \/ /\ h' = [h EXCEPT ![r] = [h[r] EXCEPT !.pc = "committing", !.staged = staged,
                                                    !.meta = m]]
              /\ current' = current
           \/ EndTask(r)
    BY <1>10 DEF Rotate
  <2> HIDE DEF staged, m
  <2>2. CASE EndTask(r)
    BY <1>2, <2>1, <2>2
  <2>3. CASE /\ h' = [h EXCEPT ![r] = [h[r] EXCEPT !.pc = "committing", !.staged = staged,
                                                   !.meta = m]]
             /\ current' = current
    <3>1. CommitsInOrder'
      BY <2>1, <2>3, OrderCommit
    <3>2. QED
      BY <1>0, <2>1, <3>1
  <2>4. QED
    BY <2>1, <2>2, <2>3
<1>11. ASSUME NEW r \in Requests, WriteMeta(r) PROVE CommitsInOrder' /\ Advances
  BY <1>0, <1>11, OrderWriteMeta DEF WriteMeta
<1>12. ASSUME NEW r \in Requests, WriteRootCopy(r) PROVE CommitsInOrder' /\ Advances
  BY <1>0, <1>12, OrderPc DEF WriteRootCopy
<1>13. ASSUME NEW r \in Requests, Committed(r) PROVE CommitsInOrder' /\ Advances
  <2>1. CASE h[r].op = "publish"
    BY <1>0, <1>13, <2>1, OrderPc DEF Committed
  <2>2. CASE h[r].op # "publish"
    BY <1>2, <1>13, <2>2 DEF Committed
  <2>3. QED
    BY <2>1, <2>2
<1>14. ASSUME NEW r \in Requests,
              SkipPublish(r) \/ TaskRefused(r) \/ StrayStops(r) \/ CallFails(r)
       PROVE  CommitsInOrder' /\ Advances
  BY <1>2, <1>14 DEF SkipPublish, TaskRefused, StrayStops, CallFails
<1>15. ASSUME NEW r \in Requests, RecordCommit(r) PROVE CommitsInOrder' /\ Advances
  BY <1>15, OrderRecord DEF Advances
<1>16. ASSUME NEW r \in Requests, Abandon(r) PROVE CommitsInOrder' /\ Advances
  BY <1>0, <1>16, OrderAbandon DEF Abandon
<1>17. CASE Crash
  <2>1. /\ \A r \in Requests : h'[r].pc = "none"
        /\ UNCHANGED lastPublished
    BY <1>17 DEF Crash, Idle
  <2>2. QED
    BY <1>0, <2>1 DEF OrderInv, CommitsInOrder, InOrder, InTask, HasCloned, IsAncestor
<1>18. CASE DeleteLastPublished
  <2>1. lastPublished' \notin Commits /\ UNCHANGED <<h, current>>
    BY <1>18, PublicationAssumption DEF DeleteLastPublished
  <2>2. QED
    BY <2>1 DEF OrderInv, CommitsInOrder, InOrder, InTask, HasCloned, IsAncestor, Advances
<1>19. CASE Push
  BY <1>0, <1>19 DEF Push, OrderInv, CommitsInOrder, InOrder, InTask, HasCloned, IsAncestor
<1>20. CASE HourPasses \/ UNCHANGED vars
  BY <1>0, <1>20 DEF HourPasses, vars, OrderInv, CommitsInOrder, InOrder, InTask, HasCloned,
     IsAncestor
<1>21. QED
  BY <1>1, <1>3, <1>4, <1>5, <1>6, <1>7, <1>8, <1>9, <1>10, <1>11, <1>12, <1>13, <1>14,
     <1>15, <1>16, <1>17, <1>18, <1>19, <1>20 DEF Next, Proceed

\* However the branch is moved, requests interleave and tasks are interrupted: a
\* publish replaces the last published commit by a descendant (path_publish.go:136),
\* unless its request had read an older one (late).
THEOREM PublishNeverGoesBack == Spec => PublishedAdvances
<1>1. Init => OrderInv
  BY TypeInit, OrderInit DEF OrderInv
<1>2. OrderInv /\ [Next]_vars => OrderInv'
  BY TypeStep, OrderStep DEF OrderInv
<1>3. OrderInv /\ [Next]_vars =>
        [{lastPublished, lastPublished'} \subseteq Commits =>
            \/ IsAncestor(lastPublished, lastPublished')
            \/ \E r \in Requests : h[r].late /\ h[r].pc = "record" /\ h'[r] = Idle]_vars
  BY OrderStep
<1>4. QED
  BY <1>1, <1>2, <1>3, PTL DEF Spec, PublishedAdvances

-----------------------------------------------------------------------------
(* What tasks that run to their end leave in the bucket *)

Writing(x) == x.pc \in {"committing", "rootcopy"}

HasCommitted(x) == Writing(x) \/ x.pc = "record"

\* The files of a handle are those of the bucket, but for the staged ones.
SameFiles(m, staged) ==
    /\ "targets" \notin staged => m.targets.id = store.targets.id
    /\ "snapshot" \notin staged => m.snapshot = store.snapshot
    /\ "timestamp" \notin staged => m.timestamp = store.timestamp

\* Only the running task changes the bucket, from a handle that knows all that
\* is in it, and what it commits fits together.
Fits(r, x) ==
    /\ ~x.stray
    /\ InTask(x) => /\ current = r
                    /\ SameFiles(x.meta, IF HasCommitted(x) THEN x.staged ELSE {})
    /\ HasCommitted(x) => Consistent(x.meta)
    /\ x.pc = "record" => x.staged = {}

HandlesFit == \A r \in Requests : Fits(r, h[r])

StoreFits == Committing \/ Consistent(store)

Undisturbed == ~Interrupted /\ ~staleTasks

FitInv == TypeInv /\ (Undisturbed => HandlesFit /\ StoreFits)

LEMMA FitInit == Init => HandlesFit /\ StoreFits
<1> SUFFICES ASSUME Init PROVE HandlesFit /\ StoreFits
  OBVIOUS
<1>1. \A r \in Requests : h[r].pc = "none" /\ ~h[r].stray
  BY DEF Init, Idle
<1>2. Consistent(store)
  BY DEF Init, FirstMetadata, Consistent
<1>3. QED
  BY <1>1, <1>2 DEF HandlesFit, StoreFits, Fits, InTask, HasCommitted, Writing

\* A step that leaves the metadata in the bucket alone.
LEMMA FitReplaced ==
    ASSUME TypeInv, HandlesFit, StoreFits, NEW r \in Requests, NEW n,
           h' = [h EXCEPT ![r] = n], store' = store,
           current' = current \/ current \in {r, NoRequest},
           ~n.stray,
           InTask(n) => /\ current' = r
                        /\ SameFiles(n.meta, IF HasCommitted(n) THEN n.staged ELSE {}),
           HasCommitted(n) => Consistent(n.meta),
           n.pc = "record" => n.staged = {},
           Writing(h[r]) => Writing(n) \/ Consistent(store)
    PROVE  HandlesFit' /\ StoreFits'
<1>1. h'[r] = n /\ \A q \in Requests \ {r} : h'[q] = h[q]
  BY DEF TypeInv, TypeOK
<1>2. ASSUME NEW q \in Requests \ {r} PROVE Fits(q, h[q])'
  <2>1. Fits(q, h[q]) /\ h'[q] = h[q]
    BY <1>1 DEF HandlesFit
  <2>2. current = q => current' = q
    BY PublicationAssumption
  <2>3. QED
    BY <2>1, <2>2 DEF Fits, InTask, HasCommitted, Writing, SameFiles, Consistent
<1>3. Fits(r, h[r])'
  BY <1>1 DEF Fits, InTask, HasCommitted, Writing, SameFiles, Consistent
<1>4. StoreFits'
  <2>1. CASE Consistent(store)
    BY <2>1 DEF StoreFits, Consistent
  <2>2. CASE ~Consistent(store)
    <3>1. PICK q \in Requests : Writing(h[q])
      BY <2>2 DEF StoreFits, Committing, Writing
    <3>2. Writing(h'[q])
      BY <1>1, <2>2, <3>1 DEF Writing
    <3>3. QED
      BY <3>2 DEF StoreFits, Committing, Writing
  <2>3. QED
    BY <2>1, <2>2
<1>5. QED
  BY <1>2, <1>3, <1>4 DEF HandlesFit

\* A task that ends has nothing left to write.
LEMMA FitIdle ==
    ASSUME TypeInv, HandlesFit, StoreFits, NEW r \in Requests,
           h' = [h EXCEPT ![r] = Idle], store' = store,
           current' = current \/ current = r,
           Writing(h[r]) => Consistent(store)
    PROVE  HandlesFit' /\ StoreFits'
<1>1. /\ ~Idle.stray /\ ~InTask(Idle) /\ ~HasCommitted(Idle) /\ Idle.pc = "none"
  BY DEF Idle, InTask, HasCommitted, Writing
<1>2. QED
  BY <1>1, FitReplaced

\* A step of a request before its task.
LEMMA FitBefore ==
    ASSUME TypeInv, HandlesFit, StoreFits, NEW r \in Requests, NEW n,
           h' = [h EXCEPT ![r] = n], store' = store, current' = current,
           h[r].pc \in {"none", "reading"}, n.pc \in {"reading", "opened"}, ~n.stray
    PROVE  HandlesFit' /\ StoreFits'
<1>1. ~InTask(n) /\ ~HasCommitted(n) /\ n.pc # "record" /\ ~Writing(h[r])
  BY DEF InTask, HasCommitted, Writing
<1>2. QED
  BY <1>1, FitReplaced

\* A step of a task that stages targets, or nothing.
LEMMA FitStaging ==
    ASSUME TypeInv, HandlesFit, StoreFits, NEW r \in Requests, NEW n,
           h' = [h EXCEPT ![r] = n], store' = store, current' = current,
           h[r].pc \in {"task", "staging"}, n.pc \in {"staging", "commit"},
           n.stray = h[r].stray,
           n.meta.targets.id = h[r].meta.targets.id,
           n.meta.snapshot = h[r].meta.snapshot, n.meta.timestamp = h[r].meta.timestamp
    PROVE  HandlesFit' /\ StoreFits'
<1>1. InTask(n) /\ ~HasCommitted(n) /\ n.pc # "record"
  BY DEF InTask, HasCommitted, Writing
<1>2. InTask(h[r]) /\ ~HasCommitted(h[r]) /\ ~Writing(h[r])
  BY DEF InTask, HasCommitted, Writing
<1>3. ~n.stray /\ current' = r /\ SameFiles(h[r].meta, {})
  BY <1>2 DEF HandlesFit, Fits
<1>4. SameFiles(n.meta, {})
  BY <1>3 DEF SameFiles
<1>5. QED
  BY <1>1, <1>2, <1>3, <1>4, FitReplaced

LEMMA FitBegin ==
    ASSUME TypeInv, HandlesFit, StoreFits, NEW r \in Requests, NEW op, NEW release,
           Begin(r, op, release)
    PROVE  HandlesFit' /\ StoreFits'
<1> DEFINE n == [Idle EXCEPT !.op = op, !.pc = "reading", !.release = release,
                             !.last = IF op = "publish" THEN LastPublished ELSE NoCommit]
<1>1. n.pc = "reading" /\ ~n.stray
  BY DEF Idle
<1>2. h' = [h EXCEPT ![r] = n] /\ store' = store /\ current' = current /\ h[r].pc = "none"
  BY DEF Begin, bucket
<1> HIDE DEF n
<1>3. QED
  BY <1>1, <1>2, FitBefore

LEMMA FitReadMeta ==
    ASSUME TypeInv, HandlesFit, StoreFits, NEW r \in Requests, ReadMeta(r)
    PROVE  HandlesFit' /\ StoreFits'
<1> DEFINE k == h[r].read + 1
           role == TopLevelManifests[k]
           pc == IF k = 4 THEN "opened" ELSE "reading"
           n == [h[r] EXCEPT !.read = k, !.meta[role] = store[role], !.pc = pc]
<1>1. /\ h[r] \in Handle /\ h' = [h EXCEPT ![r] = n] /\ store' = store /\ current' = current
      /\ h[r].pc = "reading"
  BY DEF TypeInv, TypeOK, ReadMeta, bucket
<1>2. pc \in {"opened", "reading"}
  OBVIOUS
<1>3. n.pc = pc /\ n.stray = h[r].stray
  <2> HIDE DEF role, k, pc
  <2>1. QED
    BY <1>1 DEF Handle
<1>4. ~h[r].stray
  BY DEF HandlesFit, Fits
<1> HIDE DEF n, pc
<1>5. QED
  BY <1>1, <1>2, <1>3, <1>4, FitBefore

\* The handle is the bucket: no task of another handle has run in between.
LEMMA FitRunTask ==
    ASSUME TypeInv, HandlesFit, StoreFits, NEW r \in Requests, RunTask(r), ~staleTasks'
    PROVE  HandlesFit' /\ StoreFits'
<1> DEFINE n == [h[r] EXCEPT !.pc = "task", !.late = Overtaken(r)]
<1>1. h[r] \in Handle /\ ~h[r].stray
  BY DEF TypeInv, TypeOK, HandlesFit, Fits
<1>2. n.pc = "task" /\ n.meta = h[r].meta /\ n.stray = h[r].stray
  BY <1>1 DEF Handle
<1>3. /\ h' = [h EXCEPT ![r] = n] /\ store' = store /\ current = NoRequest /\ current' = r
      /\ h[r].pc = "opened" /\ h[r].meta = store
  BY DEF RunTask, bucket
<1> HIDE DEF n
<1>4. /\ InTask(n) /\ ~HasCommitted(n) /\ n.pc # "record" /\ ~Writing(h[r])
      /\ SameFiles(n.meta, {})
  BY <1>2, <1>3 DEF InTask, HasCommitted, Writing, SameFiles
<1>5. QED
  BY <1>1, <1>2, <1>3, <1>4, FitReplaced

LEMMA FitStageRelease ==
    ASSUME TypeInv, HandlesFit, StoreFits, NEW r \in Requests, StageRelease(r)
    PROVE  HandlesFit' /\ StoreFits'
<1> DEFINE releases == h[r].meta.targets.releases \cup {h[r].release}
           n == [h[r] EXCEPT !.pc = "commit", !.staged = {"targets"},
                             !.meta.targets.releases = releases]
<1>1. h[r] \in Handle /\ h[r].meta \in Metadata
  BY DEF TypeInv, TypeOK, Handle
<1>2. h' = [h EXCEPT ![r] = n] /\ store' = store /\ current' = current /\ h[r].pc = "task"
  BY DEF StageRelease, bucket
<1>3. /\ n.pc = "commit" /\ n.stray = h[r].stray
      /\ n.meta.targets.id = h[r].meta.targets.id
      /\ n.meta.snapshot = h[r].meta.snapshot /\ n.meta.timestamp = h[r].meta.timestamp
  <2> HIDE DEF releases
  <2>1. QED
    BY <1>1 DEF Handle, Metadata
<1> HIDE DEF n
<1>4. QED
  BY <1>2, <1>3, FitStaging

LEMMA FitClone ==
    ASSUME TypeInv, HandlesFit, StoreFits, NEW r \in Requests, Clone(r)
    PROVE  HandlesFit' /\ StoreFits'
<1> DEFINE todo == {ch \in Channels : Config[head][ch] # NoRelease}
           pc == IF todo = {} THEN "commit" ELSE "staging"
           n == [h[r] EXCEPT !.commit = head, !.todo = todo, !.pc = pc]
<1>1. h[r] \in Handle
  BY DEF TypeInv, TypeOK
<1>2. h' = [h EXCEPT ![r] = n] /\ store' = store /\ current' = current /\ h[r].pc = "task"
  BY DEF Clone, bucket
<1>3. pc \in {"commit", "staging"}
  OBVIOUS
<1>4. n.pc = pc /\ n.meta = h[r].meta /\ n.stray = h[r].stray
  <2> HIDE DEF todo, pc
  <2>1. QED
    BY <1>1 DEF Handle
<1> HIDE DEF n, pc
<1>5. QED
  BY <1>2, <1>3, <1>4, FitStaging

LEMMA FitStageChannel ==
    ASSUME TypeInv, HandlesFit, StoreFits, NEW r \in Requests, StageChannel(r)
    PROVE  HandlesFit' /\ StoreFits'
<1>1. PICK ch \in h[r].todo :
        LET release == Config[h[r].commit][ch]
            todo    == h[r].todo \ {ch}
        IN  h' = [h EXCEPT ![r] = [h[r] EXCEPT !.meta.targets.channels[ch] = release,
                                               !.staged = {"targets"}, !.todo = todo,
                                       !.pc = IF todo = {} THEN "commit" ELSE "staging"]]
  BY DEF StageChannel
<1> DEFINE release == Config[h[r].commit][ch]
           todo == h[r].todo \ {ch}
           pc == IF todo = {} THEN "commit" ELSE "staging"
           n == [h[r] EXCEPT !.meta.targets.channels[ch] = release,
                             !.staged = {"targets"}, !.todo = todo, !.pc = pc]
<1>2. h[r] \in Handle /\ h[r].meta \in Metadata
  BY DEF TypeInv, TypeOK, Handle
<1>3. /\ h' = [h EXCEPT ![r] = n] /\ store' = store /\ current' = current
      /\ h[r].pc = "staging" /\ pc \in {"commit", "staging"}
  BY <1>1 DEF StageChannel
<1>4. /\ n.pc = pc /\ n.stray = h[r].stray
      /\ n.meta.targets.id = h[r].meta.targets.id
      /\ n.meta.snapshot = h[r].meta.snapshot /\ n.meta.timestamp = h[r].meta.timestamp
  <2> HIDE DEF release, todo, pc
  <2>1. QED
    BY <1>2 DEF Handle, Metadata
<1> HIDE DEF n, pc
<1>5. QED
  BY <1>3, <1>4, FitStaging

LEMMA NewVersionsKeep ==
    ASSUME NEW m \in Metadata, NEW roles
    PROVE  /\ "targets" \notin roles => NewVersions(m, roles).targets = m.targets
           /\ "snapshot" \notin roles => NewVersions(m, roles).snapshot = m.snapshot
           /\ "timestamp" \notin roles => NewVersions(m, roles).timestamp = m.timestamp
BY DEF NewVersions

\* A new snapshot.json and timestamp.json name what is committed with them.
LEMMA NewVersionsConsistent ==
    ASSUME NEW m \in Metadata, NEW roles, {"snapshot", "timestamp"} \subseteq roles
    PROVE  Consistent(NewVersions(m, roles))
BY DEF NewVersions, Consistent

LEMMA FitCommit ==
    ASSUME TypeInv, HandlesFit, StoreFits, NEW r \in Requests, NEW n,
           h[r].pc = "task" \/ h[r].pc = "commit",
           h' = [h EXCEPT ![r] = n], store' = store, current' = current,
           n.pc = "committing", n.stray = h[r].stray,
           SameFiles(n.meta, n.staged), Consistent(n.meta)
    PROVE  HandlesFit' /\ StoreFits'
<1>1. InTask(h[r]) /\ ~Writing(h[r])
  BY DEF InTask, Writing
<1>2. ~h[r].stray /\ current = r
  BY <1>1 DEF HandlesFit, Fits
<1>3. HasCommitted(n) /\ n.pc # "record"
  BY DEF Writing, HasCommitted
<1>4. QED
  BY <1>1, <1>2, <1>3, FitReplaced

LEMMA TaskHoldsBucket ==
    ASSUME HandlesFit, NEW r \in Requests, h[r].pc \in {"task", "commit"}
    PROVE  SameFiles(h[r].meta, {})
BY DEF HandlesFit, Fits, InTask, HasCommitted, Writing

LEMMA Recommitted ==
    ASSUME NEW x \in Handle, NEW staged, SameFiles(x.meta, {}),
           {"snapshot", "timestamp"} \subseteq staged \/ Consistent(NewVersions(x.meta, staged))
    PROVE  LET n == [x EXCEPT !.pc = "committing", !.staged = staged,
                              !.meta = NewVersions(x.meta, staged)]
           IN  /\ n.pc = "committing" /\ n.stray = x.stray
               /\ SameFiles(n.meta, n.staged) /\ Consistent(n.meta)
<1> DEFINE m == NewVersions(x.meta, staged)
           n == [x EXCEPT !.pc = "committing", !.staged = staged, !.meta = m]
<1>1. x.meta \in Metadata
  BY DEF Handle
<1>2. /\ "targets" \notin staged => m.targets = x.meta.targets
      /\ "snapshot" \notin staged => m.snapshot = x.meta.snapshot
      /\ "timestamp" \notin staged => m.timestamp = x.meta.timestamp
      /\ Consistent(m)
  BY <1>1, NewVersionsKeep, NewVersionsConsistent
<1> HIDE DEF m
<1>3. SameFiles(m, staged)
  BY <1>2 DEF SameFiles
<1>4. n.pc = "committing" /\ n.staged = staged /\ n.meta = m /\ n.stray = x.stray
  BY DEF Handle
<1> HIDE DEF n
<1>5. QED
  BY <1>2, <1>3, <1>4 DEF m, n

LEMMA FitCommitStaged ==
    ASSUME TypeInv, HandlesFit, StoreFits, NEW r \in Requests, CommitStaged(r)
    PROVE  HandlesFit' /\ StoreFits'
<1> DEFINE staged == h[r].staged \cup {"snapshot", "timestamp"}
           n == [h[r] EXCEPT !.pc = "committing", !.staged = staged,
                             !.meta = NewVersions(h[r].meta, staged)]
<1>1. /\ h' = [h EXCEPT ![r] = n] /\ store' = store /\ current' = current
      /\ h[r].pc = "commit"
  BY DEF CommitStaged, bucket
<1>2. h[r] \in Handle /\ {"snapshot", "timestamp"} \subseteq staged
  BY DEF TypeInv, TypeOK
<1> HIDE DEF staged
<1>3. /\ n.pc = "committing" /\ n.stray = h[r].stray
      /\ SameFiles(n.meta, n.staged) /\ Consistent(n.meta)
  BY <1>1, <1>2, TaskHoldsBucket, Recommitted
<1> HIDE DEF n
<1>4. QED
  BY <1>1, <1>3, FitCommit

\* tuf.Repo.Commit has verified what a rotation commits.
LEMMA FitRotate ==
    ASSUME TypeInv, HandlesFit, StoreFits, NEW r \in Requests, NEW due \in Dues,
           Rotate(r, due)
    PROVE  HandlesFit' /\ StoreFits'
<1> DEFINE staged == Rotated(due)
           n == [h[r] EXCEPT !.pc = "committing", !.staged = staged,
                             !.meta = NewVersions(h[r].meta, staged)]
<1>1. h[r] \in Handle /\ store' = store /\ h[r].pc = "task"
  BY DEF Rotate, TypeInv, TypeOK, bucket
<1>2. \/ /\ h' = [h EXCEPT ![r] = n] /\ current' = current
         /\ Consistent(NewVersions(h[r].meta, staged))
      \/ EndTask(r)
  BY DEF Rotate
<1> HIDE DEF staged
<1>3. CASE EndTask(r)
  BY <1>1, <1>3, FitIdle DEF EndTask, Writing
<1>4. CASE ~EndTask(r)
  <2>1. /\ n.pc = "committing" /\ n.stray = h[r].stray
        /\ SameFiles(n.meta, n.staged) /\ Consistent(n.meta)
    BY <1>1, <1>2, <1>4, TaskHoldsBucket, Recommitted
  <2>2. h' = [h EXCEPT ![r] = n] /\ current' = current
    BY <1>2, <1>4
  <2> HIDE DEF n
  <2>3. QED
    BY <1>1, <2>1, <2>2, FitCommit
<1>5. QED
  BY <1>3, <1>4

\* The file that is written becomes the handle's; nobody else has a task that
\* could be surprised.
LEMMA FitWriteMeta ==
    ASSUME TypeInv, HandlesFit, StoreFits, NEW r \in Requests, WriteMeta(r)
    PROVE  HandlesFit' /\ StoreFits'
<1>1. PICK role \in h[r].staged :
        /\ store' = [store EXCEPT ![role] = h[r].meta[role]]
        /\ h' = [h EXCEPT ![r] = [h[r] EXCEPT !.staged = h[r].staged \ {role},
                                   !.pc = IF role = "root" THEN "rootcopy" ELSE "committing"]]
  BY DEF WriteMeta
<1> DEFINE pc == IF role = "root" THEN "rootcopy" ELSE "committing"
           staged == h[r].staged \ {role}
           n == [h[r] EXCEPT !.staged = staged, !.pc = pc]
<1>2. /\ h[r] \in Handle /\ h[r].meta \in Metadata /\ store \in Metadata /\ role \in Roles
      /\ h[r].pc = "committing" /\ current' = current
  BY DEF TypeInv, TypeOK, Handle, WriteMeta
<1>3. h' = [h EXCEPT ![r] = n] /\ pc \in {"rootcopy", "committing"}
  BY <1>1
<1>4. n.meta = h[r].meta /\ n.pc = pc /\ n.staged = staged /\ n.stray = h[r].stray
  <2> HIDE DEF pc, staged
  <2>1. QED
    BY <1>2 DEF Handle
<1>5. InTask(h[r]) /\ HasCommitted(h[r])
  BY <1>2 DEF InTask, HasCommitted, Writing
<1>6. /\ ~h[r].stray /\ current = r /\ Consistent(h[r].meta)
      /\ SameFiles(h[r].meta, h[r].staged)
  BY <1>5 DEF HandlesFit, Fits
<1>7. /\ store'.targets = IF role = "targets" THEN h[r].meta.targets ELSE store.targets
      /\ store'.snapshot = IF role = "snapshot" THEN h[r].meta.snapshot ELSE store.snapshot
      /\ store'.timestamp = IF role = "timestamp" THEN h[r].meta.timestamp ELSE store.timestamp
  BY <1>1, <1>2 DEF Metadata, Roles
<1>8. /\ "targets" \notin staged => h[r].meta.targets.id = store'.targets.id
      /\ "snapshot" \notin staged => h[r].meta.snapshot = store'.snapshot
      /\ "timestamp" \notin staged => h[r].meta.timestamp = store'.timestamp
  BY <1>6, <1>7 DEF SameFiles
<1>9. h'[r] = n /\ \A q \in Requests \ {r} : h'[q] = h[q]
  <2> HIDE DEF n
  <2>1. QED
    BY <1>3 DEF TypeInv, TypeOK
<1> HIDE DEF n, pc, staged
<1>10. /\ Writing(n) /\ HasCommitted(n) /\ InTask(n) /\ n.pc # "record"
  BY <1>3, <1>4 DEF Writing, HasCommitted, InTask
<1>11. ASSUME NEW q \in Requests PROVE Fits(q, h[q])'
  <2>1. CASE q = r
    BY <1>2, <1>4, <1>6, <1>8, <1>9, <1>10, <2>1
       DEF Fits, InTask, HasCommitted, Writing, SameFiles, Consistent
  <2>2. CASE q # r
    <3>1. Fits(q, h[q]) /\ h'[q] = h[q]
      BY <1>9, <2>2 DEF HandlesFit
    <3>2. ~InTask(h[q])
      BY <1>6, <2>2, <3>1 DEF Fits
    <3>3. QED
      BY <3>1, <3>2 DEF Fits, InTask, HasCommitted, Writing, Consistent
  <2>3. QED
    BY <2>1, <2>2
<1>12. StoreFits'
  BY <1>9, <1>10 DEF StoreFits, Committing, Writing
<1>13. QED
  BY <1>11, <1>12 DEF HandlesFit

LEMMA FitWriteRootCopy ==
    ASSUME TypeInv, HandlesFit, StoreFits, NEW r \in Requests, WriteRootCopy(r)
    PROVE  HandlesFit' /\ StoreFits'
<1> DEFINE n == [h[r] EXCEPT !.pc = "committing"]
<1>1. h[r] \in Handle
  BY DEF TypeInv, TypeOK
<1>2. /\ h' = [h EXCEPT ![r] = n] /\ store' = store /\ current' = current
      /\ h[r].pc = "rootcopy"
  BY DEF WriteRootCopy
<1>3. /\ n.pc = "committing" /\ n.meta = h[r].meta /\ n.staged = h[r].staged
      /\ n.stray = h[r].stray
  BY <1>1 DEF Handle
<1> HIDE DEF n
<1>4. /\ Writing(n) /\ HasCommitted(n) /\ InTask(n) /\ n.pc # "record"
      /\ HasCommitted(h[r]) /\ InTask(h[r])
  BY <1>2, <1>3 DEF Writing, HasCommitted, InTask
<1>5. /\ ~h[r].stray /\ current = r /\ Consistent(h[r].meta)
      /\ SameFiles(h[r].meta, h[r].staged)
  BY <1>4 DEF HandlesFit, Fits
<1>6. QED
  BY <1>2, <1>3, <1>4, <1>5, FitReplaced

\* All files are written: the bucket is what the handle holds.
LEMMA FitCommitted ==
    ASSUME TypeInv, HandlesFit, StoreFits, NEW r \in Requests, Committed(r)
    PROVE  HandlesFit' /\ StoreFits'
<1>1. h[r].pc = "committing" /\ h[r].staged = {} /\ store' = store
  BY DEF Committed, bucket
<1>2. HasCommitted(h[r]) /\ InTask(h[r])
  BY <1>1 DEF Writing, HasCommitted, InTask
<1>3. /\ ~h[r].stray /\ current = r /\ Consistent(h[r].meta) /\ SameFiles(h[r].meta, {})
  BY <1>1, <1>2 DEF HandlesFit, Fits
<1>4. Consistent(store)
  BY <1>3 DEF Consistent, SameFiles
<1>5. CASE h[r].op = "publish"
  <2> DEFINE n == [h[r] EXCEPT !.pc = "record"]
  <2>1. h[r] \in Handle
    BY DEF TypeInv, TypeOK
  <2>2. h' = [h EXCEPT ![r] = n] /\ current' = current
    BY <1>5 DEF Committed
  <2>3. /\ n.pc = "record" /\ n.meta = h[r].meta /\ n.staged = h[r].staged
        /\ n.stray = h[r].stray
    BY <2>1 DEF Handle
  <2> HIDE DEF n
  <2>4. HasCommitted(n) /\ InTask(n)
    BY <2>3 DEF HasCommitted, InTask
  <2>5. QED
    BY <1>1, <1>3, <1>4, <2>2, <2>3, <2>4, FitReplaced
<1>6. CASE h[r].op # "publish"
  BY <1>1, <1>4, <1>6, FitIdle DEF Committed, EndTask
<1>7. QED
  BY <1>5, <1>6

LEMMA FitStep ==
    FitInv /\ [Next]_vars => (Undisturbed => HandlesFit /\ StoreFits)'
<1> SUFFICES ASSUME FitInv, [Next]_vars, Undisturbed' PROVE (HandlesFit /\ StoreFits)'
  OBVIOUS
<1> USE DEF bucket, counters
<1> DEFINE Kept == UNCHANGED <<abandons, faults, crashes>> /\ (staleTasks => staleTasks')
<1>0. TypeInv
  BY DEF FitInv
<1>a. ASSUME Kept PROVE HandlesFit /\ StoreFits
  BY <1>a DEF FitInv, Undisturbed, Interrupted
<1>1. ASSUME NEW r \in Requests, Release(r) \/ Publish(r) \/ Periodic(r)
      PROVE  (HandlesFit /\ StoreFits)'
  <2>1. ASSUME NEW op, NEW release, Begin(r, op, release) PROVE (HandlesFit /\ StoreFits)'
    <3>1. Kept
      BY <2>1 DEF Begin
    <3>2. QED
      BY <1>0, <1>a, <2>1, <3>1, FitBegin
  <2>2. QED
    BY <1>1, <2>1 DEF Release, Publish, Periodic
<1>2. ASSUME NEW r \in Requests, EndTask(r), Kept, store' = store, ~Writing(h[r])
      PROVE  (HandlesFit /\ StoreFits)'
  BY <1>0, <1>2, <1>a, FitIdle DEF EndTask
<1>3. ASSUME NEW r \in Requests, ReadMeta(r) PROVE (HandlesFit /\ StoreFits)'
  <2>1. Kept
    BY <1>3 DEF ReadMeta
  <2>2. QED
    BY <1>0, <1>3, <1>a, <2>1, FitReadMeta
<1>4. ASSUME NEW r \in Requests, Busy(r) PROVE (HandlesFit /\ StoreFits)'
  <2>1. Kept /\ ~Writing(h[r]) /\ store' = store /\ current' = current
        /\ h' = [h EXCEPT ![r] = Idle]
    BY <1>4 DEF Busy, Writing
  <2>2. QED
    BY <1>0, <1>a, <2>1, FitIdle
<1>5. ASSUME NEW r \in Requests, RunTask(r) PROVE (HandlesFit /\ StoreFits)'
  <2>1. Kept /\ ~staleTasks'
    BY <1>5 DEF RunTask, Undisturbed
  <2>2. QED
    BY <1>0, <1>5, <1>a, <2>1, FitRunTask
<1>6. ASSUME NEW r \in Requests, StageRelease(r) PROVE (HandlesFit /\ StoreFits)'
  <2>1. Kept
    BY <1>6 DEF StageRelease
  <2>2. QED
    BY <1>0, <1>6, <1>a, <2>1, FitStageRelease
<1>7. ASSUME NEW r \in Requests, Clone(r) PROVE (HandlesFit /\ StoreFits)'
  <2>1. Kept
    BY <1>7 DEF Clone
  <2>2. QED
    BY <1>0, <1>7, <1>a, <2>1, FitClone
<1>8. ASSUME NEW r \in Requests, StageChannel(r) PROVE (HandlesFit /\ StoreFits)'
  <2>1. Kept
    BY <1>8 DEF StageChannel
  <2>2. QED
    BY <1>0, <1>8, <1>a, <2>1, FitStageChannel
<1>9. ASSUME NEW r \in Requests, CommitStaged(r) PROVE (HandlesFit /\ StoreFits)'
  <2>1. Kept
    BY <1>9 DEF CommitStaged
  <2>2. QED
    BY <1>0, <1>9, <1>a, <2>1, FitCommitStaged
<1>10. ASSUME NEW r \in Requests, NEW due \in Dues, Rotate(r, due)
       PROVE  (HandlesFit /\ StoreFits)'
  <2>1. Kept
    BY <1>10 DEF Rotate
  <2>2. QED
    BY <1>0, <1>10, <1>a, <2>1, FitRotate
<1>11. ASSUME NEW r \in Requests, WriteMeta(r) PROVE (HandlesFit /\ StoreFits)'
  <2>1. Kept
    BY <1>11 DEF WriteMeta
  <2>2. QED
    BY <1>0, <1>11, <1>a, <2>1, FitWriteMeta
<1>12. ASSUME NEW r \in Requests, WriteRootCopy(r) PROVE (HandlesFit /\ StoreFits)'
  <2>1. Kept
    BY <1>12 DEF WriteRootCopy
  <2>2. QED
    BY <1>0, <1>12, <1>a, <2>1, FitWriteRootCopy
<1>13. ASSUME NEW r \in Requests, Committed(r) PROVE (HandlesFit /\ StoreFits)'
  <2>1. Kept
    BY <1>13 DEF Committed
  <2>2. QED
    BY <1>0, <1>13, <1>a, <2>1, FitCommitted
<1>14. ASSUME NEW r \in Requests,
              SkipPublish(r) \/ RecordCommit(r) \/ TaskRefused(r) \/ StrayStops(r)
       PROVE  (HandlesFit /\ StoreFits)'
  <2>1. Kept /\ store' = store /\ EndTask(r)
    BY <1>14 DEF SkipPublish, RecordCommit, TaskRefused, StrayStops
  <2>2. ~Writing(h[r])
    BY <1>14 DEF SkipPublish, RecordCommit, TaskRefused, StrayStops, Writing
  <2>3. QED
    BY <1>2, <2>1, <2>2
<1>15. ASSUME NEW r \in Requests PROVE ~CallFails(r) /\ ~Abandon(r)
  BY <1>0 DEF CallFails, Abandon, Undisturbed, Interrupted, TypeInv, TypeOK
<1>16. ~Crash
  BY <1>0 DEF Crash, Undisturbed, Interrupted, TypeInv, TypeOK
<1>17. CASE DeleteLastPublished \/ Push \/ HourPasses \/ UNCHANGED vars
  <2>1. UNCHANGED <<store, h, current>> /\ Kept
    BY <1>17 DEF DeleteLastPublished, Push, HourPasses, vars
  <2>2. QED
    BY <1>a, <2>1 DEF HandlesFit, StoreFits, Committing, Fits, InTask, HasCommitted, Writing,
       SameFiles, Consistent
<1>18. QED
  BY <1>1, <1>3, <1>4, <1>5, <1>6, <1>7, <1>8, <1>9, <1>10, <1>11, <1>12, <1>13, <1>14,
     <1>15, <1>16, <1>17 DEF Next, Proceed

\* Tasks that ran to their end, each from a handle that was up to date when the
\* task began, leave metadata that a client accepts: timestamp.json names the
\* published snapshot.json, that the published targets.json (the files are
\* written one by one, non_atomic_tuf_store.go:167).
THEOREM TasksLeaveMetadataConsistent == Spec => []TasksLeaveConsistent
<1>1. Init => FitInv
  BY TypeInit, FitInit DEF FitInv
<1>2. FitInv /\ [Next]_vars => FitInv'
  BY TypeStep, FitStep DEF FitInv
<1>3. FitInv => TasksLeaveConsistent
  BY DEF FitInv, Undisturbed, StoreFits, TasksLeaveConsistent
<1>4. QED
  BY <1>1, <1>2, <1>3, PTL DEF Spec
=============================================================================
