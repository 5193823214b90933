--------------------------- MODULE AdoptionProofs ---------------------------
(***************************************************************************)
(* Proofs about the adoption of the legacy deployment: the offline CA      *)
(* restore drill, the commands plan, prepare and finalize that it serves,  *)
(* and the offline cut-over that follows (adopt, retire, install, abort,   *)
(* reactivate and the watchdog on one host).                               *)
(***************************************************************************)
EXTENDS LegacyAdoption, OfflineCutover, SequenceTheorems, TLAPS

-----------------------------------------------------------------------------
(* The inductive invariant of the offline host.                            *)

Owners == Drills \cup {NoDrill}
Entries == [lock : Owners, att : Owners, sig : Owners]

\* The directory states a reader sees now or a power loss may leave.
Seen(r) == {trail[r][i] : i \in DOMAIN trail[r]}

Stages == {"idle", "exercise", "sign", "lock", "write", "linkSig", "linkAtt", "tidy",
           "release", "unAtt", "unSig", "unSync", "unLock", "done", "refused", "stuck"}

\* The steps of _write_output_pair between taking and dropping the lock.
Holding == {"write", "linkSig", "linkAtt", "tidy", "release",
            "unAtt", "unSig", "unSync", "unLock"}

\* Well formed, a little stronger than DrillTypeOK: every directory has a
\* current state, and a drill that began has its arguments.
DrillShape ==
    /\ media \in [Runs -> [challenge : BOOLEAN, expired : BOOLEAN, archive : Archives]]
    /\ trail \in [Runs -> Seq(Entries)]
    /\ \A r \in Runs : trail[r] # <<>>
    /\ drill \in [Drills -> [pc : Stages, run : Runs \cup {NoRun}, cms : Runs \cup {NoRun}]]
    /\ \A d \in Drills : drill[d].pc # "idle" => drill[d].run \in Runs /\ drill[d].cms \in Runs
    /\ io \in 0 .. MaxIO

Done(d, r) == drill[d].pc = "done" /\ drill[d].run = r

\* An attestation that can be seen, now or after a power loss, has its
\* signature, a good escrow, and the lock of its drill, until that drill is done.
PairInv ==
    \A r \in Runs : \A e \in Seen(r) : e.att # NoDrill =>
        /\ e.sig = e.att
        /\ media[r].archive = "good"
        /\ e.lock = e.att \/ Done(e.att, r)

\* What drill d may rely on in its directory at each step, though others work on it.
Stands(d) ==
    LET at == drill[d].pc
        r == drill[d].run
        now == Directory(r)
    IN  /\ at = "exercise" => media[drill[d].cms].archive # "none"
        /\ at \in Holding \cup {"sign", "lock", "done"} => media[r].archive = "good"
        /\ at \in Holding => now.lock = d
        /\ at = "linkAtt" => now.sig = d
        /\ at \in {"tidy", "release"} => now.att = d /\ now.sig = d
        /\ at \in {"unSig", "unSync", "unLock"} => now.att # d
        /\ at = "done" => \A e \in Seen(r) : e.att = d /\ e.sig = d

DrillInv == DrillShape /\ PairInv /\ (\A d \in Drills : Stands(d))

-----------------------------------------------------------------------------
(* The inductive invariant of the server.                                  *)

Ops == {"none", "prepare", "finalize"}
Closing == {"challenge", "bind"}
Signing == {"restored", "evidence", "signature"}
FinalizePoints == Drilling \cup Signing \cup {"scratch", "clean"}
Points == {"none"} \cup Backing \cup Recovering \cup Closing \cup FinalizePoints

PlanRows == [gen : Nat, shape : Nat, auth : Nat, up : SUBSET Services]
JobRows == [op : Ops, run : Runs \cup {NoRun}, at : Points, ok : BOOLEAN,
            left : SUBSET Services]

\* The live stack and the world around it; every change of it is a trouble.
StackShape ==
    /\ box \in [Services -> {"up", "down"}]
    /\ trouble \in 0 .. MaxTrouble
    /\ gen \in 1 .. trouble + 1 /\ shape \in 1 .. trouble + 1 /\ auth \in 1 .. trouble + 1
    /\ key \in BOOLEAN /\ outage \in BOOLEAN
    /\ writes \in 0 .. MaxWrites

\* The files of the runs; a plan binds what was live when it was made.
FileShape ==
    /\ plan \in [Runs -> PlanRows]
    /\ \A r \in Runs : plan[r].gen <= gen /\ plan[r].auth <= auth
    /\ art \in [Runs -> SUBSET Artifacts]
    /\ copy \in [Runs -> [rows : 0 .. MaxWrites, blobs : 0 .. MaxWrites]]
    /\ late \in [Runs -> SUBSET Dated]
    /\ rot \in [Runs -> SUBSET {"database", "objects", "escrow"}]
    /\ shared \subseteq Runs

\* A running command has a run and stands at a step of its own.
Formed(c) ==
    /\ job[c].op # "none" => job[c].run \in Runs
    /\ job[c].op = "prepare" => job[c].at \in Backing \cup Recovering \cup Closing
    /\ job[c].op = "finalize" => job[c].at \in FinalizePoints

JobShape == job \in [Commands -> JobRows] /\ \A c \in Commands : Formed(c)

AdoptionShape == StackShape /\ FileShape /\ JobShape

\* A run has files only in its directory and only under its plan.
RunInv ==
    \A r \in Runs : /\ plan[r] = NoPlan => art[r] = {}
                    /\ "directory" \notin art[r] => art[r] = {} /\ media[r].archive = "none"

\* The containers of the plan have not been replaced, as far as run r knows,
\* and no other prepare had a hand on the stack.
Original(r) == gen = plan[r].gen /\ r \notin shared

\* A prepare has a directory of its own and binds what it made last; while it
\* takes its backups there is no escrow yet.  As long as the containers are
\* the planned ones and no other prepare is at work, nothing writes between
\* its dump and its mirror.
PrepareInv(c) ==
    LET r == job[c].run
        at == job[c].at
    IN  job[c].op = "prepare" =>
          /\ "prepared" \notin art[r] /\ "directory" \in art[r]
          /\ at \in Backing => media[r].archive = "none"
          /\ Original(r) =>
                /\ at \in {"dump", "archive", "mirror"} => box["api"] # "up"
                /\ at \in {"archive", "mirror"} => copy[r].rows = writes
                /\ at \in {"seal", "escrow"} \cup Closing => copy[r].rows = copy[r].blobs
                /\ at \in Recovering /\ job[c].ok => copy[r].rows = copy[r].blobs

\* Two prepares have two runs, and know of each other where both have a hand
\* on the stack.
Apart ==
    \A c, d \in Commands :
        c # d /\ job[c].op = "prepare" /\ job[d].op = "prepare" =>
            /\ job[c].run # job[d].run
            /\ Touches(c) /\ Touches(d) => job[c].run \in shared

\* The stack is up unless a prepare has it stopped or an outage is known.
OutageInv ==
    ~outage /\ (\A c \in Commands : ~Touches(c)) => \A s \in Services : box[s] = "up"

\* An offline drill of the run was done.
Certified(r) == \E d \in Drills : Done(d, r)

Inputs == {"database", "objects", "escrow", "challenge", "prepared"}

\* The documents of finalize stand on a finished drill and all inputs.
EvidenceInv ==
    \A r \in Runs : /\ art[r] \cap Signing # {} => Certified(r) /\ Inputs \subseteq art[r]
                    /\ "signature" \in art[r] => Signing \subseteq art[r]

\* So does a finalize, which signs only copies that were restored undamaged.
FinalizeInv(c) ==
    LET r == job[c].run
        at == job[c].at
    IN  job[c].op = "finalize" =>
          /\ Certified(r) /\ Inputs \subseteq art[r]
          /\ at \in {"countRows", "restoreBlobs", "readBlobs"} => "database" \notin rot[r]
          /\ at \in Signing \/ (at = "clean" /\ job[c].ok) =>
                 rot[r] \cap {"database", "objects"} = {}
          /\ at \in {"evidence", "signature"} => "restored" \in art[r]
          /\ at = "signature" => "evidence" \in art[r]

FilesInv == RunInv /\ BackupHalvesAgree /\ EvidenceInv

CommandsInv == \A c \in Commands : PrepareInv(c) /\ FinalizeInv(c)

ServerInv ==
    AdoptionShape /\ FilesInv /\ CommandsInv /\ Apart /\ OutageInv

AdoptionInv == DrillInv /\ ServerInv

-----------------------------------------------------------------------------
(* The offline host preserves its invariant.                               *)

\* A step on the directory of r: it is e from now on, and nothing else can be
\* seen that could not be seen before.
Becomes(r, e) ==
    /\ trail' \in [Runs -> Seq(Entries)]
    /\ \A q \in Runs : trail'[q] # <<>>
    /\ \A q \in Runs \ {r} : trail'[q] = trail[q]
    /\ Directory(r)' = e
    /\ \A f \in Seen(r)' : f = e \/ f \in Seen(r)

(* The current state of a directory is one of those that can be seen. *)
LEMMA DirectorySeen ==
    ASSUME DrillShape, NEW r \in Runs
    PROVE  Directory(r) \in Seen(r) /\ Directory(r) \in Entries
<1>1. trail[r] \in Seq(Entries) /\ trail[r] # <<>>
  BY DEF DrillShape
<1>2. Len(trail[r]) \in DOMAIN trail[r]
  BY <1>1
<1>3. trail[r][Len(trail[r])] \in Entries
  BY <1>1, <1>2
<1> QED
  BY <1>2, <1>3 DEF Directory, Seen, Last

(* A directory operation appends to what can be seen. *)
LEMMA Entered ==
    ASSUME DrillShape, NEW r \in Runs, NEW e \in Entries,
           trail' = [trail EXCEPT ![r] = Append(@, e)]
    PROVE  Becomes(r, e)
<1>1. trail[r] \in Seq(Entries)
  BY DEF DrillShape
<1>2. trail'[r] = Append(trail[r], e)
  BY DEF DrillShape
<1>3. /\ trail'[r] \in Seq(Entries)
      /\ trail'[r] # <<>>
      /\ Len(trail'[r]) = Len(trail[r]) + 1
      /\ \A i \in 1 .. Len(trail[r]) : trail'[r][i] = trail[r][i]
      /\ trail'[r][Len(trail[r]) + 1] = e
  BY <1>1, <1>2, AppendProperties
<1>4. Directory(r)' = e
  BY <1>3 DEF Directory, Last
<1>5. ASSUME NEW f \in Seen(r)' PROVE f = e \/ f \in Seen(r)
  <2>1. PICK i \in DOMAIN trail'[r] : f = trail'[r][i]
    BY DEF Seen
  <2>2. i \in 1 .. Len(trail[r]) + 1
    BY <2>1, <1>3
  <2>3. CASE i = Len(trail[r]) + 1
    BY <2>1, <2>3, <1>3
  <2>4. CASE i # Len(trail[r]) + 1
    <3>1. i \in 1 .. Len(trail[r]) /\ Len(trail[r]) \in Nat
      BY <1>1, <2>2, <2>4
    <3>2. i \in DOMAIN trail[r] /\ f = trail[r][i]
      BY <1>1, <1>3, <2>1, <3>1
    <3> QED
      BY <3>2 DEF Seen
  <2> QED
    BY <2>3, <2>4
<1>6. /\ trail' \in [Runs -> Seq(Entries)]
      /\ \A q \in Runs : trail'[q] # <<>>
      /\ \A q \in Runs \ {r} : trail'[q] = trail[q]
  BY <1>2, <1>3 DEF DrillShape
<1> QED
  BY <1>4, <1>5, <1>6 DEF Becomes

(* An fsync leaves one state to be seen. *)
LEMMA Replaced ==
    ASSUME DrillShape, NEW r \in Runs, NEW e \in Entries,
           trail' = [trail EXCEPT ![r] = <<e>>]
    PROVE  Becomes(r, e)
<1>1. trail'[r] = <<e>>
  BY DEF DrillShape
<1>2. /\ <<e>> \in Seq(Entries) /\ <<e>> # <<>>
      /\ Len(<<e>>) = 1 /\ <<e>>[1] = e /\ DOMAIN <<e>> = {1}
  OBVIOUS
<1>3. Directory(r)' = e
  BY <1>1, <1>2 DEF Directory, Last
<1>4. \A f \in Seen(r)' : f = e
  BY <1>1, <1>2 DEF Seen
<1>5. /\ trail' \in [Runs -> Seq(Entries)]
      /\ \A q \in Runs : trail'[q] # <<>>
      /\ \A q \in Runs \ {r} : trail'[q] = trail[q]
  BY <1>1, <1>2 DEF DrillShape
<1> QED
  BY <1>3, <1>4, <1>5 DEF Becomes

\* What another drill may do to the current state: it takes away nothing that
\* is not its own and gives nothing to a third.
Spares(d, now, e) ==
    \A x \in Drills \ {d} : /\ now.lock = x => e.lock = x
                            /\ now.sig = x => e.sig = x
                            /\ now.att = x <=> e.att = x

\* Drill d goes to stage at and leaves the others alone.
Goes(d, at) ==
    /\ at \in Stages
    /\ drill[d].pc \notin {"idle", "done"}
    /\ drill' = [drill EXCEPT ![d].pc = at]
    /\ media' = media /\ io' \in 0 .. MaxIO

(* A drill that goes on to its next stage keeps its arguments and the other drills. *)
LEMMA GoesEffect ==
    ASSUME DrillShape, NEW d \in Drills, NEW at, Goes(d, at)
    PROVE  /\ drill' \in [Drills -> [pc : Stages, run : Runs \cup {NoRun}, cms : Runs \cup {NoRun}]]
           /\ drill'[d].pc = at /\ drill'[d].run = drill[d].run /\ drill'[d].cms = drill[d].cms
           /\ \A x \in Drills \ {d} : drill'[x] = drill[x]
           /\ \A x \in Drills : drill'[x].run = drill[x].run /\ drill'[x].cms = drill[x].cms
           /\ \A x \in Drills : drill'[x].pc # "idle" => drill[x].pc # "idle"
           /\ \A x, r : x \in Drills /\ Done(x, r) => Done(x, r)'
           /\ drill[d].run \in Runs /\ media' = media
BY DEF DrillShape, Goes, Done

(* The frame of every step of a drill: it is enough to look at the drill
   itself and at the new state of its directory. *)
LEMMA DrillFrame ==
    ASSUME DrillInv, NEW d \in Drills, NEW at, Goes(d, at),
           NEW r, r = drill[d].run, NEW e \in Entries, Becomes(r, e),
           Spares(d, Directory(r), e),
           e.att # NoDrill => /\ e.sig = e.att /\ media[r].archive = "good"
                              /\ e.lock = e.att \/ Done(e.att, r)',
           Stands(d)'
    PROVE  DrillInv'
<1> DEFINE now == Directory(r)
<1>0. DrillShape /\ PairInv /\ media' = media /\ r \in Runs
  BY GoesEffect DEF DrillInv, Goes
<1>1. now \in Seen(r) /\ now \in Entries
  BY <1>0, DirectorySeen
<1>2. DrillShape'
  BY <1>0, GoesEffect DEF DrillShape, Becomes, Goes
<1>3. PairInv'
  <2> SUFFICES ASSUME NEW q \in Runs, NEW f \in Seen(q)', f.att # NoDrill
               PROVE  /\ f.sig = f.att /\ media'[q].archive = "good"
                      /\ f.lock = f.att \/ Done(f.att, q)'
    BY DEF PairInv
  <2>1. CASE q = r /\ f = e
    BY <2>1, <1>0
  <2>2. CASE ~ (q = r /\ f = e)
    <3>1. f \in Seen(q)
      <4>1. CASE q = r
        BY <2>2, <4>1 DEF Becomes
      <4>2. CASE q # r
        <5>1. trail'[q] = trail[q]
          BY <4>2 DEF Becomes
        <5> QED
          BY <5>1 DEF Seen
      <4> QED
        BY <4>1, <4>2
    <3>2. /\ f.sig = f.att /\ media[q].archive = "good"
          /\ f.lock = f.att \/ Done(f.att, q)
      BY <1>0, <3>1 DEF PairInv
    <3>3. f \in Entries
      <4>1. trail[q] \in Seq(Entries)
        BY <1>0 DEF DrillShape
      <4> QED
        BY <3>1, <4>1 DEF Seen
    <3>4. f.att \in Drills
      BY <3>3 DEF Entries, Owners
    <3> QED
      BY <1>0, <3>2, <3>4, GoesEffect
  <2> QED
    BY <2>1, <2>2
<1>4. ASSUME NEW x \in Drills, x # d PROVE Stands(x)'
  <2>1. drill'[x] = drill[x] /\ Stands(x)
    BY <1>0, <1>4, GoesEffect DEF DrillInv
  <2>2. CASE drill[x].run # r \/ drill[x].pc = "idle"
    <3>1. drill[x].pc # "idle" => drill[x].run \in Runs \ {r}
      BY <2>2, <1>0 DEF DrillShape
    <3>2. drill[x].pc # "idle" => trail'[drill[x].run] = trail[drill[x].run]
      BY <3>1 DEF Becomes
    <3>3. drill[x].pc # "idle" => /\ Directory(drill[x].run)' = Directory(drill[x].run)
                                  /\ Seen(drill[x].run)' = Seen(drill[x].run)
      BY <2>1, <3>2 DEF Directory, Seen
    <3> QED
      BY <1>0, <2>1, <3>3 DEF Stands, Holding
  <2>3. CASE drill[x].run = r
    <3>1. Directory(drill[x].run)' = e
      BY <2>1, <2>3 DEF Becomes
    <3>2. /\ now.lock = x => e.lock = x
          /\ now.sig = x => e.sig = x
          /\ now.att = x <=> e.att = x
      BY <1>4 DEF Spares
    <3>3. drill[x].pc = "done" => \A f \in Seen(r)' : f.att = x /\ f.sig = x
      BY <2>1, <2>3, <1>1, <3>2 DEF Stands, Becomes
    <3> HIDE DEF now
    <3> QED
      BY <1>0, <2>1, <2>3, <3>1, <3>2, <3>3 DEF Stands, now
  <2> QED
    BY <2>2, <2>3
<1> QED
  BY <1>2, <1>3, <1>4 DEF DrillInv

(* A step of a drill that leaves the directories alone. *)
LEMMA DrillStays ==
    ASSUME DrillInv, NEW d \in Drills, NEW at, Goes(d, at), trail' = trail, Stands(d)'
    PROVE  DrillInv'
<1>0. DrillShape /\ PairInv /\ media' = media
  BY DEF DrillInv, Goes
<1>1. DrillShape'
  BY <1>0, GoesEffect DEF DrillShape, Goes
<1>2. PairInv'
  <2> SUFFICES ASSUME NEW q \in Runs, NEW f \in Seen(q)', f.att # NoDrill
               PROVE  /\ f.sig = f.att /\ media'[q].archive = "good"
                      /\ f.lock = f.att \/ Done(f.att, q)'
    BY DEF PairInv
  <2>1. f \in Seen(q)
    BY DEF Seen
  <2>2. f \in Entries
    <3>1. trail[q] \in Seq(Entries)
      BY <1>0 DEF DrillShape
    <3> QED
      BY <2>1, <3>1 DEF Seen
  <2>3. f.att \in Drills
    BY <2>2 DEF Entries, Owners
  <2> QED
    BY <1>0, <2>1, <2>3, GoesEffect DEF PairInv
<1>3. ASSUME NEW x \in Drills, x # d PROVE Stands(x)'
  <2>1. drill'[x] = drill[x] /\ Stands(x)
    BY <1>0, <1>3, GoesEffect DEF DrillInv
  <2>2. Directory(drill[x].run)' = Directory(drill[x].run)
    BY <2>1 DEF Directory
  <2>3. Seen(drill[x].run)' = Seen(drill[x].run)
    BY <2>1 DEF Seen
  <2> QED
    BY <1>0, <2>1, <2>2, <2>3 DEF Stands
<1> QED
  BY <1>1, <1>2, <1>3 DEF DrillInv

(* The steps before the lock, the writing of the temporaries and every failure
   leave the directories alone. *)
LEMMA QuietSteps ==
    ASSUME DrillInv, NEW d \in Drills,
           DrillExercises(d) \/ DrillSigns(d) \/ DrillWrites(d)
               \/ DrillIOFails(d) \/ DrillOpensslFails(d)
    PROVE  DrillInv'
<1> DEFINE r == drill[d].run
<1>0. DrillShape /\ Stands(d) /\ media \in [Runs -> [challenge : BOOLEAN, expired : BOOLEAN, archive : Archives]]
  BY DEF DrillInv, DrillShape
<1>1. PICK at \in Stages : Goes(d, at) /\ trail' = trail /\
          \/ drill[d].pc = "exercise" /\ at = "sign" /\ drill[d].cms = r
             /\ media[drill[d].cms].archive \notin {"foreign", "padded", "garbled", "broken"}
          \/ drill[d].pc = "sign" /\ at = "lock"
          \/ drill[d].pc = "write" /\ at = "linkSig"
          \/ drill[d].pc \in {"write", "linkSig", "linkAtt", "tidy"} /\ at = "unAtt"
          \/ at \in {"refused", "stuck"}
  <2>1. CASE DrillExercises(d)
    <3> DEFINE to == IF CmsBound(d) /\ RecipientContract(d) /\ CmsContract(d)
                        /\ ArchiveReadable(d) /\ CaWorks(d) THEN "sign" ELSE "refused"
    <3>1. Goes(d, to) /\ trail' = trail /\ drill[d].pc = "exercise" /\ to \in Stages
      BY <2>1, <1>0 DEF DrillExercises, Goto, Goes, Stages, DrillShape
    <3>2. to = "sign" => drill[d].cms = r
             /\ media[drill[d].cms].archive \notin {"foreign", "padded", "garbled", "broken"}
      BY DEF CmsBound, RecipientContract, CmsContract, ArchiveReadable, CaWorks, Archive
    <3> QED
      BY <3>1, <3>2
  <2>2. CASE DrillSigns(d)
    <3> DEFINE to == IF media[drill[d].run].expired THEN "refused" ELSE "lock"
    <3>1. Goes(d, to) /\ trail' = trail /\ drill[d].pc = "sign" /\ to \in Stages
      BY <2>2, <1>0 DEF DrillSigns, Goto, Goes, Stages, DrillShape
    <3> QED
      BY <3>1
  <2>3. CASE DrillWrites(d)
    <3>1. Goes(d, "linkSig") /\ trail' = trail /\ drill[d].pc = "write" /\ "linkSig" \in Stages
      BY <2>3, <1>0 DEF DrillWrites, Goto, Goes, Stages, DrillShape
    <3> QED
      BY <3>1
  <2>4. CASE DrillIOFails(d)
    <3>1. io' \in 0 .. MaxIO /\ media' = media /\ trail' = trail
      BY <2>4, <1>0, DrillAssumption DEF DrillIOFails, DrillShape
    <3>2. CASE drill[d].pc \in {"write", "linkSig", "linkAtt", "tidy"} /\ Goto(d, "unAtt")
      <4>1. Goes(d, "unAtt") /\ "unAtt" \in Stages
        BY <3>1, <3>2 DEF Goto, Goes, Stages
      <4> QED
        BY <3>1, <3>2, <4>1
    <3>3. CASE drill[d].pc \in {"unAtt", "unSig", "unSync", "unLock", "release"} /\ Goto(d, "stuck")
      <4>1. Goes(d, "stuck") /\ "stuck" \in Stages
        BY <3>1, <3>3 DEF Goto, Goes, Stages
      <4> QED
        BY <3>1, <3>3, <4>1
    <3> QED
      BY <2>4, <3>2, <3>3 DEF DrillIOFails
  <2>5. CASE DrillOpensslFails(d)
    <3>1. io' \in 0 .. MaxIO /\ media' = media /\ trail' = trail
      BY <2>5, <1>0, DrillAssumption DEF DrillOpensslFails, DrillShape
    <3>2. Goes(d, "refused") /\ "refused" \in Stages
      BY <2>5, <3>1 DEF DrillOpensslFails, Goto, Goes, Stages
    <3> QED
      BY <3>1, <3>2
  <2> QED
    BY <2>1, <2>2, <2>3, <2>4, <2>5
<1>2. /\ drill'[d].pc = at /\ drill'[d].run = r /\ drill'[d].cms = drill[d].cms
      /\ media' = media /\ drill[d].pc # "idle" /\ r \in Runs /\ drill[d].cms \in Runs
  BY <1>0, <1>1, GoesEffect DEF Goes, DrillShape
<1>3. Directory(drill[d].run)' = Directory(r)
  BY <1>1, <1>2 DEF Directory
<1>4. at = "sign" => media[r].archive = "good"
  <2>1. media[drill[d].cms].archive \in Archives
    BY <1>0, <1>2
  <2> QED
    BY <1>0, <1>1, <2>1 DEF Stands, Archives
<1>5. at \in {"lock", "linkSig", "unAtt"} => media[r].archive = "good"
  BY <1>0, <1>1 DEF Stands, Holding
<1>6. at \in {"linkSig", "unAtt"} => Directory(r).lock = d
  BY <1>0, <1>1 DEF Stands, Holding
<1>7. at \in {"sign", "lock", "linkSig", "unAtt", "refused", "stuck"}
  BY <1>1
<1>8. Stands(d)'
  BY <1>2, <1>3, <1>4, <1>5, <1>6, <1>7 DEF Stands, Holding
<1> QED
  BY <1>1, <1>8, DrillStays

(* What a drill knows when it comes to work on its directory. *)
LEMMA AtWork ==
    ASSUME DrillInv, NEW d \in Drills, drill[d].pc \in Holding \cup {"lock"}
    PROVE  /\ DrillShape /\ Stands(d) /\ drill[d].run \in Runs
           /\ Directory(drill[d].run) \in Entries
           /\ Directory(drill[d].run) \in Seen(drill[d].run)
           /\ media[drill[d].run].archive = "good"
           /\ LET now == Directory(drill[d].run)
              IN  now.att # NoDrill =>
                      /\ now.sig = now.att
                      /\ now.lock = now.att \/ Done(now.att, drill[d].run)
<1>1. DrillShape /\ Stands(d) /\ PairInv
  BY DEF DrillInv
<1>2. drill[d].run \in Runs
  BY <1>1 DEF DrillShape, Holding
<1>3. media[drill[d].run].archive = "good"
  BY <1>1 DEF Stands
<1>4. Directory(drill[d].run) \in Seen(drill[d].run) /\ Directory(drill[d].run) \in Entries
  BY <1>1, <1>2, DirectorySeen
<1> QED
  BY <1>1, <1>2, <1>3, <1>4 DEF PairInv

(* A done drill stays done while another one works. *)
LEMMA DoneKept ==
    ASSUME DrillShape, NEW d \in Drills, NEW at, Goes(d, at), NEW x \in Drills, NEW r,
           Done(x, r)
    PROVE  Done(x, r)'
BY GoesEffect

(* _write_output_pair takes a lock that nobody has, or refuses. *)
LEMMA LockStep ==
    ASSUME DrillInv, NEW d \in Drills, DrillLocks(d)
    PROVE  DrillInv'
<1> PICK r, now, e : /\ r = drill[d].run /\ now = Directory(r)
                     /\ e = [now EXCEPT !.lock = d]
  OBVIOUS
<1>0. drill[d].pc = "lock" /\ DrillShape /\ r \in Runs /\ now \in Entries
      /\ media[r].archive = "good" /\ d # NoDrill
  BY AtWork, DrillAssumption DEF DrillLocks
<1>1. CASE now.lock = NoDrill
  <2>1. Goes(d, "write")
    BY <1>0, <1>1 DEF DrillLocks, Goto, Goes, Stages, DrillShape
  <2>2. /\ drill'[d].pc = "write" /\ drill'[d].run = r
        /\ media' = media
    BY <1>0, <2>1, GoesEffect
  <2>3. e \in Entries /\ e.lock = d /\ e.att = now.att /\ e.sig = now.sig
    BY <1>0 DEF Entries, Owners
  <2>4. trail' = [trail EXCEPT ![r] = Append(@, e)]
    BY <1>0, <1>1 DEF DrillLocks, Enter, Directory, DrillShape
  <2>5. Becomes(r, e)
    BY <1>0, <2>3, <2>4, Entered
  <2>6. Spares(d, now, e)
    BY <1>1, <2>3, DrillAssumption DEF Spares
  <2>7. e.att # NoDrill => /\ e.sig = e.att /\ media[r].archive = "good"
                           /\ e.lock = e.att \/ Done(e.att, r)'
    <3> SUFFICES ASSUME e.att # NoDrill
                 PROVE  e.sig = e.att /\ Done(e.att, r)'
      BY <1>0
    <3>1. e.sig = e.att /\ Done(e.att, r)
      BY <1>0, <1>1, <2>3, AtWork
    <3>2. e.att \in Drills
      BY <2>3 DEF Entries, Owners
    <3> QED
      BY <1>0, <2>1, <3>1, <3>2, DoneKept
  <2>8. Stands(d)'
    BY <1>0, <2>2, <2>3, <2>5 DEF Stands, Holding, Becomes
  <2> QED
    BY <2>1, <2>3, <2>5, <2>6, <2>7, <2>8, DrillFrame
<1>2. CASE now.lock # NoDrill
  <2>1. Goes(d, "refused") /\ trail' = trail
    BY <1>0, <1>2 DEF DrillLocks, Goto, Goes, Stages, DrillShape
  <2>2. Stands(d)'
    BY <1>0, <2>1, GoesEffect DEF Stands, Holding
  <2> QED
    BY <2>1, <2>2, DrillStays
<1> QED
  BY <1>1, <1>2

(* A name that exists sends a drill into its rollback. *)
LEMMA PublishRefused ==
    ASSUME DrillInv, NEW d \in Drills, drill[d].pc \in {"linkSig", "linkAtt"},
           Goto(d, "unAtt"), UNCHANGED <<trail, media, io>>
    PROVE  DrillInv'
<1>1. /\ DrillShape /\ drill[d].run \in Runs /\ media[drill[d].run].archive = "good"
      /\ Directory(drill[d].run).lock = d
  BY AtWork DEF Holding, Stands
<1>2. Goes(d, "unAtt") /\ trail' = trail
  BY <1>1 DEF Goto, Goes, Stages, DrillShape
<1>3. drill'[d].pc = "unAtt" /\ drill'[d].run = drill[d].run /\ media' = media
  BY <1>1, <1>2, GoesEffect
<1>4. Directory(drill[d].run)' = Directory(drill[d].run)
  BY <1>2, <1>3 DEF Directory
<1>5. Stands(d)'
  BY <1>1, <1>3, <1>4 DEF Stands, Holding
<1> QED
  BY <1>2, <1>5, DrillStays

(* The signature is linked first, under the lock of its drill. *)
LEMMA SignatureStep ==
    ASSUME DrillInv, NEW d \in Drills, DrillLinksSignature(d)
    PROVE  DrillInv'
<1> PICK r, now, e : /\ r = drill[d].run /\ now = Directory(r)
                     /\ e = [now EXCEPT !.sig = d]
  OBVIOUS
<1>0. drill[d].pc = "linkSig" /\ DrillShape /\ r \in Runs /\ now \in Entries
      /\ media[r].archive = "good" /\ now.lock = d /\ d # NoDrill
  BY AtWork, DrillAssumption DEF DrillLinksSignature, Holding, Stands
<1>1. CASE now.sig = NoDrill
  <2>1. Goes(d, "linkAtt")
    BY <1>0, <1>1 DEF DrillLinksSignature, Publish, Goto, Goes, Stages, DrillShape
  <2>2. /\ drill'[d].pc = "linkAtt" /\ drill'[d].run = r
        /\ media' = media
    BY <1>0, <2>1, GoesEffect
  <2>3. e \in Entries /\ e.lock = d /\ e.att = now.att /\ e.sig = d
    BY <1>0 DEF Entries, Owners
  <2>4. trail' = [trail EXCEPT ![r] = Append(@, e)]
    BY <1>0, <1>1 DEF DrillLinksSignature, Publish, Enter, Directory, DrillShape
  <2>5. Becomes(r, e)
    BY <1>0, <2>3, <2>4, Entered
  <2>6. Spares(d, now, e)
    BY <1>0, <1>1, <2>3, DrillAssumption DEF Spares
  <2>7. e.att = NoDrill
    BY <1>0, <1>1, <2>3, AtWork DEF Holding
  <2>8. Stands(d)'
    BY <1>0, <2>2, <2>3, <2>5 DEF Stands, Holding, Becomes
  <2> QED
    BY <2>1, <2>3, <2>5, <2>6, <2>7, <2>8, DrillFrame
<1>2. CASE now.sig # NoDrill
  BY <1>0, <1>2, PublishRefused DEF DrillLinksSignature, Publish
<1> QED
  BY <1>1, <1>2

(* The attestation is linked second, beside the signature of the same drill. *)
LEMMA AttestationStep ==
    ASSUME DrillInv, NEW d \in Drills, DrillLinksAttestation(d)
    PROVE  DrillInv'
<1> PICK r, now, e : /\ r = drill[d].run /\ now = Directory(r)
                     /\ e = [now EXCEPT !.att = d]
  OBVIOUS
<1>0. drill[d].pc = "linkAtt" /\ DrillShape /\ r \in Runs /\ now \in Entries
      /\ media[r].archive = "good" /\ now.lock = d /\ now.sig = d /\ d # NoDrill
  BY AtWork, DrillAssumption DEF DrillLinksAttestation, Holding, Stands
<1>1. CASE now.att = NoDrill
  <2>1. Goes(d, "tidy")
    BY <1>0, <1>1 DEF DrillLinksAttestation, Publish, Goto, Goes, Stages, DrillShape
  <2>2. /\ drill'[d].pc = "tidy" /\ drill'[d].run = r
        /\ media' = media
    BY <1>0, <2>1, GoesEffect
  <2>3. e \in Entries /\ e.lock = d /\ e.att = d /\ e.sig = d
    BY <1>0 DEF Entries, Owners
  <2>4. trail' = [trail EXCEPT ![r] = Append(@, e)]
    BY <1>0, <1>1 DEF DrillLinksAttestation, Publish, Enter, Directory, DrillShape
  <2>5. Becomes(r, e)
    BY <1>0, <2>3, <2>4, Entered
  <2>6. Spares(d, now, e)
    BY <1>0, <1>1, <2>3, DrillAssumption DEF Spares
  <2>7. Stands(d)'
    BY <1>0, <2>2, <2>3, <2>5 DEF Stands, Holding, Becomes
  <2> QED
    BY <1>0, <2>1, <2>3, <2>5, <2>6, <2>7, DrillFrame
<1>2. CASE now.att # NoDrill
  BY <1>0, <1>2, PublishRefused DEF DrillLinksAttestation, Publish
<1> QED
  BY <1>1, <1>2

(* An fsync of the directory changes what a power loss may leave, not what is
   seen now. *)
LEMMA SyncStep ==
    ASSUME DrillInv, NEW d \in Drills, DrillTidies(d) \/ DrillUnsyncs(d)
    PROVE  DrillInv'
<1> PICK r, now : r = drill[d].run /\ now = Directory(r)
  OBVIOUS
<1>0. /\ drill[d].pc \in {"tidy", "unSync"} /\ DrillShape /\ r \in Runs /\ now \in Entries
      /\ media[r].archive = "good" /\ now.lock = d
  BY AtWork DEF DrillTidies, DrillUnsyncs, Holding, Stands
<1> PICK at : at = IF drill[d].pc = "tidy" THEN "release" ELSE "unLock"
  OBVIOUS
<1>1. Goes(d, at)
  BY <1>0 DEF DrillTidies, DrillUnsyncs, Goto, Goes, Stages, DrillShape
<1>2. drill'[d].pc = at /\ drill'[d].run = r /\ media' = media
  BY <1>0, <1>1, GoesEffect
<1>3. trail' = [trail EXCEPT ![r] = <<now>>]
  BY <1>0 DEF DrillTidies, DrillUnsyncs, FsyncDirectory, Directory
<1>4. Becomes(r, now)
  BY <1>0, <1>3, Replaced
<1>5. Spares(d, now, now)
  BY DEF Spares
<1>6. now.att # NoDrill => /\ now.sig = now.att /\ media[r].archive = "good"
                           /\ now.lock = now.att \/ Done(now.att, r)'
  <2> SUFFICES ASSUME now.att # NoDrill
               PROVE  now.sig = now.att /\ (now.lock = now.att \/ Done(now.att, r)')
    BY <1>0
  <2>1. now.sig = now.att /\ (now.lock = now.att \/ Done(now.att, r))
    BY <1>0, AtWork DEF Holding
  <2>2. now.att \in Drills
    BY <1>0 DEF Entries, Owners
  <2> QED
    BY <1>0, <1>1, <2>1, <2>2, DoneKept
<1>7. Stands(d)'
  <2>1. Directory(r)' = now
    BY <1>4 DEF Becomes
  <2>2. at = "release" => now.att = d /\ now.sig = d
    BY <1>0, AtWork DEF Holding, Stands
  <2>3. at = "unLock" => now.att # d
    BY <1>0, AtWork DEF Holding, Stands
  <2> QED
    BY <1>0, <1>2, <2>1, <2>2, <2>3 DEF Stands, Holding
<1> QED
  BY <1>0, <1>1, <1>4, <1>5, <1>6, <1>7, DrillFrame

(* The lock goes: with the pair committed, or with nothing of the drill left. *)
LEMMA UnlockStep ==
    ASSUME DrillInv, NEW d \in Drills, DrillReleases(d) \/ DrillUnlocks(d)
    PROVE  DrillInv'
<1> PICK r, now, e : /\ r = drill[d].run /\ now = Directory(r)
                     /\ e = [now EXCEPT !.lock = NoDrill]
  OBVIOUS
<1>0. /\ drill[d].pc \in {"release", "unLock"} /\ DrillShape /\ r \in Runs /\ now \in Entries
      /\ media[r].archive = "good" /\ now.lock = d /\ d # NoDrill
  BY AtWork, DrillAssumption DEF DrillReleases, DrillUnlocks, Holding, Stands
<1> PICK at : at = IF drill[d].pc = "release" THEN "done" ELSE "refused"
  OBVIOUS
<1>1. Goes(d, at)
  BY <1>0 DEF DrillReleases, DrillUnlocks, Goto, Goes, Stages, DrillShape
<1>2. drill'[d].pc = at /\ drill'[d].run = r /\ media' = media
  BY <1>0, <1>1, GoesEffect
<1>3. e \in Entries /\ e.lock = NoDrill /\ e.att = now.att /\ e.sig = now.sig
  BY <1>0 DEF Entries, Owners
<1>4. trail' = [trail EXCEPT ![r] = <<e>>]
  <2>1. trail' = [trail EXCEPT ![r] = <<Unlocked(Last(@), d)>>]
    BY DEF DrillReleases, DrillUnlocks
  <2>2. now = Last(trail[r])
    BY DEF Directory
  <2>3. e = Unlocked(now, d)
    BY <1>0 DEF Unlocked
  <2> QED
    BY <2>1, <2>2, <2>3
<1>5. Becomes(r, e)
  BY <1>0, <1>3, <1>4, Replaced
<1>6. Spares(d, now, e)
  BY <1>0, <1>3, DrillAssumption DEF Spares
<1>7. at = "done" => now.att = d /\ now.sig = d
  BY <1>0, AtWork DEF Holding, Stands
<1>8. at = "refused" => now.att # d
  BY <1>0, AtWork DEF Holding, Stands
<1>9. e.att # NoDrill => /\ e.sig = e.att /\ media[r].archive = "good"
                         /\ e.lock = e.att \/ Done(e.att, r)'
  <2> SUFFICES ASSUME e.att # NoDrill
               PROVE  e.sig = e.att /\ Done(e.att, r)'
    BY <1>0
  <2>1. now.sig = now.att /\ (now.lock = now.att \/ Done(now.att, r))
    BY <1>0, <1>3, AtWork DEF Holding
  <2>2. CASE now.att = d
    BY <1>0, <1>2, <1>3, <1>8, <2>1, <2>2 DEF Done
  <2>3. CASE now.att # d
    <3>1. now.att \in Drills
      BY <1>0, <1>3 DEF Entries, Owners
    <3> QED
      BY <1>0, <1>1, <1>3, <2>1, <2>3, <3>1, DoneKept
  <2> QED
    BY <2>2, <2>3
<1>10. Stands(d)'
  <2>1. at = "done" => \A f \in Seen(r)' : f.att = d /\ f.sig = d
    <3>1. \A f \in Seen(r)' : f = e
      <4>1. trail'[r] = <<e>>
        BY <1>0, <1>4 DEF DrillShape
      <4> QED
        BY <4>1 DEF Seen
    <3> QED
      BY <1>3, <1>7, <3>1
  <2> QED
    BY <1>0, <1>2, <2>1 DEF Stands, Holding
<1> QED
  BY <1>1, <1>3, <1>5, <1>6, <1>9, <1>10, DrillFrame

(* The rollback takes away an attestation of its own, then a signature of its
   own. *)
LEMMA UnlinkStep ==
    ASSUME DrillInv, NEW d \in Drills, DrillUnlinks(d)
    PROVE  DrillInv'
<1> PICK r, now, e : /\ r = drill[d].run /\ now = Directory(r)
                     /\ e = IF drill[d].pc = "unAtt" THEN [now EXCEPT !.att = NoDrill]
                            ELSE [now EXCEPT !.sig = NoDrill]
  OBVIOUS
<1>0. /\ drill[d].pc \in {"unAtt", "unSig"} /\ DrillShape /\ r \in Runs /\ now \in Entries
      /\ media[r].archive = "good" /\ now.lock = d /\ d # NoDrill
  BY AtWork, DrillAssumption DEF DrillUnlinks, Holding, Stands
<1> PICK at : at = IF drill[d].pc = "unAtt" THEN "unSig" ELSE "unSync"
  OBVIOUS
<1>1. Goes(d, at)
  BY <1>0 DEF DrillUnlinks, Goto, Goes, Stages, DrillShape
<1>2. drill'[d].pc = at /\ drill'[d].run = r /\ media' = media
  BY <1>0, <1>1, GoesEffect
<1>3. at = "unSync" => now.att # d
  BY <1>0, AtWork DEF Holding, Stands
<1> PICK mine : mine = IF drill[d].pc = "unAtt" THEN now.att ELSE now.sig
  OBVIOUS
<1>4. CASE mine = d
  <2>1. /\ e \in Entries /\ e.lock = d /\ e.att # d
        /\ e.att = NoDrill \/ e.att = now.att
        /\ e.sig = NoDrill \/ e.sig = now.sig
    BY <1>0, <1>3 DEF Entries, Owners
  <2>2. trail' = [trail EXCEPT ![r] = Append(@, e)]
    BY <1>0, <1>4 DEF DrillUnlinks, UnlinkSameFile, Enter, Directory
  <2>3. Becomes(r, e)
    BY <1>0, <2>1, <2>2, Entered
  <2>4. Spares(d, now, e)
    BY <1>0, <1>4, DrillAssumption DEF Spares, Entries
  <2>5. e.att = NoDrill
    <3>1. CASE drill[d].pc = "unAtt"
      BY <1>0, <3>1 DEF Entries
    <3>2. CASE drill[d].pc = "unSig"
      <4>1. now.sig = d /\ now.att # d /\ e.att = now.att
        BY <1>0, <1>3, <1>4, <3>2 DEF Entries
      <4>2. now.att # NoDrill => now.sig = now.att
        BY <1>0, AtWork DEF Holding
      <4> QED
        BY <4>1, <4>2
    <3> QED
      BY <1>0, <3>1, <3>2
  <2>6. Stands(d)'
    <3>1. Directory(r)' = e
      BY <2>3 DEF Becomes
    <3> QED
      BY <1>0, <1>2, <2>1, <3>1 DEF Stands, Holding
  <2> QED
    BY <1>1, <2>1, <2>3, <2>4, <2>5, <2>6, DrillFrame
<1>5. CASE mine # d
  <2>1. trail' = trail
    BY <1>0, <1>5 DEF DrillUnlinks, UnlinkSameFile
  <2>2. Directory(r)' = now
    BY <2>1 DEF Directory
  <2>3. now.att # d
    BY <1>0, <1>3, <1>5
  <2>4. Stands(d)'
    BY <1>0, <1>2, <2>2, <2>3 DEF Stands, Holding
  <2> QED
    BY <1>1, <2>1, <2>4, DrillStays
<1> QED
  BY <1>4, <1>5

(* A drill begins beside the others. *)
LEMMA BeginStep ==
    ASSUME DrillInv, NEW d \in Drills, NEW r \in Runs, NEW cms \in Runs, DrillBegins(d, r, cms)
    PROVE  DrillInv'
<1>0. DrillShape /\ PairInv /\ \A x \in Drills : Stands(x)
  BY DEF DrillInv
<1>1. /\ drill' = [drill EXCEPT ![d] = [pc |-> "exercise", run |-> r, cms |-> cms]]
      /\ drill[d].pc = "idle" /\ media[cms].archive # "none"
      /\ trail' = trail /\ media' = media /\ io' = io
  BY DEF DrillBegins
<1>2. DrillShape'
  BY <1>0, <1>1 DEF DrillShape, Stages
<1>3. /\ drill'[d] = [pc |-> "exercise", run |-> r, cms |-> cms]
      /\ \A x \in Drills \ {d} : drill'[x] = drill[x]
  BY <1>0, <1>1 DEF DrillShape
<1>4. PairInv'
  <2> SUFFICES ASSUME NEW q \in Runs, NEW f \in Seen(q)', f.att # NoDrill
               PROVE  /\ f.sig = f.att /\ media'[q].archive = "good"
                      /\ f.lock = f.att \/ Done(f.att, q)'
    BY DEF PairInv
  <2>1. f \in Seen(q)
    BY <1>1 DEF Seen
  <2>2. f \in Entries
    <3>1. trail[q] \in Seq(Entries)
      BY <1>0 DEF DrillShape
    <3> QED
      BY <2>1, <3>1 DEF Seen
  <2>3. f.att \in Drills
    BY <2>2 DEF Entries, Owners
  <2>4. Done(f.att, q) => Done(f.att, q)'
    BY <1>1, <1>3, <2>3 DEF Done
  <2> QED
    BY <1>0, <1>1, <2>1, <2>4 DEF PairInv
<1>5. Stands(d)'
  BY <1>1, <1>3 DEF Stands, Holding
<1>6. ASSUME NEW x \in Drills, x # d PROVE Stands(x)'
  <2>1. drill'[x] = drill[x] /\ Stands(x)
    BY <1>0, <1>3, <1>6
  <2>2. Directory(drill[x].run)' = Directory(drill[x].run)
    BY <1>1, <2>1 DEF Directory
  <2>3. Seen(drill[x].run)' = Seen(drill[x].run)
    BY <1>1, <2>1 DEF Seen
  <2> QED
    BY <1>1, <2>1, <2>2, <2>3 DEF Stands
<1> QED
  BY <1>2, <1>4, <1>5, <1>6 DEF DrillInv

(* After a power loss each directory is one of the states that could be seen,
   and no drill is left that relies on it except those that were done. *)
LEMMA PowerLossStep ==
    ASSUME DrillInv, DrillPowerLoss
    PROVE  DrillInv'
<1>0. DrillShape /\ PairInv /\ \A x \in Drills : Stands(x)
  BY DEF DrillInv
<1>1. PICK cut \in [Runs -> 1 .. LongestTrail] :
          /\ \A r \in Runs : cut[r] \in DOMAIN trail[r]
          /\ trail' = [r \in Runs |-> <<trail[r][cut[r]]>>]
  BY DEF DrillPowerLoss
<1>2. /\ drill' = [d \in Drills |->
                     IF Running(d) THEN [drill[d] EXCEPT !.pc = "stuck"] ELSE drill[d]]
      /\ media' = media
  BY DEF DrillPowerLoss
<1>3. io' \in 0 .. MaxIO
  BY <1>0, DrillAssumption DEF DrillPowerLoss, DrillShape
<1>4. ASSUME NEW r \in Runs
      PROVE  /\ trail'[r] \in Seq(Entries) /\ trail'[r] # <<>>
             /\ \A f \in Seen(r)' : f \in Seen(r)
  <2>1. trail'[r] = <<trail[r][cut[r]]>> /\ cut[r] \in DOMAIN trail[r]
    BY <1>1
  <2>2. trail[r][cut[r]] \in Entries /\ trail[r][cut[r]] \in Seen(r)
    <3>1. trail[r] \in Seq(Entries)
      BY <1>0 DEF DrillShape
    <3> QED
      BY <2>1, <3>1 DEF Seen
  <2>3. \A f \in Seen(r)' : f = trail[r][cut[r]]
    BY <2>1 DEF Seen
  <2> QED
    BY <2>1, <2>2, <2>3
<1>5. ASSUME NEW d \in Drills
      PROVE  /\ drill'[d] \in [pc : Stages, run : Runs \cup {NoRun}, cms : Runs \cup {NoRun}]
             /\ drill'[d].run = drill[d].run /\ drill'[d].cms = drill[d].cms
             /\ drill'[d].pc \in {"idle", "done", "refused", "stuck"}
             /\ drill'[d].pc \in {"idle", "done"} <=> drill[d].pc \in {"idle", "done"}
             /\ drill[d].pc \in {"idle", "done"} => drill'[d].pc = drill[d].pc
  BY <1>0, <1>2 DEF DrillShape, Running, Stages
<1>6. DrillShape'
  <2>1. drill' \in [Drills -> [pc : Stages, run : Runs \cup {NoRun}, cms : Runs \cup {NoRun}]]
    BY <1>2, <1>5
  <2>2. \A d \in Drills : drill'[d].pc # "idle" => drill'[d].run \in Runs /\ drill'[d].cms \in Runs
    BY <1>0, <1>5 DEF DrillShape
  <2>3. trail' \in [Runs -> Seq(Entries)] /\ \A r \in Runs : trail'[r] # <<>>
    BY <1>1, <1>4
  <2> QED
    BY <1>0, <1>2, <1>3, <2>1, <2>2, <2>3 DEF DrillShape
<1>7. PairInv'
  <2> SUFFICES ASSUME NEW q \in Runs, NEW f \in Seen(q)', f.att # NoDrill
               PROVE  /\ f.sig = f.att /\ media'[q].archive = "good"
                      /\ f.lock = f.att \/ Done(f.att, q)'
    BY DEF PairInv
  <2>1. f \in Seen(q)
    BY <1>4
  <2>2. f \in Entries
    <3>1. trail[q] \in Seq(Entries)
      BY <1>0 DEF DrillShape
    <3> QED
      BY <2>1, <3>1 DEF Seen
  <2>3. f.att \in Drills
    BY <2>2 DEF Entries, Owners
  <2>4. Done(f.att, q) => Done(f.att, q)'
    BY <1>5, <2>3 DEF Done
  <2> QED
    BY <1>0, <1>2, <2>1, <2>4 DEF PairInv
<1>8. ASSUME NEW d \in Drills PROVE Stands(d)'
  <2>1. CASE drill'[d].pc = "done"
    <3>1. drill[d].pc = "done" /\ drill[d].run \in Runs /\ drill'[d].run = drill[d].run
      BY <1>0, <1>5, <2>1 DEF DrillShape
    <3>2. media[drill[d].run].archive = "good" /\ \A f \in Seen(drill[d].run) : f.att = d /\ f.sig = d
      BY <1>0, <3>1 DEF Stands
    <3>3. \A r : r = drill[d].run => \A f \in Seen(r)' : f.att = d /\ f.sig = d
      BY <1>4, <3>1, <3>2
    <3> QED
      BY <1>2, <2>1, <3>1, <3>2, <3>3 DEF Stands, Holding
  <2>2. CASE drill'[d].pc # "done"
    BY <1>5, <2>2 DEF Stands, Holding
  <2> QED
    BY <2>1, <2>2
<1> QED
  BY <1>6, <1>7, <1>8 DEF DrillInv

(* Every step of the offline host. *)
LEMMA OfflineStep ==
    ASSUME DrillInv, DrillNext
    PROVE  DrillInv'
<1>1. ASSUME NEW d \in Drills, DrillStep(d) PROVE DrillInv'
  BY <1>1, QuietSteps, LockStep, SignatureStep, AttestationStep, SyncStep, UnlockStep,
     UnlinkStep DEF DrillStep
<1> QED
  BY <1>1, QuietSteps, BeginStep, PowerLossStep DEF DrillNext

(* Before the first drill every directory is empty. *)
LEMMA DrillStart ==
    ASSUME DrillInit
    PROVE  DrillInv
<1>1. EmptyDirectory \in Entries /\ EmptyDirectory.att = NoDrill
  BY DEF EmptyDirectory, Entries, Owners
<1>2. \A r \in Runs : trail[r] = <<EmptyDirectory>>
  BY DEF DrillInit
<1>3. \A r \in Runs : \A e \in Seen(r) : e = EmptyDirectory
  BY <1>2 DEF Seen
<1>4. <<EmptyDirectory>> \in Seq(Entries) /\ <<EmptyDirectory>> # <<>>
  BY <1>1
<1>5. DrillShape
  BY <1>2, <1>4, DrillAssumption DEF DrillInit, DrillShape, Stages, Archives
<1>6. PairInv
  BY <1>1, <1>3 DEF PairInv
<1>7. \A d \in Drills : Stands(d)
  BY DEF DrillInit, Stands, Holding
<1> QED
  BY <1>5, <1>6, <1>7 DEF DrillInv

-----------------------------------------------------------------------------
(* The commands on the server preserve their invariant.                    *)

(* The services by name, and the orders in which they stop and start. *)
LEMMA ServicesAre ==
    /\ Services = {"postgres", "minio", "api", "proxy"}
    /\ DOMAIN Writers = 1 .. 2 /\ Writers[1] = "proxy" /\ Writers[2] = "api"
    /\ DOMAIN StartOrder = 1 .. 4
    /\ \A i \in 1 .. 4 : StartOrder[i] \in Services
    /\ \A i \in 1 .. 2 : Writers[i] \in Services
<1>1. DOMAIN StartOrder = 1 .. 4
  BY DEF StartOrder
<1>2. /\ StartOrder[1] = "postgres" /\ StartOrder[2] = "minio"
      /\ StartOrder[3] = "api" /\ StartOrder[4] = "proxy"
  BY DEF StartOrder
<1>3. Services = {"postgres", "minio", "api", "proxy"}
  BY <1>1, <1>2 DEF Services, Range
<1>4. DOMAIN Writers = 1 .. 2 /\ Writers[1] = "proxy" /\ Writers[2] = "api"
  BY DEF Writers
<1> QED
  BY <1>1, <1>2, <1>3, <1>4

(* The server changes the media only before a drill can rely on them. *)
LEMMA MediaStep ==
    ASSUME DrillInv, UNCHANGED <<trail, drill, io>>,
           media' \in [Runs -> [challenge : BOOLEAN, expired : BOOLEAN, archive : Archives]],
           \A r \in Runs : media[r].archive # "none" => media'[r].archive = media[r].archive
    PROVE  DrillInv'
<1>0. DrillShape /\ PairInv /\ \A x \in Drills : Stands(x)
  BY DEF DrillInv
<1>1. DrillShape'
  BY <1>0 DEF DrillShape
<1>2. \A r \in Runs : Seen(r)' = Seen(r) /\ Directory(r)' = Directory(r)
  BY DEF Seen, Directory
<1>3. PairInv'
  BY <1>0, <1>2 DEF PairInv, Done
<1>4. ASSUME NEW d \in Drills PROVE Stands(d)'
  <2>1. CASE drill[d].pc = "idle"
    BY <2>1 DEF Stands, Holding
  <2>2. CASE drill[d].pc # "idle"
    <3>1. drill[d].run \in Runs /\ drill[d].cms \in Runs /\ drill'[d] = drill[d] /\ Stands(d)
      BY <1>0, <2>2 DEF DrillShape
    <3>2. Directory(drill[d].run)' = Directory(drill[d].run)
      BY DEF Directory
    <3>3. Seen(drill[d].run)' = Seen(drill[d].run)
      BY DEF Seen
    <3> QED
      BY <3>1, <3>2, <3>3 DEF Stands
  <2> QED
    BY <2>1, <2>2
<1> QED
  BY <1>1, <1>3, <1>4 DEF DrillInv

(* Before the first command the stack serves and nothing is prepared. *)
LEMMA AdoptionStart ==
    ASSUME AdoptionInit
    PROVE  AdoptionInv
<1>1. DrillInv
  BY DrillStart DEF AdoptionInit
<1>2. \A r \in Runs : media[r].archive = "none" /\ art[r] = {}
  BY DEF AdoptionInit, DrillInit
<1>3. AdoptionShape
  <2>1. /\ box \in [Services -> {"up", "down"}]
        /\ trouble \in 0 .. MaxTrouble
        /\ gen \in 1 .. trouble + 1 /\ shape \in 1 .. trouble + 1 /\ auth \in 1 .. trouble + 1
        /\ writes \in 0 .. MaxWrites
    BY AdoptionAssumption DEF AdoptionInit
  <2>2. plan \in [Runs -> PlanRows] /\ \A r \in Runs : plan[r].gen <= gen /\ plan[r].auth <= auth
    BY DEF AdoptionInit, PlanRows, NoPlan
  <2>3. /\ art \in [Runs -> SUBSET Artifacts] /\ late \in [Runs -> SUBSET Dated]
        /\ rot \in [Runs -> SUBSET {"database", "objects", "escrow"}]
        /\ copy \in [Runs -> [rows : 0 .. MaxWrites, blobs : 0 .. MaxWrites]]
        /\ shared \subseteq Runs
    BY AdoptionAssumption DEF AdoptionInit
  <2>4. key \in BOOLEAN /\ outage \in BOOLEAN
    BY DEF AdoptionInit
  <2>5. Idle \in JobRows /\ Idle.op = "none"
    BY DEF Idle, JobRows, Ops, Points
  <2>6. JobShape
    BY <2>5 DEF AdoptionInit, JobShape, Formed
  <2> QED
    BY <2>1, <2>2, <2>3, <2>4, <2>6 DEF AdoptionShape, StackShape, FileShape
<1>4. FilesInv
  BY <1>2 DEF FilesInv, RunInv, BackupHalvesAgree, EvidenceInv
<1>5. \A c \in Commands : job[c].op = "none"
  BY DEF AdoptionInit, Idle
<1>6. CommandsInv /\ Apart
  BY <1>5 DEF CommandsInv, PrepareInv, FinalizeInv, Apart
<1>7. OutageInv
  BY DEF AdoptionInit, OutageInv
<1> QED
  BY <1>1, <1>3, <1>4, <1>6, <1>7 DEF AdoptionInv, ServerInv

\* Every step of the commands and of the world around them, but for the
\* offline host.
ServerStep ==
    \/ \E r \in Runs : MakePlan(r)
    \/ \E c \in Commands, r \in Runs : PrepareBegins(c, r) \/ FinalizeBegins(c, r)
    \/ \E c \in Commands : \/ PrepareStep(c) \/ PrepareFails(c) \/ PrepareCannotRestore(c)
                           \/ FinalizeStep(c) \/ FinalizeFails(c) \/ CommandKilled(c)
    \/ World

(* What the server does to the media leaves the drills' invariant alone. *)
LEMMA ServerMedia ==
    ASSUME AdoptionInv, ServerStep
    PROVE  DrillInv'
<1>0. DrillInv /\ JobShape /\ CommandsInv
      /\ media \in [Runs -> [challenge : BOOLEAN, expired : BOOLEAN, archive : Archives]]
  BY DEF AdoptionInv, ServerInv, AdoptionShape, DrillInv, DrillShape
<1>1. ASSUME UNCHANGED drillVars PROVE DrillInv'
  BY <1>0, <1>1, MediaStep DEF drillVars
<1>2. ASSUME NEW c \in Commands, PrepareEscrows(c) PROVE DrillInv'
  <2>1. /\ UNCHANGED <<trail, drill, io>> /\ job[c].run \in Runs
        /\ media[job[c].run].archive = "none"
    BY <1>0, <1>2 DEF PrepareEscrows, At, Doing, JobShape, Formed, CommandsInv, PrepareInv, Backing
  <2>2. media' = media \/ \E kind \in Archives : media' = [media EXCEPT ![job[c].run].archive = kind]
    BY <1>2 DEF PrepareEscrows
  <2> QED
    BY <1>0, <2>1, <2>2, MediaStep
<1>3. ASSUME NEW c \in Commands, PrepareChallenges(c) PROVE DrillInv'
  <2>1. UNCHANGED <<trail, drill, io>>
    BY <1>3 DEF PrepareChallenges
  <2>2. media' = media \/ media' = [media EXCEPT ![job[c].run].challenge = TRUE]
    BY <1>3 DEF PrepareChallenges
  <2>3. media' \in [Runs -> [challenge : BOOLEAN, expired : BOOLEAN, archive : Archives]]
    BY <1>0, <2>2
  <2>4. \A q \in Runs : media'[q].archive = media[q].archive
    BY <1>0, <2>2
  <2> QED
    BY <1>0, <2>1, <2>3, <2>4, MediaStep
<1>4. ASSUME NEW r \in Runs, Expires(r) PROVE DrillInv'
  <2>1. UNCHANGED <<trail, drill, io>>
    BY <1>4 DEF Expires
  <2>2. media' = media \/ media' = [media EXCEPT ![r].expired = TRUE]
    BY <1>4 DEF Expires
  <2>3. media' \in [Runs -> [challenge : BOOLEAN, expired : BOOLEAN, archive : Archives]]
    BY <1>0, <2>2
  <2>4. \A q \in Runs : media'[q].archive = media[q].archive
    BY <1>0, <2>2
  <2> QED
    BY <1>0, <2>1, <2>3, <2>4, MediaStep
<1>5. ASSUME NEW r \in Runs, MakePlan(r) \/ Rots(r) PROVE DrillInv'
  BY <1>1, <1>5 DEF MakePlan, Rots
<1>6. ASSUME NEW c \in Commands, NEW r \in Runs, PrepareBegins(c, r) \/ FinalizeBegins(c, r)
      PROVE  DrillInv'
  BY <1>1, <1>6 DEF PrepareBegins, FinalizeBegins
<1>7. ASSUME NEW c \in Commands,
             PrepareFails(c) \/ PrepareCannotRestore(c) \/ FinalizeFails(c) \/ CommandKilled(c)
      PROVE  DrillInv'
  BY <1>1, <1>7 DEF PrepareFails, PrepareCannotRestore, FinalizeFails, CommandKilled
<1>8. ASSUME NEW c \in Commands, PrepareStep(c) PROVE DrillInv'
  BY <1>1, <1>2, <1>3, <1>8 DEF PrepareStep, PrepareStops, PrepareChecks, PrepareDumps,
     PrepareArchives, PrepareMirrors, PrepareSeals, PrepareRestores, PrepareStarts,
     PrepareRecreates, PrepareStopsExtras, PrepareSettles, PrepareBinds
<1>9. ASSUME NEW c \in Commands, FinalizeStep(c) PROVE DrillInv'
  BY <1>1, <1>9 DEF FinalizeStep, FinalizeScratches, FinalizeRestoresRows, FinalizeCountsRows,
     FinalizeRestoresBlobs, FinalizeReadsBlobs, FinalizeCleans, FinalizeWrites
<1>10. CASE World
  BY <1>1, <1>4, <1>5, <1>10 DEF World, LegacyWrites, ServerCrashes, ProvisionKey,
     LegacyRecreated, LegacyRestarted, LegacyReshaped, NewerRelease
<1> QED
  BY <1>5, <1>6, <1>7, <1>8, <1>9, <1>10 DEF ServerStep

-----------------------------------------------------------------------------
(* One command moves, and the others stay where they are.                  *)

OthersStay(c) == \A d \in Commands \ {c} : job'[d] = job[d]

(* A command that ends, or goes on to another of its steps, stays well formed. *)
LEMMA JobSet ==
    ASSUME JobShape, NEW c \in Commands, NEW n \in JobRows, job' = [job EXCEPT ![c] = n],
           n.op # "none" => n.run \in Runs,
           n.op = "prepare" => n.at \in Backing \cup Recovering \cup Closing,
           n.op = "finalize" => n.at \in FinalizePoints
    PROVE  JobShape' /\ OthersStay(c) /\ job'[c] = n
<1>1. job' \in [Commands -> JobRows] /\ job'[c] = n /\ \A d \in Commands \ {c} : job'[d] = job[d]
  BY DEF JobShape
<1>2. Formed(c)'
  BY <1>1 DEF Formed
<1>3. \A d \in Commands \ {c} : Formed(d)'
  BY <1>1 DEF Formed, JobShape
<1> QED
  BY <1>1, <1>2, <1>3 DEF JobShape, OthersStay

LEMMA JobIdle ==
    ASSUME JobShape, NEW c \in Commands, Ends(c)
    PROVE  JobShape' /\ OthersStay(c) /\ job'[c].op = "none"
<1>1. Idle \in JobRows /\ Idle.op = "none"
  BY DEF Idle, JobRows, Ops, Points
<1> QED
  BY <1>1, JobSet DEF Ends

(* A command that goes on to its next step keeps its run. *)
LEMMA JobMoves ==
    ASSUME JobShape, NEW c \in Commands, NEW n \in JobRows, job' = [job EXCEPT ![c] = n],
           job[c].op \in {"prepare", "finalize"}, n.op = job[c].op, n.run = job[c].run,
           n.op = "prepare" => n.at \in Backing \cup Recovering \cup Closing,
           n.op = "finalize" => n.at \in FinalizePoints
    PROVE  JobShape' /\ OthersStay(c) /\ job[c].run \in Runs /\ job'[c] = n
<1>1. job[c].run \in Runs
  BY DEF JobShape, Formed
<1> QED
  BY <1>1, JobSet

(* A step that keeps the outcome so far. *)
LEMMA JobSteps ==
    ASSUME JobShape, NEW c \in Commands, NEW at \in Points, job[c].op \in {"prepare", "finalize"},
           Step(c, at),
           job[c].op = "prepare" => at \in Backing \cup Recovering \cup Closing,
           job[c].op = "finalize" => at \in FinalizePoints
    PROVE  /\ JobShape' /\ OthersStay(c) /\ job[c].run \in Runs
           /\ job'[c].op = job[c].op /\ job'[c].run = job[c].run
           /\ job'[c].at = at /\ job'[c].ok = job[c].ok
<1> DEFINE n == [job[c] EXCEPT !.at = at]
<1>1. job[c] \in JobRows
  BY DEF JobShape
<1>2. n \in JobRows /\ n.op = job[c].op /\ n.run = job[c].run /\ n.at = at /\ n.ok = job[c].ok
  BY <1>1 DEF JobRows
<1>3. job' = [job EXCEPT ![c] = n]
  BY DEF Step
<1> HIDE DEF n
<1> QED
  BY <1>2, <1>3, JobMoves

(* A backup step that fails goes to the restoration with the error kept. *)
LEMMA JobErrs ==
    ASSUME JobShape, NEW c \in Commands, job[c].op = "prepare", BackupError(c)
    PROVE  /\ JobShape' /\ OthersStay(c) /\ job[c].run \in Runs
           /\ job'[c].op = "prepare" /\ job'[c].run = job[c].run
           /\ job'[c].at = "restore" /\ job'[c].ok = FALSE
<1> DEFINE n == [job[c] EXCEPT !.at = "restore", !.ok = FALSE, !.left = {}]
<1>1. job[c] \in JobRows
  BY DEF JobShape
<1>2. /\ n \in JobRows /\ n.op = job[c].op /\ n.run = job[c].run /\ n.at = "restore"
      /\ n.ok = FALSE /\ "restore" \in Recovering
  BY <1>1 DEF JobRows, Points, Recovering
<1>3. job' = [job EXCEPT ![c] = n]
  BY DEF BackupError, JobShape
<1> HIDE DEF n
<1> QED
  BY <1>2, <1>3, JobMoves

(* The command works down its list. *)
LEMMA JobTicks ==
    ASSUME JobShape, NEW c \in Commands, job[c].op = "prepare", NEW s,
           job' = [job EXCEPT ![c].left = @ \ {s}]
    PROVE  /\ JobShape' /\ OthersStay(c) /\ job[c].run \in Runs
           /\ job'[c].op = "prepare" /\ job'[c].run = job[c].run
           /\ job'[c].at = job[c].at /\ job'[c].ok = job[c].ok
<1> DEFINE n == [job[c] EXCEPT !.left = @ \ {s}]
<1>1. job[c] \in JobRows /\ job[c].at \in Backing \cup Recovering \cup Closing
  BY DEF JobShape, Formed
<1>2. /\ n \in JobRows /\ n.op = job[c].op /\ n.run = job[c].run /\ n.at = job[c].at
      /\ n.ok = job[c].ok
  BY <1>1 DEF JobRows
<1>3. job' = [job EXCEPT ![c] = n]
  BY DEF JobShape
<1> HIDE DEF n
<1> QED
  BY <1>1, <1>2, <1>3, JobMoves

(* A command at work owes the invariant only what it says of itself and of the
   files: the others have other runs, or files that only grow, and those that
   rely on a stopped stack know of every prepare that has a hand on it. *)
LEMMA CommandStep ==
    ASSUME ServerInv, NEW c \in Commands, job[c].op # "none",
           StackShape', FileShape', JobShape', FilesInv', OutageInv',
           PrepareInv(c)', FinalizeInv(c)',
           OthersStay(c), job'[c].op \in {job[c].op, "none"},
           job'[c].op # "none" => job'[c].run = job[c].run,
           Touches(c)' => Touches(c),
           UNCHANGED <<drill, gen, plan, writes, rot, shared>>,
           \A q \in Runs \ {job[c].run} : /\ art'[q] = art[q] /\ copy'[q] = copy[q]
                                          /\ media'[q].archive = media[q].archive,
           art[job[c].run] \ {"scratch"} \subseteq art'[job[c].run],
           box'["api"] = "up" => box["api"] = "up" \/ Touches(c)
    PROVE  ServerInv'
<1> USE DEF ServerInv, AdoptionShape
<1>1. job[c].run \in Runs
  BY DEF JobShape, Formed
<1>2. ASSUME NEW d \in Commands \ {c}, job[d].op = "prepare"
      PROVE  job[d].run \in Runs \ {job[c].run} /\ PrepareInv(d)
  <2>1. job[d].run \in Runs /\ PrepareInv(d)
    BY <1>2 DEF JobShape, Formed, CommandsInv
  <2>2. CASE job[c].op = "prepare"
    BY <1>2, <2>1, <2>2 DEF Apart
  <2>3. CASE job[c].op = "finalize"
    <3>1. "prepared" \in art[job[c].run]
      BY <2>3 DEF CommandsInv, FinalizeInv, Inputs
    <3>2. "prepared" \notin art[job[d].run]
      BY <1>2, <2>1 DEF PrepareInv
    <3> QED
      BY <2>1, <3>1, <3>2
  <2>4. job[c].op \in {"prepare", "finalize"}
    BY DEF JobShape, JobRows, Ops
  <2> QED
    BY <2>2, <2>3, <2>4
<1>3. ASSUME NEW d \in Commands \ {c} PROVE PrepareInv(d)' /\ FinalizeInv(d)'
  <2>1. job'[d] = job[d] /\ PrepareInv(d) /\ FinalizeInv(d)
    BY DEF OthersStay, CommandsInv
  <2>2. ASSUME job[d].op = "prepare" PROVE PrepareInv(d)'
    <3>0. PICK r \in Runs \ {job[c].run} : r = job[d].run
      BY <1>2, <2>2
    <3>1. /\ art'[r] = art[r] /\ copy'[r] = copy[r] /\ media'[r].archive = media[r].archive
      OBVIOUS
    <3>2. Original(r)' <=> Original(r)
      BY DEF Original
    <3>3. job[d].at \in {"dump", "archive", "mirror"} /\ Original(r) => ~Touches(c)
      BY <2>2, <3>0 DEF Apart, Touches, Doing, Original, Backing
    <3> QED
      BY <2>1, <2>2, <3>0, <3>1, <3>2, <3>3 DEF PrepareInv
  <2>3. ASSUME job[d].op = "finalize" PROVE FinalizeInv(d)'
    <3>0. PICK r \in Runs : r = job[d].run
      BY <2>3 DEF JobShape, Formed
    <3>1. Certified(r)' <=> Certified(r)
      BY DEF Certified, Done
    <3>2. art[r] \ {"scratch"} \subseteq art'[r]
      BY <1>1
    <3> QED
      BY <2>1, <2>3, <3>0, <3>1, <3>2 DEF FinalizeInv, Inputs
  <2> QED
    BY <2>1, <2>2, <2>3 DEF PrepareInv, FinalizeInv
<1>4. Apart'
  <2> SUFFICES ASSUME NEW a \in Commands, NEW b \in Commands, a # b,
                      job'[a].op = "prepare", job'[b].op = "prepare"
               PROVE  /\ job'[a].run # job'[b].run
                      /\ Touches(a)' /\ Touches(b)' => job'[a].run \in shared'
    BY DEF Apart
  <2>1. \A x \in {a, b} : /\ job[x].op = "prepare" /\ job'[x].run = job[x].run
                          /\ Touches(x)' => Touches(x)
    BY DEF OthersStay, Touches, Doing
  <2> QED
    BY <2>1 DEF Apart
<1> QED
  BY <1>3, <1>4 DEF CommandsInv

(* Troubles only add up. *)
LEMMA TroubleGrows ==
    ASSUME NEW before \in Nat, NEW after \in Nat, after >= before, NEW x \in 1 .. before + 1
    PROVE  x \in 1 .. after + 1
OBVIOUS

(* The stack has its shape however much trouble there was. *)
LEMMA StackKept ==
    ASSUME StackShape, UNCHANGED <<gen, shape, auth, writes>>,
           trouble' \in 0 .. MaxTrouble, trouble' >= trouble,
           box' \in [Services -> {"up", "down"}], key' \in BOOLEAN, outage' \in BOOLEAN
    PROVE  StackShape'
<1>1. trouble' \in Nat /\ trouble \in Nat
  BY AdoptionAssumption DEF StackShape
<1>2. /\ gen' \in 1 .. trouble' + 1 /\ shape' \in 1 .. trouble' + 1
      /\ auth' \in 1 .. trouble' + 1
  BY <1>1, TroubleGrows DEF StackShape
<1> QED
  BY <1>2 DEF StackShape

(* plan *)
LEMMA PlanStep ==
    ASSUME ServerInv, NEW r \in Runs, MakePlan(r)
    PROVE  ServerInv'
<1> USE DEF ServerInv, AdoptionShape, FilesInv
<1>1. UNCHANGED <<drillVars, legacyVars, art, copy, late, rot, job, trouble, outage, shared>>
      /\ plan[r] = NoPlan /\ plan' = [plan EXCEPT ![r] = BuiltPlan]
  BY DEF MakePlan
<1>2. StackShape' /\ JobShape'
  BY <1>1 DEF StackShape, JobShape, Formed, legacyVars
<1>3. BuiltPlan \in PlanRows /\ BuiltPlan.gen = gen /\ BuiltPlan.auth = auth
  <2>1. gen \in Nat /\ shape \in Nat /\ auth \in Nat /\ Up \subseteq Services
    BY DEF StackShape, Up
  <2> QED
    BY <2>1 DEF BuiltPlan, PlanRows
<1> HIDE DEF BuiltPlan
<1>4. /\ plan' \in [Runs -> PlanRows] /\ plan'[r] = BuiltPlan
      /\ \A q \in Runs \ {r} : plan'[q] = plan[q]
  BY <1>1, <1>3 DEF FileShape
<1>5. FileShape'
  <2>1. \A q \in Runs : plan'[q].gen <= gen' /\ plan'[q].auth <= auth'
    BY <1>1, <1>3, <1>4 DEF FileShape, StackShape, legacyVars
  <2> QED
    BY <1>1, <1>4, <2>1 DEF FileShape
<1>6. art[r] = {}
  BY <1>1 DEF RunInv
<1>7. RunInv'
  BY <1>1, <1>4, <1>6 DEF RunInv, drillVars
<1>8. BackupHalvesAgree'
  BY <1>1, <1>4, <1>6 DEF BackupHalvesAgree, legacyVars
<1>9. EvidenceInv' /\ OutageInv' /\ Apart'
  BY <1>1 DEF EvidenceInv, OutageInv, Apart, Touches, Doing, Certified, Done, legacyVars, drillVars
<1>10. ASSUME NEW d \in Commands PROVE PrepareInv(d)' /\ FinalizeInv(d)'
  <2>1. PrepareInv(d) /\ FinalizeInv(d)
    BY DEF CommandsInv
  <2>2. FinalizeInv(d)'
    BY <1>1, <2>1 DEF FinalizeInv, Certified, Done, drillVars
  <2>3. ASSUME job[d].op = "prepare" PROVE PrepareInv(d)'
    <3>1. PICK q \in Runs : q = job[d].run
      BY <2>3 DEF JobShape, Formed
    <3>2. plan'[q] = plan[q]
      BY <1>4, <1>6, <2>1, <2>3, <3>1 DEF PrepareInv
    <3> QED
      BY <1>1, <2>1, <3>1, <3>2 DEF PrepareInv, Original, legacyVars, drillVars
  <2> QED
    BY <1>1, <2>2, <2>3 DEF PrepareInv
<1> QED
  BY <1>2, <1>5, <1>7, <1>8, <1>9, <1>10 DEF CommandsInv

(* A file is added to a run. *)
LEMMA Written ==
    ASSUME FileShape, NEW r \in Runs, NEW a \in Artifacts, Write(r, a)
    PROVE  /\ art' \in [Runs -> SUBSET Artifacts] /\ art'[r] = art[r] \cup {a}
           /\ \A q \in Runs \ {r} : art'[q] = art[q]
BY DEF FileShape, Write

(* prepare begins: the run directory is fresh, so the run is nobody else's, and
   whoever has a hand on the stack already is on record with the run. *)
LEMMA PrepareBeginStep ==
    ASSUME ServerInv, NEW c \in Commands, NEW r \in Runs, PrepareBegins(c, r)
    PROVE  ServerInv'
<1> USE DEF ServerInv, AdoptionShape, FilesInv
<1>1. /\ UNCHANGED <<drillVars, legacyVars, plan, copy, late, rot, trouble, outage>>
      /\ job[c].op = "none" /\ "directory" \notin art[r] /\ Write(r, "directory") /\ plan[r] # NoPlan
  BY DEF PrepareBegins, RunDirectoryFree, PlanValid, PlanIdentity, Doing
<1> DEFINE n == [op |-> "prepare", run |-> r, at |-> "stop", ok |-> TRUE, left |-> Up \ DataServices]
           others == {d \in Commands : Touches(d)}
<1>2. /\ n \in JobRows /\ n.op = "prepare" /\ n.run = r /\ n.at = "stop" /\ "stop" \in Backing
  BY DEF JobRows, Ops, Points, Backing, Up
<1>3. job' = [job EXCEPT ![c] = n]
  BY DEF PrepareBegins
<1>4. /\ shared' = IF others = {} THEN shared
                   ELSE shared \cup {r} \cup {job[d].run : d \in others}
  BY DEF PrepareBegins
<1> HIDE DEF n
<1>5. JobShape' /\ OthersStay(c) /\ job'[c] = n
  BY <1>2, <1>3, JobSet
<1>6. /\ shared \subseteq shared' /\ shared' \subseteq Runs
      /\ \A d \in Commands : Touches(d) => r \in shared' /\ job[d].run \in shared'
  <2>1. \A d \in others : job[d].run \in Runs
    BY DEF JobShape, Formed, Touches, Doing
  <2>2. shared \subseteq Runs
    BY DEF FileShape
  <2> QED
    BY <1>4, <2>1, <2>2
<1>7. /\ art' \in [Runs -> SUBSET Artifacts] /\ art'[r] = art[r] \cup {"directory"}
      /\ \A q \in Runs \ {r} : art'[q] = art[q]
  BY <1>1, Written DEF Artifacts
<1>8. StackShape' /\ FileShape'
  BY <1>1, <1>6, <1>7 DEF StackShape, FileShape, legacyVars
<1>9. art[r] = {} /\ media[r].archive = "none"
  BY <1>1 DEF RunInv
<1>10. RunInv'
  BY <1>1, <1>7, <1>9 DEF RunInv, drillVars
<1>11. BackupHalvesAgree'
  BY <1>1, <1>6, <1>7, <1>9 DEF BackupHalvesAgree, legacyVars
<1>12. Touches(c)' /\ ~Touches(c)
  BY <1>1, <1>2, <1>5 DEF Touches, Doing
<1>13. OutageInv'
  BY <1>12 DEF OutageInv
<1>14. EvidenceInv'
  BY <1>1, <1>7, <1>9 DEF EvidenceInv, Certified, Done, drillVars, Signing
<1>15. ASSUME NEW d \in Commands \ {c}, job[d].op = "prepare"
       PROVE  job[d].run \in Runs \ {r} /\ job'[d] = job[d]
  <2>1. job[d].run \in Runs /\ "directory" \in art[job[d].run]
    BY <1>15 DEF JobShape, Formed, CommandsInv, PrepareInv
  <2> QED
    BY <1>5, <1>9, <2>1 DEF OthersStay
<1>16. ASSUME NEW d \in Commands PROVE PrepareInv(d)' /\ FinalizeInv(d)'
  <2>1. CASE d = c
    <3>1. job'[d].op = "prepare" /\ job'[d].run = r /\ job'[d].at = "stop"
      BY <1>2, <1>5, <2>1
    <3>2. "prepared" \notin art'[r] /\ "directory" \in art'[r] /\ media'[r].archive = "none"
      BY <1>1, <1>7, <1>9 DEF drillVars
    <3> QED
      BY <3>1, <3>2 DEF PrepareInv, FinalizeInv, Closing, Recovering
  <2>2. CASE d # c
    <3>1. PrepareInv(d) /\ FinalizeInv(d) /\ job'[d] = job[d]
      BY <1>5, <2>2 DEF CommandsInv, OthersStay
    <3>2. ASSUME job[d].op = "prepare" PROVE PrepareInv(d)'
      <4>1. PICK q \in Runs \ {r} : q = job[d].run
        BY <1>15, <2>2, <3>2
      <4>2. Original(q)' => Original(q)
        BY <1>1, <1>6 DEF Original, legacyVars
      <4> QED
        BY <1>1, <1>7, <3>1, <4>1, <4>2 DEF PrepareInv, legacyVars, drillVars
    <3>3. ASSUME job[d].op = "finalize" PROVE FinalizeInv(d)'
      <4>1. PICK q \in Runs : q = job[d].run
        BY <3>3 DEF JobShape, Formed
      <4>2. art[q] \subseteq art'[q]
        BY <1>7
      <4>3. Certified(q)' <=> Certified(q)
        BY <1>1 DEF Certified, Done, drillVars
      <4> QED
        BY <1>1, <3>1, <4>1, <4>2, <4>3 DEF FinalizeInv
    <3> QED
      BY <3>1, <3>2, <3>3 DEF PrepareInv, FinalizeInv
  <2> QED
    BY <2>1, <2>2
<1>17. Apart'
  <2> SUFFICES ASSUME NEW a \in Commands, NEW b \in Commands, a # b,
                      job'[a].op = "prepare", job'[b].op = "prepare"
               PROVE  /\ job'[a].run # job'[b].run
                      /\ Touches(a)' /\ Touches(b)' => job'[a].run \in shared'
    BY DEF Apart
  <2>1. job'[c].run = r
    BY <1>2, <1>5
  <2>2. \A d \in Commands \ {c} : /\ job'[d] = job[d]
                                  /\ Touches(d)' <=> Touches(d)
    BY <1>5 DEF OthersStay, Touches, Doing
  <2>3. CASE a = c
    BY <1>6, <1>15, <2>1, <2>2, <2>3
  <2>4. CASE b = c
    BY <1>6, <1>15, <2>1, <2>2, <2>4
  <2>5. CASE a # c /\ b # c
    BY <1>6, <2>2, <2>5 DEF Apart
  <2> QED
    BY <2>3, <2>4, <2>5
<1> QED
  BY <1>5, <1>8, <1>10, <1>11, <1>13, <1>14, <1>16, <1>17 DEF CommandsInv

(* A step that only moves the command: what its new position promises is all
   there is to show. *)
LEMMA MoveStep ==
    ASSUME ServerInv, NEW c \in Commands, job[c].op # "none", JobShape', OthersStay(c),
           UNCHANGED <<drillVars, legacyVars, evidenceVars, outage, shared>>,
           trouble' \in 0 .. MaxTrouble, trouble' >= trouble,
           job'[c].op \in {job[c].op, "none"},
           job'[c].op # "none" => job'[c].run = job[c].run,
           job'[c].op = "prepare" =>
              /\ job'[c].at \in Backing => job[c].at \in Backing
              /\ job'[c].at \in {"dump", "archive", "mirror"} => box["api"] # "up"
              /\ job'[c].at \notin {"archive", "mirror", "seal", "escrow"} \cup Closing
              /\ job'[c].at \in Recovering /\ job'[c].ok => job[c].at \in Recovering /\ job[c].ok,
           job'[c].op = "finalize" =>
              /\ job'[c].at \in {"countRows", "restoreBlobs", "readBlobs"} =>
                     "database" \notin rot[job[c].run]
              /\ job'[c].at \in Signing \/ (job'[c].at = "clean" /\ job'[c].ok) =>
                     rot[job[c].run] \cap {"database", "objects"} = {}
              /\ job'[c].at \notin {"evidence", "signature"},
           Touches(c)' <=> Touches(c)
    PROVE  ServerInv'
<1> USE DEF ServerInv, AdoptionShape
<1>1. StackShape'
  <2>1. /\ gen' = gen /\ shape' = shape /\ auth' = auth /\ box' = box /\ key' = key
        /\ writes' = writes /\ outage' = outage
    BY DEF legacyVars
  <2>2. box' \in [Services -> {"up", "down"}] /\ key' \in BOOLEAN /\ outage' \in BOOLEAN
    BY <2>1 DEF StackShape
  <2> QED
    BY <2>1, <2>2, StackKept
<1>2. FileShape' /\ FilesInv'
  BY DEF FileShape, FilesInv, RunInv, BackupHalvesAgree, EvidenceInv, Certified, Done,
     evidenceVars, legacyVars, drillVars
<1>3. PICK r \in Runs : r = job[c].run
  BY DEF JobShape, Formed
<1>4. /\ gen' = gen /\ box' = box /\ writes' = writes /\ plan' = plan /\ art' = art
      /\ copy' = copy /\ rot' = rot /\ media' = media /\ drill' = drill
  BY DEF evidenceVars, legacyVars, drillVars
<1>5. PrepareInv(c)'
  BY <1>3, <1>4 DEF PrepareInv, CommandsInv, Original
<1>6. FinalizeInv(c)'
  BY <1>3, <1>4 DEF FinalizeInv, CommandsInv, Certified, Done
<1>7. OutageInv'
  <2>1. \A d \in Commands : Touches(d)' <=> Touches(d)
    BY DEF OthersStay, Touches, Doing
  <2> QED
    BY <1>4, <2>1 DEF OutageInv
<1> QED
  BY <1>1, <1>2, <1>3, <1>4, <1>5, <1>6, <1>7, CommandStep

(* A step that writes a file of the run and moves the command. *)
LEMMA WriteStep ==
    ASSUME ServerInv, NEW c \in Commands, job[c].op # "none", JobShape', OthersStay(c),
           NEW a \in Artifacts, Write(job[c].run, a),
           UNCHANGED <<drill, legacyVars, plan, copy, late, rot, trouble, outage, shared>>,
           \A r \in Runs \ {job[c].run} : media'[r].archive = media[r].archive,
           job'[c].op \in {job[c].op, "none"},
           job'[c].op # "none" => job'[c].run = job[c].run,
           job'[c].op = "prepare" =>
              /\ a # "prepared"
              /\ job'[c].at \in Backing => job[c].at \in Backing /\ media' = media
              /\ job'[c].at \in {"dump", "archive", "mirror"} => job[c].at \in {"archive", "mirror"}
              /\ job'[c].at \in {"seal", "escrow"} => job[c].at \in {"seal", "escrow"}
              /\ job'[c].at \in Closing => job[c].at \in Closing
              /\ job'[c].at \in Recovering => job[c].at \in {"seal", "escrow"},
           job'[c].op = "finalize" =>
              /\ job'[c].at \notin {"countRows", "restoreBlobs", "readBlobs", "clean", "restored"}
              /\ job'[c].at = "evidence" => job[c].at = "restored" /\ a = "restored"
              /\ job'[c].at = "signature" => job[c].at = "evidence" /\ a = "evidence",
           Touches(c)' <=> Touches(c),
           a = "prepared" => job[c].op = "prepare" /\ job[c].at \in Closing,
           a \in Signing => job[c].op = "finalize",
           a = "signature" => job[c].at = "signature"
    PROVE  ServerInv'
<1> USE DEF ServerInv, AdoptionShape
<1>0. PICK r \in Runs : r = job[c].run
  BY DEF JobShape, Formed
<1>1. /\ art' \in [Runs -> SUBSET Artifacts] /\ art'[r] = art[r] \cup {a}
      /\ \A q \in Runs \ {r} : art'[q] = art[q]
  BY <1>0, Written
<1>2. StackShape' /\ FileShape'
  BY <1>1 DEF StackShape, FileShape, legacyVars
<1>3. PrepareInv(c) /\ FinalizeInv(c) /\ job[c].op \in {"prepare", "finalize"}
  BY DEF CommandsInv, JobShape, JobRows, Ops
<1>4. "directory" \in art[r] /\ plan[r] # NoPlan
  BY <1>0, <1>3 DEF FilesInv, RunInv, PrepareInv, FinalizeInv, Inputs
<1>5. RunInv'
  BY <1>0, <1>1, <1>4 DEF FilesInv, RunInv
<1>6. BackupHalvesAgree'
  <2> SUFFICES ASSUME NEW q \in Runs \ shared, "prepared" \in art'[q], gen = plan[q].gen
               PROVE  copy[q].rows = copy[q].blobs
    BY DEF BackupHalvesAgree, legacyVars
  <2>1. CASE "prepared" \in art[q]
    BY <2>1 DEF FilesInv, BackupHalvesAgree
  <2>2. CASE "prepared" \notin art[q]
    <3>1. q = r /\ a = "prepared"
      BY <1>1, <2>2
    <3> QED
      BY <1>0, <1>3, <3>1 DEF PrepareInv, Original
  <2> QED
    BY <2>1, <2>2
<1>7. \A q : Certified(q)' <=> Certified(q)
  BY DEF Certified, Done
<1>8. EvidenceInv'
  <2>1. \A q \in Runs : /\ art'[q] \cap Signing # {} => Certified(q) /\ Inputs \subseteq art'[q]
                        /\ "signature" \in art'[q] => Signing \subseteq art'[q]
    BY <1>0, <1>1, <1>3 DEF FilesInv, EvidenceInv, FinalizeInv, Signing
  <2> QED
    BY <1>7, <2>1 DEF EvidenceInv
<1>9. PrepareInv(c)'
  BY <1>0, <1>1, <1>3 DEF PrepareInv, Original, legacyVars
<1>10. FinalizeInv(c)'
  BY <1>0, <1>1, <1>3, <1>7 DEF FinalizeInv, Signing
<1>11. OutageInv'
  <2>1. \A d \in Commands : Touches(d)' <=> Touches(d)
    BY DEF OthersStay, Touches, Doing
  <2> QED
    BY <2>1 DEF OutageInv, legacyVars
<1>12. box' = box /\ gen' = gen /\ writes' = writes
  BY DEF legacyVars
<1> QED
  BY <1>0, <1>1, <1>2, <1>5, <1>6, <1>8, <1>9, <1>10, <1>11, <1>12, CommandStep DEF FilesInv

(* The stack is in the hands of prepare: a step that moves it between two of
   the positions that promise nothing of the containers. *)
LEMMA HandsStep ==
    ASSUME ServerInv, NEW c \in Commands, job[c].op = "prepare", JobShape', OthersStay(c),
           job'[c].op = "prepare", job'[c].run = job[c].run, job'[c].ok = job[c].ok,
           \/ job[c].at = "stop" /\ job'[c].at \in {"stop", "check"}
           \/ job[c].at \in Recovering /\ job'[c].at \in Recovering,
           box' \in [Services -> {"up", "down"}],
           UNCHANGED <<drillVars, gen, shape, auth, key, writes, evidenceVars, trouble, outage,
                       shared>>
    PROVE  ServerInv'
<1> USE DEF ServerInv, AdoptionShape
<1>1. StackShape' /\ FileShape' /\ FilesInv'
  BY DEF StackShape, FileShape, FilesInv, RunInv, BackupHalvesAgree, EvidenceInv, Certified, Done,
     evidenceVars, drillVars
<1>2. PICK r \in Runs : r = job[c].run
  BY DEF JobShape, Formed
<1>3. /\ gen' = gen /\ writes' = writes /\ plan' = plan /\ art' = art
      /\ copy' = copy /\ rot' = rot /\ media' = media /\ drill' = drill
  BY DEF evidenceVars, drillVars
<1>4. PrepareInv(c)'
  BY <1>2, <1>3 DEF PrepareInv, CommandsInv, Original, Backing, Recovering, Closing
<1>5. FinalizeInv(c)'
  BY DEF FinalizeInv
<1>6. Touches(c) /\ Touches(c)'
  BY DEF Touches, Doing, Backing, Recovering
<1>7. OutageInv'
  BY <1>6 DEF OutageInv
<1> QED
  BY <1>1, <1>2, <1>3, <1>4, <1>5, <1>6, <1>7, CommandStep

(* A backup step fails. *)
LEMMA ErrStep ==
    ASSUME ServerInv, NEW c \in Commands, job[c].op = "prepare", job[c].at \in Backing,
           BackupError(c), UNCHANGED <<drillVars, legacyVars, evidenceVars, outage, shared>>,
           trouble' \in 0 .. MaxTrouble, trouble' >= trouble
    PROVE  ServerInv'
<1>1. /\ JobShape' /\ OthersStay(c) /\ job'[c].op = "prepare" /\ job'[c].run = job[c].run
      /\ job'[c].at = "restore" /\ job'[c].ok = FALSE
  BY JobErrs DEF ServerInv, AdoptionShape
<1>2. Touches(c) /\ Touches(c)'
  BY <1>1 DEF Touches, Doing, Recovering
<1> QED
  BY <1>1, <1>2, MoveStep DEF Backing, Closing

(* _quiesce_legacy stops the writers, and looks. *)
LEMMA QuiesceStep ==
    ASSUME ServerInv, NEW c \in Commands, PrepareStops(c) \/ PrepareChecks(c)
    PROVE  ServerInv'
<1>0. JobShape /\ StackShape
  BY DEF ServerInv, AdoptionShape
<1>1. /\ job[c].op = "prepare" /\ job[c].at \in {"stop", "check"}
      /\ PrepareStops(c) => job[c].at = "stop"
      /\ UNCHANGED <<drillVars, gen, shape, auth, key, writes, evidenceVars, trouble, outage, shared>>
  BY DEF PrepareStops, PrepareChecks, At, Doing, legacyVars
<1>2. trouble' \in 0 .. MaxTrouble /\ trouble' >= trouble
  BY <1>0, <1>1 DEF StackShape
<1>3. ASSUME BackupError(c), UNCHANGED box PROVE ServerInv'
  BY <1>1, <1>2, <1>3, ErrStep DEF Backing, legacyVars
<1>4. ASSUME PrepareStops(c), NEW s \in Services, box' = [box EXCEPT ![s] = "down"],
             job' = [job EXCEPT ![c].left = @ \ {s}]
      PROVE  ServerInv'
  <2>1. /\ JobShape' /\ OthersStay(c) /\ job'[c].op = "prepare" /\ job'[c].run = job[c].run
        /\ job'[c].at = job[c].at /\ job'[c].ok = job[c].ok
    BY <1>0, <1>1, <1>4, JobTicks
  <2>2. box' \in [Services -> {"up", "down"}]
    BY <1>0, <1>4 DEF StackShape
  <2> QED
    BY <1>1, <1>4, <2>1, <2>2, HandsStep
<1>5. ASSUME PrepareStops(c), Step(c, "check"), UNCHANGED box PROVE ServerInv'
  <2>1. /\ JobShape' /\ OthersStay(c) /\ job'[c].op = "prepare" /\ job'[c].run = job[c].run
        /\ job'[c].at = "check" /\ job'[c].ok = job[c].ok
    BY <1>0, <1>1, <1>5, JobSteps DEF Points, Backing
  <2>2. box' \in [Services -> {"up", "down"}]
    BY <1>0, <1>5 DEF StackShape
  <2> QED
    BY <1>1, <1>5, <2>1, <2>2, HandsStep
<1>6. ASSUME Up = DataServices, Step(c, "dump"), UNCHANGED box PROVE ServerInv'
  <2>1. /\ JobShape' /\ OthersStay(c) /\ job'[c].op = "prepare" /\ job'[c].run = job[c].run
        /\ job'[c].at = "dump"
    BY <1>0, <1>1, <1>6, JobSteps DEF Points, Backing
  <2>2. box["api"] # "up"
    BY <1>6, ServicesAre DEF Up, DataServices
  <2>3. UNCHANGED <<drillVars, legacyVars, evidenceVars, outage, shared>>
    BY <1>1, <1>6 DEF legacyVars
  <2>4. Touches(c) /\ Touches(c)'
    BY <1>1, <2>1 DEF Touches, Doing, Backing
  <2> QED
    BY <1>1, <1>2, <2>1, <2>2, <2>3, <2>4, MoveStep DEF Backing, Closing, Recovering
<1>7. CASE PrepareStops(c)
  <2>1. \A i \in DOMAIN Writers : Writers[i] \in Services
    BY ServicesAre DEF Writers
  <2> QED
    BY <1>3, <1>4, <1>5, <1>7, <2>1 DEF PrepareStops
<1>8. CASE PrepareChecks(c)
  BY <1>3, <1>6, <1>8 DEF PrepareChecks, legacyVars
<1> QED
  BY <1>7, <1>8

(* Any backup step raises. *)
LEMMA PrepareFailStep ==
    ASSUME ServerInv, NEW c \in Commands, PrepareFails(c)
    PROVE  ServerInv'
<1>1. /\ job[c].op = "prepare" /\ job[c].at \in Backing /\ BackupError(c)
      /\ UNCHANGED <<drillVars, legacyVars, evidenceVars, outage, shared>>
  BY DEF PrepareFails, Doing
<1>2. trouble' \in 0 .. MaxTrouble /\ trouble' >= trouble
  BY AdoptionAssumption DEF PrepareFails, ServerInv, AdoptionShape, StackShape
<1> QED
  BY <1>1, <1>2, ErrStep

(* The two copies are taken from the live data. *)
LEMMA CopyStep ==
    ASSUME ServerInv, NEW c \in Commands, PrepareDumps(c) \/ PrepareMirrors(c)
    PROVE  ServerInv'
<1> USE DEF ServerInv, AdoptionShape
<1>1. /\ job[c].op = "prepare" /\ job[c].at \in {"dump", "mirror"}
      /\ UNCHANGED <<drillVars, legacyVars, plan, art, late, rot, trouble, outage, shared>>
  BY DEF PrepareDumps, PrepareMirrors, At, Doing
<1>2. PICK r \in Runs : r = job[c].run
  BY <1>1 DEF JobShape, Formed
<1>3. PrepareInv(c) /\ "prepared" \notin art[r] /\ writes \in 0 .. MaxWrites
  BY <1>1, <1>2 DEF CommandsInv, PrepareInv, StackShape
<1>4. ASSUME UNCHANGED copy, BackupError(c) PROVE ServerInv'
  <2>1. trouble' \in 0 .. MaxTrouble /\ trouble' >= trouble
    BY <1>1 DEF StackShape
  <2> QED
    BY <1>1, <1>4, <2>1, ErrStep DEF Backing, evidenceVars
<1>5. ASSUME \/ job[c].at = "dump" /\ copy' = [copy EXCEPT ![job[c].run].rows = writes]
                /\ Step(c, "archive")
             \/ job[c].at = "mirror" /\ copy' = [copy EXCEPT ![job[c].run].blobs = writes]
                /\ Step(c, "seal")
      PROVE  ServerInv'
  <2>1. /\ JobShape' /\ OthersStay(c) /\ job'[c].op = "prepare" /\ job'[c].run = job[c].run
        /\ job'[c].at = IF job[c].at = "dump" THEN "archive" ELSE "seal"
    BY <1>1, <1>5, JobSteps DEF Points, Backing
  <2>2. /\ copy' \in [Runs -> [rows : 0 .. MaxWrites, blobs : 0 .. MaxWrites]]
        /\ \A q \in Runs \ {r} : copy'[q] = copy[q]
    BY <1>2, <1>3, <1>5 DEF FileShape
  <2>3. /\ job[c].at = "dump" => copy'[r].rows = writes
        /\ job[c].at = "mirror" => copy'[r].blobs = writes /\ copy'[r].rows = copy[r].rows
    BY <1>2, <1>3, <1>5 DEF FileShape
  <2>4. StackShape' /\ FileShape'
    BY <1>1, <2>2 DEF StackShape, FileShape, legacyVars
  <2>5. FilesInv'
    BY <1>1, <1>3, <2>2 DEF FilesInv, RunInv, BackupHalvesAgree, EvidenceInv, Certified, Done,
       legacyVars, drillVars
  <2>6. PrepareInv(c)'
    BY <1>1, <1>2, <1>3, <2>1, <2>3 DEF PrepareInv, Original, legacyVars, drillVars, Closing,
       Recovering, Backing
  <2>7. FinalizeInv(c)'
    BY <2>1 DEF FinalizeInv
  <2>8. Touches(c) /\ Touches(c)'
    BY <1>1, <2>1 DEF Touches, Doing, Backing
  <2>9. OutageInv'
    BY <2>8 DEF OutageInv
  <2>10. /\ box' = box /\ gen' = gen /\ writes' = writes /\ media' = media /\ drill' = drill
         /\ art' = art /\ plan' = plan /\ rot' = rot /\ shared' = shared
    BY <1>1 DEF legacyVars, drillVars
  <2> QED
    BY <1>1, <1>2, <2>1, <2>2, <2>4, <2>5, <2>6, <2>7, <2>8, <2>9, <2>10, CommandStep
<1> QED
  BY <1>4, <1>5 DEF PrepareDumps, PrepareMirrors, At

(* The files of the backup and the prepared state are written. *)
LEMMA PrepareWriteStep ==
    ASSUME ServerInv, NEW c \in Commands, PrepareArchives(c) \/ PrepareSeals(c) \/ PrepareBinds(c)
    PROVE  ServerInv'
<1>0. JobShape
  BY DEF ServerInv, AdoptionShape
<1>1. /\ job[c].op = "prepare"
      /\ UNCHANGED <<drillVars, legacyVars, plan, copy, late, rot, trouble, outage, shared>>
  BY DEF PrepareArchives, PrepareSeals, PrepareBinds, At, Doing
<1>2. media' = media /\ UNCHANGED <<drill, legacyVars, plan, copy, late, rot, trouble, outage, shared>>
  BY <1>1 DEF drillVars
<1>3. CASE PrepareArchives(c)
  <2>1. job[c].at = "archive" /\ Write(job[c].run, "database") /\ Step(c, "mirror")
    BY <1>3 DEF PrepareArchives, At
  <2>2. /\ JobShape' /\ OthersStay(c) /\ job'[c].op = "prepare" /\ job'[c].run = job[c].run
        /\ job'[c].at = "mirror"
    BY <1>0, <1>1, <2>1, JobSteps DEF Points, Backing
  <2>3. "database" \in Artifacts /\ "database" \notin Signing
    BY DEF Artifacts, Signing
  <2>4. Touches(c) /\ Touches(c)'
    BY <1>1, <2>1, <2>2 DEF Touches, Doing, Backing
  <2> QED
    BY <1>1, <1>2, <2>1, <2>2, <2>3, <2>4, WriteStep DEF Backing, Closing, Recovering
<1>4. CASE PrepareSeals(c)
  <2>1. job[c].at = "seal" /\ Write(job[c].run, "objects") /\ Step(c, "escrow")
    BY <1>4 DEF PrepareSeals, At
  <2>2. /\ JobShape' /\ OthersStay(c) /\ job'[c].op = "prepare" /\ job'[c].run = job[c].run
        /\ job'[c].at = "escrow"
    BY <1>0, <1>1, <2>1, JobSteps DEF Points, Backing
  <2>3. "objects" \in Artifacts /\ "objects" \notin Signing
    BY DEF Artifacts, Signing
  <2>4. Touches(c) /\ Touches(c)'
    BY <1>1, <2>1, <2>2 DEF Touches, Doing, Backing
  <2> QED
    BY <1>1, <1>2, <2>1, <2>2, <2>3, <2>4, WriteStep DEF Backing, Closing, Recovering
<1>5. CASE PrepareBinds(c)
  <2>1. job[c].at = "bind" /\ Write(job[c].run, "prepared") /\ Ends(c)
    BY <1>5 DEF PrepareBinds, At
  <2>2. JobShape' /\ OthersStay(c) /\ job'[c].op = "none"
    BY <1>0, <2>1, JobIdle
  <2>3. "prepared" \in Artifacts /\ "prepared" \notin Signing
    BY DEF Artifacts, Signing
  <2>4. ~Touches(c) /\ ~Touches(c)'
    BY <2>1, <2>2 DEF Touches, Doing, Backing, Recovering
  <2> QED
    BY <1>1, <1>2, <2>1, <2>2, <2>3, <2>4, WriteStep DEF Closing
<1> QED
  BY <1>3, <1>4, <1>5

(* _encrypt_ca_escrow, which goes to the media. *)
LEMMA EscrowStep ==
    ASSUME ServerInv, DrillShape, NEW c \in Commands, PrepareEscrows(c)
    PROVE  ServerInv'
<1>0. JobShape /\ StackShape
  BY DEF ServerInv, AdoptionShape
<1>1. /\ job[c].op = "prepare" /\ job[c].at = "escrow" /\ job[c].run \in Runs
      /\ UNCHANGED <<trail, drill, io, legacyVars, plan, copy, late, rot, trouble, outage, shared>>
  BY <1>0 DEF PrepareEscrows, At, Doing, JobShape, Formed
<1>2. ASSUME NEW kind \in Archives, media' = [media EXCEPT ![job[c].run].archive = kind],
             Write(job[c].run, "escrow"), Step(c, "restore")
      PROVE  ServerInv'
  <2>1. /\ JobShape' /\ OthersStay(c) /\ job'[c].op = "prepare" /\ job'[c].run = job[c].run
        /\ job'[c].at = "restore"
    BY <1>0, <1>1, <1>2, JobSteps DEF Points, Recovering
  <2>2. "escrow" \in Artifacts /\ "escrow" \notin Signing
    BY DEF Artifacts, Signing
  <2>3. \A r \in Runs \ {job[c].run} : media'[r].archive = media[r].archive
    BY <1>1, <1>2 DEF DrillShape
  <2>4. Touches(c) /\ Touches(c)'
    BY <1>1, <2>1 DEF Touches, Doing, Backing, Recovering
  <2> QED
    BY <1>1, <1>2, <2>1, <2>2, <2>3, <2>4, WriteStep DEF Backing, Closing, Recovering
<1>3. ASSUME BackupError(c), UNCHANGED <<media, art>> PROVE ServerInv'
  <2>1. trouble' \in 0 .. MaxTrouble /\ trouble' >= trouble
    BY <1>0, <1>1 DEF StackShape
  <2> QED
    BY <1>1, <1>3, <2>1, ErrStep DEF Backing, evidenceVars, drillVars
<1> QED
  BY <1>2, <1>3 DEF PrepareEscrows

(* prepare writes the challenge for the drill, or fails. *)
LEMMA ChallengeStep ==
    ASSUME ServerInv, DrillShape, NEW c \in Commands, PrepareChallenges(c)
    PROVE  ServerInv'
<1>0. JobShape /\ StackShape
  BY DEF ServerInv, AdoptionShape
<1>1. /\ job[c].op = "prepare" /\ job[c].at = "challenge" /\ job[c].run \in Runs
      /\ UNCHANGED <<trail, drill, io, legacyVars, plan, copy, late, rot, trouble, outage, shared>>
  BY <1>0 DEF PrepareChallenges, At, Doing, JobShape, Formed
<1>2. ~Touches(c)
  BY <1>1 DEF Touches, Doing, Backing, Recovering
<1>3. ASSUME media' = [media EXCEPT ![job[c].run].challenge = TRUE],
             Write(job[c].run, "challenge"), Step(c, "bind")
      PROVE  ServerInv'
  <2>1. /\ JobShape' /\ OthersStay(c) /\ job'[c].op = "prepare" /\ job'[c].run = job[c].run
        /\ job'[c].at = "bind"
    BY <1>0, <1>1, <1>3, JobSteps DEF Points, Closing
  <2>2. "challenge" \in Artifacts /\ "challenge" \notin Signing
    BY DEF Artifacts, Signing
  <2>3. \A r \in Runs \ {job[c].run} : media'[r].archive = media[r].archive
    BY <1>1, <1>3 DEF DrillShape
  <2>4. ~Touches(c)'
    BY <2>1 DEF Touches, Doing, Backing, Recovering
  <2> QED
    BY <1>1, <1>2, <1>3, <2>1, <2>2, <2>3, <2>4, WriteStep DEF Backing, Closing, Recovering
<1>4. ASSUME Ends(c), UNCHANGED <<media, art>> PROVE ServerInv'
  <2>1. JobShape' /\ OthersStay(c) /\ job'[c].op = "none"
    BY <1>0, <1>4, JobIdle
  <2>2. trouble' \in 0 .. MaxTrouble /\ trouble' >= trouble
    BY <1>0, <1>1 DEF StackShape
  <2>3. UNCHANGED <<drillVars, legacyVars, evidenceVars, outage, shared>>
    BY <1>1, <1>4 DEF evidenceVars, drillVars
  <2>4. ~Touches(c)'
    BY <2>1 DEF Touches, Doing
  <2> QED
    BY <1>1, <1>2, <2>1, <2>2, <2>3, <2>4, MoveStep
<1> QED
  BY <1>3, <1>4 DEF PrepareChallenges

(* prepare starts the stack again, as it was or recreated. *)
LEMMA RestoreStep ==
    ASSUME ServerInv, NEW c \in Commands,
           PrepareRestores(c) \/ PrepareStarts(c) \/ PrepareRecreates(c) \/ PrepareStopsExtras(c)
    PROVE  ServerInv'
<1>0. JobShape /\ StackShape /\ FileShape
  BY DEF ServerInv, AdoptionShape
<1>1. /\ job[c].op = "prepare" /\ job[c].at \in Recovering /\ job[c].run \in Runs
      /\ UNCHANGED <<drillVars, gen, shape, auth, key, writes, evidenceVars, trouble, outage, shared>>
  BY <1>0 DEF PrepareRestores, PrepareStarts, PrepareRecreates, PrepareStopsExtras, At, Doing,
     JobShape, Formed, Recovering, legacyVars
<1> DEFINE Moved == /\ JobShape' /\ OthersStay(c) /\ job'[c].op = "prepare"
                    /\ job'[c].run = job[c].run /\ job'[c].at \in Recovering
                    /\ job'[c].ok = job[c].ok
<1>2. ASSUME Step(c, "settle") PROVE Moved
  BY <1>0, <1>1, <1>2, JobSteps DEF Points, Recovering
<1>3. ASSUME UNCHANGED job PROVE Moved
  BY <1>0, <1>1, <1>3 DEF JobShape, Formed, OthersStay
<1>4. ASSUME NEW s, job' = [job EXCEPT ![c].left = @ \ {s}] PROVE Moved
  BY <1>0, <1>1, <1>4, JobTicks
<1>5. ASSUME job' = [job EXCEPT ![c].at = "start", ![c].left = Plan(c).up \ Up] PROVE Moved
  <2> DEFINE n == [job[c] EXCEPT !.at = "start", !.left = Plan(c).up \ Up]
  <2>1. job[c] \in JobRows /\ Plan(c).up \subseteq Services
    BY <1>0, <1>1 DEF JobShape, FileShape, PlanRows, Plan
  <2>2. /\ n \in JobRows /\ n.op = job[c].op /\ n.run = job[c].run /\ n.at = "start"
        /\ n.ok = job[c].ok /\ "start" \in Recovering
    BY <2>1 DEF JobRows, Points, Recovering
  <2>3. job' = [job EXCEPT ![c] = n]
    BY <1>0, <1>5 DEF JobShape
  <2> HIDE DEF n
  <2> QED
    BY <1>0, <1>1, <2>2, <2>3, JobMoves
<1>6. Moved
  BY <1>2, <1>3, <1>4, <1>5 DEF PrepareRestores, PrepareStarts, PrepareRecreates, PrepareStopsExtras
<1>7. box' \in [Services -> {"up", "down"}]
  <2>1. \/ UNCHANGED box
        \/ \E i \in DOMAIN StartOrder : box' = [box EXCEPT ![StartOrder[i]] = "up"]
        \/ box' = [s \in Services |-> IF s \in Plan(c).up \/ box[s] = "up" THEN "up" ELSE "down"]
        \/ box' = [s \in Services |-> IF s \in Up \ Plan(c).up THEN "down" ELSE box[s]]
    BY DEF PrepareRestores, PrepareStarts, PrepareRecreates, PrepareStopsExtras, legacyVars
  <2> QED
    BY <1>0, <2>1 DEF StackShape
<1> QED
  BY <1>1, <1>6, <1>7, HandsStep

(* A command lets go of the stack, or ends: an outage is known, or all is up. *)
LEMMA LetGoStep ==
    ASSUME ServerInv, NEW c \in Commands, job[c].op # "none", JobShape', OthersStay(c),
           \/ job'[c].op = "none"
           \/ /\ job[c].op = "prepare" /\ job'[c].op = "prepare" /\ job'[c].run = job[c].run
              /\ job[c].at \in Recovering /\ job[c].ok /\ job'[c].at = "challenge",
           UNCHANGED <<drillVars, box, gen, shape, auth, key, writes, evidenceVars, shared>>,
           trouble' \in 0 .. MaxTrouble, trouble' >= trouble, outage' \in BOOLEAN,
           \/ outage'
           \/ outage' = outage /\ job[c].op # "prepare"
           \/ \A s \in Services : box[s] = "up"
    PROVE  ServerInv'
<1> USE DEF ServerInv, AdoptionShape
<1>1. StackShape'
  <2>1. box' \in [Services -> {"up", "down"}] /\ key' \in BOOLEAN
    BY DEF StackShape
  <2> QED
    BY <2>1, StackKept
<1>2. FileShape' /\ FilesInv'
  BY DEF FileShape, FilesInv, RunInv, BackupHalvesAgree, EvidenceInv, Certified, Done,
     evidenceVars, drillVars
<1>3. PICK r \in Runs : r = job[c].run
  BY DEF JobShape, Formed
<1>4. /\ plan' = plan /\ art' = art /\ copy' = copy /\ rot' = rot /\ media' = media /\ drill' = drill
  BY DEF evidenceVars, drillVars
<1>5. PrepareInv(c)'
  BY <1>3, <1>4 DEF PrepareInv, CommandsInv, Original, Backing, Recovering, Closing
<1>6. FinalizeInv(c)'
  BY DEF FinalizeInv
<1>7. ~Touches(c)'
  BY DEF Touches, Doing, Backing, Recovering
<1>8. OutageInv'
  <2>1. \A d \in Commands \ {c} : Touches(d)' <=> Touches(d)
    BY DEF OthersStay, Touches, Doing
  <2>2. job[c].op # "prepare" => ~Touches(c)
    BY DEF Touches, Doing
  <2> QED
    BY <2>1, <2>2 DEF OutageInv
<1> QED
  BY <1>1, <1>2, <1>3, <1>4, <1>5, <1>6, <1>7, <1>8, CommandStep

(* The stack is as planned again: an outage is known if the plan had one. *)
LEMMA SettleStep ==
    ASSUME ServerInv, NEW c \in Commands, PrepareSettles(c)
    PROVE  ServerInv'
<1>0. JobShape /\ StackShape
  BY DEF ServerInv, AdoptionShape
<1>1. /\ job[c].op = "prepare" /\ job[c].at = "settle" /\ Plan(c).up = Up
      /\ IF job[c].ok THEN Step(c, "challenge") ELSE Ends(c)
      /\ outage' = (Plan(c).up # Services)
      /\ UNCHANGED <<drillVars, box, gen, shape, auth, key, writes, evidenceVars, trouble, shared>>
  BY DEF PrepareSettles, At, Doing, legacyVars
<1>2. outage' \in BOOLEAN /\ (outage' \/ \A s \in Services : box[s] = "up")
  BY <1>1 DEF Up
<1>3. trouble' \in 0 .. MaxTrouble /\ trouble' >= trouble
  BY <1>0, <1>1 DEF StackShape
<1>4. CASE job[c].ok
  <2>1. /\ JobShape' /\ OthersStay(c) /\ job'[c].op = "prepare" /\ job'[c].run = job[c].run
        /\ job'[c].at = "challenge"
    BY <1>0, <1>1, <1>4, JobSteps DEF Points, Closing
  <2> QED
    BY <1>1, <1>2, <1>3, <1>4, <2>1, LetGoStep DEF Recovering
<1>5. CASE ~job[c].ok
  <2>1. JobShape' /\ OthersStay(c) /\ job'[c].op = "none"
    BY <1>0, <1>1, <1>5, JobIdle
  <2> QED
    BY <1>1, <1>2, <1>3, <2>1, LetGoStep
<1> QED
  BY <1>4, <1>5

(* A stack that does not come back and a killed prepare leave a known outage. *)
LEMMA LossStep ==
    ASSUME ServerInv, NEW c \in Commands, PrepareCannotRestore(c) \/ CommandKilled(c)
    PROVE  ServerInv'
<1>0. JobShape /\ StackShape
  BY DEF ServerInv, AdoptionShape
<1>1. /\ job[c].op # "none" /\ Ends(c)
      /\ UNCHANGED <<drillVars, box, gen, shape, auth, key, writes, evidenceVars, shared>>
  BY DEF PrepareCannotRestore, CommandKilled, Busy, Doing, legacyVars
<1>2. trouble' \in 0 .. MaxTrouble /\ trouble' >= trouble
  BY <1>0, AdoptionAssumption DEF PrepareCannotRestore, CommandKilled, Trouble, StackShape
<1>3. outage' \in BOOLEAN /\ (outage' \/ (outage' = outage /\ job[c].op # "prepare"))
  <2>1. outage \in BOOLEAN
    BY <1>0 DEF StackShape
  <2>2. outage' = TRUE \/ outage' = (outage \/ job[c].op = "prepare")
    BY DEF PrepareCannotRestore, CommandKilled, Doing
  <2> QED
    BY <2>1, <2>2
<1>4. JobShape' /\ OthersStay(c) /\ job'[c].op = "none"
  BY <1>0, <1>1, JobIdle
<1> QED
  BY <1>1, <1>2, <1>3, <1>4, LetGoStep

(* So does a crash of the server, which ends every command. *)
LEMMA CrashStep ==
    ASSUME ServerInv, ServerCrashes
    PROVE  ServerInv'
<1> USE DEF ServerInv, AdoptionShape
<1>1. /\ job' = [c \in Commands |-> Idle] /\ key' = FALSE
      /\ outage' = (outage \/ \E c \in Commands : job[c].op = "prepare")
      /\ UNCHANGED <<drillVars, box, gen, shape, auth, writes, evidenceVars, shared>>
  BY DEF ServerCrashes, Doing
<1>2. trouble' \in 0 .. MaxTrouble /\ trouble' >= trouble
  BY AdoptionAssumption DEF ServerCrashes, Trouble, StackShape
<1>3. outage' \in BOOLEAN /\ key' \in BOOLEAN /\ box' \in [Services -> {"up", "down"}]
  BY <1>1 DEF StackShape
<1>4. StackShape'
  BY <1>1, <1>2, <1>3, StackKept
<1>5. FileShape' /\ FilesInv'
  BY <1>1 DEF FileShape, FilesInv, RunInv, BackupHalvesAgree, EvidenceInv, Certified, Done,
     evidenceVars, drillVars
<1>6. Idle \in JobRows /\ Idle.op = "none"
  BY DEF Idle, JobRows, Ops, Points
<1>7. JobShape' /\ \A c \in Commands : job'[c].op = "none"
  BY <1>1, <1>6 DEF JobShape, Formed
<1>8. CommandsInv' /\ Apart'
  BY <1>7 DEF CommandsInv, PrepareInv, FinalizeInv, Apart
<1>9. OutageInv'
  <2>1. ~outage' => ~outage /\ \A c \in Commands : ~Touches(c)
    BY <1>1 DEF Touches, Doing
  <2> QED
    BY <1>1, <2>1 DEF OutageInv
<1> QED
  BY <1>4, <1>5, <1>7, <1>8, <1>9


-----------------------------------------------------------------------------
(* finalize                                                                *)

(* A pair that was carried over, with no lock left, is of a drill that was done. *)
LEMMA CarriedCertifies ==
    ASSUME DrillInv, NEW r \in Runs, Carried(r)
    PROVE  Certified(r)
<1>1. DrillShape /\ PairInv
  BY DEF DrillInv
<1>2. Directory(r) \in Seen(r) /\ Directory(r) \in Entries
  BY <1>1, DirectorySeen
<1>3. Directory(r).att \in Drills /\ Directory(r).lock = NoDrill
  BY <1>2 DEF Carried, Attested, Entries, Owners
<1>4. Done(Directory(r).att, r)
  BY <1>1, <1>2, <1>3, DrillAssumption DEF PairInv
<1> QED
  BY <1>3, <1>4 DEF Certified

(* A drill that was done left the pair of a good escrow, for good. *)
LEMMA CertifiedAttested ==
    ASSUME DrillInv, NEW r \in Runs, Certified(r)
    PROVE  Attested(r) /\ media[r].archive = "good"
<1>1. PICK d \in Drills : Done(d, r)
  BY DEF Certified
<1>2. Stands(d) /\ DrillShape
  BY DEF DrillInv
<1>3. Directory(r) \in Seen(r)
  BY <1>2, DirectorySeen
<1>4. Directory(r).att = d /\ Directory(r).sig = d /\ media[r].archive = "good"
  BY <1>1, <1>2, <1>3 DEF Stands, Done
<1> QED
  BY <1>4, DrillAssumption DEF Attested

(* finalize begins on a run whose attestation was carried back. *)
LEMMA FinalizeBeginStep ==
    ASSUME ServerInv, DrillInv, NEW c \in Commands, NEW r \in Runs, FinalizeBegins(c, r)
    PROVE  ServerInv'
<1> USE DEF ServerInv, AdoptionShape
<1> DEFINE n == [op |-> "finalize", run |-> r, at |-> "scratch", ok |-> TRUE, left |-> {}]
<1>1. /\ job[c].op = "none" /\ Carried(r) /\ job' = [job EXCEPT ![c] = n]
      /\ UNCHANGED <<drillVars, legacyVars, evidenceVars, trouble, outage, shared>>
  BY DEF FinalizeBegins, AttestationValid, Doing
<1>2. Inputs \subseteq art[r]
  BY DEF FinalizeBegins, PreparedValid, BackupArtifactsValid, Intact, ChallengeBound, Inputs
<1>3. /\ n \in JobRows /\ n.op = "finalize" /\ n.run = r /\ n.at = "scratch"
      /\ "scratch" \in FinalizePoints
  BY DEF JobRows, Ops, Points, FinalizePoints
<1> HIDE DEF n
<1>4. JobShape' /\ OthersStay(c) /\ job'[c] = n
  BY <1>1, <1>3, JobSet
<1>5. StackShape' /\ FileShape' /\ FilesInv'
  BY <1>1 DEF StackShape, FileShape, FilesInv, RunInv, BackupHalvesAgree, EvidenceInv, Certified,
     Done, legacyVars, evidenceVars, drillVars
<1>6. ASSUME NEW d \in Commands PROVE PrepareInv(d)' /\ FinalizeInv(d)'
  <2>1. CASE d = c
    <3>1. Certified(r) /\ (Certified(r)' <=> Certified(r)) /\ art' = art
      BY <1>1, CarriedCertifies DEF drillVars, evidenceVars, Certified, Done
    <3> QED
      BY <1>2, <1>3, <1>4, <2>1, <3>1 DEF PrepareInv, FinalizeInv, Signing
  <2>2. CASE d # c
    <3>1. job'[d] = job[d] /\ PrepareInv(d) /\ FinalizeInv(d)
      BY <1>4, <2>2 DEF OthersStay, CommandsInv
    <3> QED
      BY <1>1, <3>1 DEF PrepareInv, FinalizeInv, Original, Certified, Done, legacyVars,
         evidenceVars, drillVars
  <2> QED
    BY <2>1, <2>2
<1>7. \A d \in Commands : /\ Touches(d)' <=> Touches(d)
                          /\ job'[d].op = "prepare" => job'[d] = job[d]
  BY <1>1, <1>3, <1>4 DEF OthersStay, Touches, Doing
<1>8. Apart' /\ OutageInv'
  BY <1>1, <1>7 DEF Apart, OutageInv, legacyVars
<1> QED
  BY <1>4, <1>5, <1>6, <1>8 DEF CommandsInv

(* The steps of the restore drill only move the command. *)
LEMMA RestoreDrillStep ==
    ASSUME ServerInv, NEW c \in Commands,
           FinalizeRestoresRows(c) \/ FinalizeCountsRows(c) \/ FinalizeRestoresBlobs(c)
              \/ FinalizeReadsBlobs(c) \/ FinalizeFails(c)
    PROVE  ServerInv'
<1>0. JobShape /\ StackShape /\ FinalizeInv(c)
  BY DEF ServerInv, AdoptionShape, CommandsInv
<1>1. job[c].op = "finalize" /\ UNCHANGED <<drillVars, legacyVars, evidenceVars, outage, shared>>
  BY DEF FinalizeRestoresRows, FinalizeCountsRows, FinalizeRestoresBlobs, FinalizeReadsBlobs,
         FinalizeFails, At, Doing
<1>2. trouble' \in 0 .. MaxTrouble /\ trouble' >= trouble
  <2>1. trouble' = trouble \/ (trouble < MaxTrouble /\ trouble' = trouble + 1)
    BY DEF FinalizeRestoresRows, FinalizeCountsRows, FinalizeRestoresBlobs, FinalizeReadsBlobs,
           FinalizeFails
  <2> QED
    BY <1>0, <2>1, AdoptionAssumption DEF StackShape
<1> DEFINE Moved(at, ok) == /\ JobShape' /\ OthersStay(c) /\ job'[c].op = "finalize"
                            /\ job'[c].run = job[c].run /\ job'[c].ok = ok /\ job'[c].at = at
<1>3. ASSUME NEW ok \in BOOLEAN, NEW next \in FinalizePoints, DrillProceeds(c, ok, next)
      PROVE  Moved(IF ok THEN next ELSE "clean", ok)
  <2> DEFINE at == IF ok THEN next ELSE "clean"
             n == [job[c] EXCEPT !.at = at, !.ok = ok]
  <2>1. job[c] \in JobRows
    BY <1>0 DEF JobShape
  <2>2. at \in FinalizePoints /\ at \in Points
    BY DEF FinalizePoints, Points
  <2> HIDE DEF at
  <2>3. n \in JobRows /\ n.op = job[c].op /\ n.run = job[c].run /\ n.at = at /\ n.ok = ok
    BY <2>1, <2>2 DEF JobRows
  <2>4. job' = [job EXCEPT ![c] = n]
    BY <1>0, <1>3 DEF DrillProceeds, JobShape, at
  <2> HIDE DEF n
  <2>5. Moved(at, ok)
    BY <1>0, <1>1, <2>2, <2>3, <2>4, JobMoves
  <2> QED
    BY <2>5 DEF at
<1>4. ASSUME NEW at, NEW ok, Moved(at, ok),
             at \in {"countRows", "restoreBlobs", "readBlobs", "clean"},
             at # "clean" => "database" \notin rot[job[c].run],
             at = "clean" /\ ok => rot[job[c].run] \cap {"database", "objects"} = {}
      PROVE  ServerInv'
  <2>1. ~Touches(c) /\ ~Touches(c)'
    BY <1>1, <1>4 DEF Touches, Doing
  <2> QED
    BY <1>1, <1>2, <1>4, <2>1, MoveStep DEF Signing
<1>5. {"countRows", "restoreBlobs", "readBlobs", "clean"} \subseteq FinalizePoints
  BY DEF FinalizePoints, Drilling
<1> HIDE DEF Moved
<1>6. CASE FinalizeRestoresRows(c)
  <2>1. DrillProceeds(c, "database" \notin rot[job[c].run], "countRows")
    BY <1>6 DEF FinalizeRestoresRows
  <2>2. CASE "database" \in rot[job[c].run]
    <3>1. DrillProceeds(c, FALSE, "countRows")
      BY <2>1, <2>2 DEF DrillProceeds
    <3>2. Moved("clean", FALSE)
      BY <1>3, <1>5, <3>1
    <3> QED
      BY <1>4, <3>2
  <2>3. CASE "database" \notin rot[job[c].run]
    <3>1. DrillProceeds(c, TRUE, "countRows")
      BY <2>1, <2>3 DEF DrillProceeds
    <3>2. Moved("countRows", TRUE)
      BY <1>3, <1>5, <3>1
    <3> QED
      BY <1>4, <2>3, <3>2
  <2> QED
    BY <2>2, <2>3
<1>7. CASE FinalizeCountsRows(c)
  <2>1. DrillProceeds(c, TRUE, "restoreBlobs") /\ "database" \notin rot[job[c].run]
    BY <1>0, <1>1, <1>7 DEF FinalizeCountsRows, FinalizeInv, At
  <2>2. Moved("restoreBlobs", TRUE)
    BY <1>3, <1>5, <2>1
  <2> QED
    BY <1>4, <2>1, <2>2
<1>8. CASE FinalizeRestoresBlobs(c)
  <2>1. DrillProceeds(c, TRUE, "readBlobs") /\ "database" \notin rot[job[c].run]
    BY <1>0, <1>1, <1>8 DEF FinalizeRestoresBlobs, FinalizeInv, At
  <2>2. Moved("readBlobs", TRUE)
    BY <1>3, <1>5, <2>1
  <2> QED
    BY <1>4, <2>1, <2>2
<1>9. CASE FinalizeReadsBlobs(c)
  <2>1. /\ DrillProceeds(c, "objects" \notin rot[job[c].run], "clean")
        /\ "database" \notin rot[job[c].run]
    BY <1>0, <1>1, <1>9 DEF FinalizeReadsBlobs, FinalizeInv, At
  <2>2. PICK ok \in BOOLEAN : ok = ("objects" \notin rot[job[c].run])
    OBVIOUS
  <2>3. Moved(IF ok THEN "clean" ELSE "clean", ok)
    BY <1>3, <1>5, <2>1, <2>2
  <2>4. Moved("clean", ok)
    BY <2>3
  <2>5. ok => rot[job[c].run] \cap {"database", "objects"} = {}
    BY <2>1, <2>2
  <2> QED
    BY <1>4, <2>4, <2>5
<1>10. CASE FinalizeFails(c)
  <2>1. CASE DrillProceeds(c, FALSE, "clean")
    <3>1. Moved("clean", FALSE)
      BY <1>3, <1>5, <2>1
    <3> QED
      BY <1>4, <3>1
  <2>2. CASE Ends(c)
    <3>1. JobShape' /\ OthersStay(c) /\ job'[c].op = "none"
      BY <1>0, <2>2, JobIdle
    <3>2. ~Touches(c) /\ ~Touches(c)'
      BY <1>1, <3>1 DEF Touches, Doing
    <3> QED
      BY <1>1, <1>2, <3>1, <3>2, MoveStep
  <2> QED
    BY <1>10, <2>1, <2>2 DEF FinalizeFails
<1> QED
  BY <1>6, <1>7, <1>8, <1>9, <1>10

(* The scratch directory and the three documents are written. *)
LEMMA FinalizeWriteStep ==
    ASSUME ServerInv, NEW c \in Commands,
           \/ FinalizeScratches(c)
           \/ FinalizeWrites(c, "restored", "evidence")
           \/ FinalizeWrites(c, "evidence", "signature")
           \/ FinalizeWrites(c, "signature", "none")
    PROVE  ServerInv'
<1>0. JobShape /\ StackShape
  BY DEF ServerInv, AdoptionShape
<1>1. /\ job[c].op = "finalize"
      /\ UNCHANGED <<drillVars, legacyVars, plan, copy, late, rot, trouble, outage, shared>>
  BY DEF FinalizeScratches, FinalizeWrites, At, Doing
<1>2. media' = media /\ UNCHANGED <<drill, legacyVars, plan, copy, late, rot, trouble, outage, shared>>
  BY <1>1 DEF drillVars
<1>3. ASSUME job'[c].op \in {"none", "finalize"} PROVE ~Touches(c) /\ ~Touches(c)'
  BY <1>1, <1>3 DEF Touches, Doing
<1>4. ASSUME Ends(c), UNCHANGED art PROVE ServerInv'
  <2>1. JobShape' /\ OthersStay(c) /\ job'[c].op = "none"
    BY <1>0, <1>4, JobIdle
  <2>2. trouble' \in 0 .. MaxTrouble /\ trouble' >= trouble
    BY <1>0, <1>1 DEF StackShape
  <2>3. UNCHANGED <<drillVars, legacyVars, evidenceVars, outage, shared>>
    BY <1>1, <1>4 DEF evidenceVars
  <2> QED
    BY <1>1, <1>3, <2>1, <2>2, <2>3, MoveStep
<1>5. ASSUME NEW next \in {"restoreRows", "evidence", "signature"}, Step(c, next)
      PROVE  /\ JobShape' /\ OthersStay(c) /\ job'[c].op = "finalize"
             /\ job'[c].run = job[c].run /\ job'[c].at = next
  BY <1>0, <1>1, <1>5, JobSteps DEF Points, FinalizePoints, Drilling, Signing
<1>6. CASE FinalizeScratches(c)
  <2>1. CASE "scratch" \in art[job[c].run]
    BY <1>4, <1>6, <2>1 DEF FinalizeScratches
  <2>2. CASE "scratch" \notin art[job[c].run]
    <3>1. Write(job[c].run, "scratch") /\ Step(c, "restoreRows")
      BY <1>6, <2>2 DEF FinalizeScratches
    <3>2. /\ JobShape' /\ OthersStay(c) /\ job'[c].op = "finalize"
          /\ job'[c].run = job[c].run /\ job'[c].at = "restoreRows"
      BY <1>5, <3>1
    <3>3. "scratch" \in Artifacts /\ "scratch" \notin Signing
      BY DEF Artifacts, Signing
    <3> QED
      BY <1>1, <1>2, <1>3, <3>1, <3>2, <3>3, WriteStep
  <2> QED
    BY <2>1, <2>2
<1>7. ASSUME NEW a \in Signing, NEW next, FinalizeWrites(c, a, next),
             \/ a = "restored" /\ next = "evidence"
             \/ a = "evidence" /\ next = "signature"
             \/ a = "signature" /\ next = "none"
      PROVE  ServerInv'
  <2>1. CASE a \in art[job[c].run]
    BY <1>4, <1>7, <2>1 DEF FinalizeWrites
  <2>2. CASE a \notin art[job[c].run]
    <3>1. Write(job[c].run, a) /\ job[c].at = a
      BY <1>7, <2>2 DEF FinalizeWrites, At
    <3>2. a \in Artifacts /\ a # "prepared"
      BY DEF Artifacts, Signing
    <3>3. CASE next = "none"
      <4>1. JobShape' /\ OthersStay(c) /\ job'[c].op = "none"
        BY <1>0, <1>7, <2>2, <3>3, JobIdle DEF FinalizeWrites
      <4> QED
        BY <1>1, <1>2, <1>3, <3>1, <3>2, <4>1, WriteStep
    <3>4. CASE next # "none"
      <4>1. /\ JobShape' /\ OthersStay(c) /\ job'[c].op = "finalize"
            /\ job'[c].run = job[c].run /\ job'[c].at = next
        BY <1>5, <1>7, <2>2, <3>4 DEF FinalizeWrites
      <4> QED
        BY <1>1, <1>2, <1>3, <1>7, <3>1, <3>2, <3>4, <4>1, WriteStep
    <3> QED
      BY <3>3, <3>4
  <2> QED
    BY <2>1, <2>2
<1> QED
  BY <1>6, <1>7 DEF Signing

(* The drill's finally removes the scratch directory, and nothing else. *)
LEMMA CleanStep ==
    ASSUME ServerInv, NEW c \in Commands, FinalizeCleans(c)
    PROVE  ServerInv'
<1> USE DEF ServerInv, AdoptionShape
<1>1. /\ job[c].op = "finalize" /\ job[c].at = "clean"
      /\ UNCHANGED <<drillVars, legacyVars, plan, copy, late, rot, trouble, outage, shared>>
      /\ art' = [art EXCEPT ![job[c].run] = @ \ {"scratch"}]
      /\ IF job[c].ok /\ KeyPairValid THEN Step(c, "restored") ELSE Ends(c)
  BY DEF FinalizeCleans, At, Doing
<1>2. PICK r \in Runs : r = job[c].run
  BY <1>1 DEF JobShape, Formed
<1>3. /\ art' \in [Runs -> SUBSET Artifacts] /\ art'[r] = art[r] \ {"scratch"}
      /\ \A q \in Runs \ {r} : art'[q] = art[q]
  BY <1>1, <1>2 DEF FileShape
<1>4. /\ JobShape' /\ OthersStay(c) /\ job'[c].op \in {"none", "finalize"}
      /\ job'[c].op = "finalize" => job'[c].run = r /\ job'[c].at = "restored" /\ job[c].ok
  <2>1. CASE job[c].ok /\ KeyPairValid
    <3>1. /\ JobShape' /\ OthersStay(c) /\ job'[c].op = "finalize" /\ job'[c].run = job[c].run
          /\ job'[c].at = "restored"
      BY <1>1, <2>1, JobSteps DEF Points, FinalizePoints, Signing
    <3> QED
      BY <1>2, <2>1, <3>1
  <2>2. CASE ~ (job[c].ok /\ KeyPairValid)
    BY <1>1, <2>2, JobIdle
  <2> QED
    BY <2>1, <2>2
<1>5. StackShape' /\ FileShape'
  BY <1>1, <1>3 DEF StackShape, FileShape, legacyVars
<1>6. \A q \in Runs, a \in Inputs \cup Signing \cup {"directory"} : a \in art'[q] <=> a \in art[q]
  BY <1>3 DEF Inputs, Signing
<1>7. FinalizeInv(c) /\ "directory" \in art[r] /\ plan[r] # NoPlan
  BY <1>1, <1>2 DEF CommandsInv, FinalizeInv, FilesInv, RunInv, Inputs
<1>8. RunInv'
  BY <1>1, <1>3, <1>7 DEF FilesInv, RunInv, drillVars
<1>9. BackupHalvesAgree'
  BY <1>1, <1>6 DEF FilesInv, BackupHalvesAgree, legacyVars, Inputs
<1>10. \A q : Certified(q)' <=> Certified(q)
  BY <1>1 DEF drillVars, Certified, Done
<1>11. EvidenceInv'
  <2>1. \A q \in Runs : /\ art'[q] \cap Signing # {} => Certified(q) /\ Inputs \subseteq art'[q]
                        /\ "signature" \in art'[q] => Signing \subseteq art'[q]
    BY <1>6 DEF FilesInv, EvidenceInv, Signing
  <2> QED
    BY <1>10, <2>1 DEF EvidenceInv
<1>12. FinalizeInv(c)' /\ PrepareInv(c)'
  <2>1. job'[c].op = "finalize" => /\ Certified(r) /\ Inputs \subseteq art'[r]
                                   /\ rot[r] \cap {"database", "objects"} = {}
    BY <1>1, <1>2, <1>4, <1>6, <1>7 DEF FinalizeInv
  <2> QED
    BY <1>1, <1>4, <1>10, <2>1 DEF FinalizeInv, PrepareInv
<1>13. ~Touches(c) /\ ~Touches(c)'
  BY <1>1, <1>4 DEF Touches, Doing
<1>14. OutageInv'
  <2>1. \A d \in Commands : Touches(d)' <=> Touches(d)
    BY <1>4, <1>13 DEF OthersStay, Touches, Doing
  <2> QED
    BY <1>1, <2>1 DEF OutageInv, legacyVars
<1>15. box' = box /\ gen' = gen /\ writes' = writes /\ drill' = drill /\ media' = media
  BY <1>1 DEF legacyVars, drillVars
<1> QED
  BY <1>1, <1>2, <1>3, <1>4, <1>5, <1>8, <1>9, <1>11, <1>12, <1>13, <1>14, <1>15, CommandStep
     DEF FilesInv

-----------------------------------------------------------------------------
(* The world around the commands.                                          *)

(* What happens to the stack and to the papers while every command stands still:
   no backup that is promised whole may lose its ground. *)
LEMMA WorldFrame ==
    ASSUME ServerInv, UNCHANGED <<job, plan, art, copy, shared>>, StackShape', FileShape',
           \A r \in Runs : media'[r].archive = media[r].archive /\ (Certified(r) => Certified(r)'),
           \A r \in Runs : gen' = plan[r].gen => gen = plan[r].gen,
           \A c \in Commands : job[c].op = "finalize" => rot'[job[c].run] = rot[job[c].run],
           \A c \in Commands : job[c].op = "prepare" /\ Original(job[c].run)
              /\ job[c].at \in {"dump", "archive", "mirror"} /\ gen' = gen
                 => box'["api"] = box["api"] /\ writes' = writes,
           OutageInv'
    PROVE  ServerInv'
<1> USE DEF ServerInv, AdoptionShape
<1>1. JobShape' /\ Apart'
  BY DEF JobShape, Formed, Apart, Touches, Doing
<1>2. FilesInv'
  BY DEF FilesInv, RunInv, BackupHalvesAgree, EvidenceInv
<1>3. ASSUME NEW c \in Commands PROVE PrepareInv(c)' /\ FinalizeInv(c)'
  <2>1. PrepareInv(c) /\ FinalizeInv(c)
    BY DEF CommandsInv
  <2>2. ASSUME job[c].op = "prepare" PROVE PrepareInv(c)'
    <3>1. PICK r \in Runs : r = job[c].run
      BY <2>2 DEF JobShape, Formed
    <3>2. Original(r)' => Original(r) /\ gen' = gen
      BY DEF Original
    <3> QED
      BY <2>1, <2>2, <3>1, <3>2 DEF PrepareInv
  <2>3. ASSUME job[c].op = "finalize" PROVE FinalizeInv(c)'
    <3>1. PICK r \in Runs : r = job[c].run
      BY <2>3 DEF JobShape, Formed
    <3> QED
      BY <2>1, <2>3, <3>1 DEF FinalizeInv
  <2> QED
    BY <2>2, <2>3 DEF PrepareInv, FinalizeInv
<1> QED
  BY <1>1, <1>2, <1>3 DEF CommandsInv

(* The application writes, but never while a backup relies on it being down. *)
LEMMA LiveWriteStep ==
    ASSUME ServerInv, LegacyWrites
    PROVE  ServerInv'
<1> USE DEF ServerInv, AdoptionShape
<1>1. /\ writes' = writes + 1 /\ writes < MaxWrites /\ box["api"] = "up"
      /\ UNCHANGED <<drillVars, box, gen, shape, auth, key, evidenceVars, job, trouble, outage, shared>>
  BY DEF LegacyWrites, Up
<1>2. StackShape'
  <2>1. writes' \in 0 .. MaxWrites
    BY <1>1, AdoptionAssumption DEF StackShape
  <2> QED
    BY <1>1, <2>1 DEF StackShape
<1>3. FileShape' /\ OutageInv'
  BY <1>1 DEF FileShape, OutageInv, Touches, Doing, evidenceVars
<1>4. ASSUME NEW c \in Commands, job[c].op = "prepare", Original(job[c].run),
             job[c].at \in {"dump", "archive", "mirror"}
      PROVE  FALSE
  BY <1>1, <1>4 DEF CommandsInv, PrepareInv
<1>5. \A r \in Runs : Certified(r)' <=> Certified(r)
  BY <1>1 DEF Certified, Done, drillVars
<1> QED
  BY <1>1, <1>2, <1>3, <1>4, <1>5, WorldFrame DEF evidenceVars, drillVars

(* Keys, documents and files; a file is not damaged under a running finalize. *)
LEMMA PaperStep ==
    ASSUME ServerInv, DrillShape, ProvisionKey \/ \E r \in Runs : Expires(r) \/ Rots(r)
    PROVE  ServerInv'
<1> USE DEF ServerInv, AdoptionShape
<1>1. /\ UNCHANGED <<drill, box, gen, shape, auth, writes, plan, art, copy, job, outage, shared>>
      /\ key' \in {key, TRUE}
      /\ trouble' = trouble \/ Trouble
  BY DEF ProvisionKey, Expires, Rots, drillVars, legacyVars, evidenceVars
<1>2. trouble' \in 0 .. MaxTrouble /\ trouble' >= trouble
  BY <1>1, AdoptionAssumption DEF StackShape, Trouble
<1>3. key' \in BOOLEAN /\ box' \in [Services -> {"up", "down"}] /\ outage' \in BOOLEAN
  BY <1>1 DEF StackShape
<1>4. StackShape'
  BY <1>1, <1>2, <1>3, StackKept
<1>5. late' \in [Runs -> SUBSET Dated]
  <2>1. late' = late \/ \E r \in Runs, doc \in Dated : late' = [late EXCEPT ![r] = @ \cup {doc}]
    BY DEF ProvisionKey, Expires, Rots, evidenceVars
  <2> QED
    BY <2>1 DEF FileShape
<1>6. /\ rot' \in [Runs -> SUBSET {"database", "objects", "escrow"}]
      /\ \A c \in Commands : job[c].op = "finalize" => rot'[job[c].run] = rot[job[c].run]
  <2>1. \/ rot' = rot
        \/ \E r \in Runs :
             /\ \A c \in Commands : job[c].op = "finalize" => job[c].run # r
             /\ \E a \in {"database", "objects", "escrow"} : rot' = [rot EXCEPT ![r] = @ \cup {a}]
    BY DEF ProvisionKey, Expires, Rots, evidenceVars, Doing
  <2>2. \A c \in Commands : job[c].op = "finalize" => job[c].run \in Runs
    BY DEF JobShape, Formed
  <2> QED
    BY <2>1, <2>2 DEF FileShape
<1>7. FileShape' /\ OutageInv'
  BY <1>1, <1>5, <1>6 DEF FileShape, OutageInv, Touches, Doing
<1>8. \A q \in Runs : media'[q].archive = media[q].archive
  <2>1. media' = media \/ \E r \in Runs : media' = [media EXCEPT ![r].expired = TRUE]
    BY DEF ProvisionKey, Expires, Rots, drillVars
  <2>2. media \in [Runs -> [challenge : BOOLEAN, expired : BOOLEAN, archive : Archives]]
    BY DEF DrillShape
  <2> QED
    BY <2>1, <2>2
<1>9. \A r \in Runs : Certified(r)' <=> Certified(r)
  BY <1>1 DEF Certified, Done
<1> QED
  BY <1>1, <1>4, <1>6, <1>7, <1>8, <1>9, WorldFrame

(* Somebody recreates, restarts or changes the stack, or authorises a release:
   once the containers are not the planned ones nothing is promised of a backup
   that is being taken, and they never become the planned ones again. *)
LEMMA StackStep ==
    ASSUME ServerInv, LegacyRecreated \/ LegacyRestarted \/ LegacyReshaped \/ NewerRelease
    PROVE  ServerInv'
<1> USE DEF ServerInv, AdoptionShape
<1>1. UNCHANGED <<drillVars, key, writes, evidenceVars, job, shared>>
  BY DEF LegacyRecreated, LegacyRestarted, LegacyReshaped, NewerRelease
<1>2. /\ trouble' \in 0 .. MaxTrouble
      /\ gen' \in 1 .. trouble' + 1 /\ shape' \in 1 .. trouble' + 1 /\ auth' \in 1 .. trouble' + 1
      /\ gen' >= gen /\ auth' >= auth
  BY AdoptionAssumption DEF StackShape, Trouble, LegacyRecreated, LegacyRestarted, LegacyReshaped,
     NewerRelease
<1>3. \/ box' = box /\ outage' = outage
      \/ box' = [s \in Services |-> "up"] /\ outage' = FALSE /\ gen' = gen + 1
      \/ box' = [s \in Services |-> "up"] /\ outage' = FALSE /\ \A c \in Commands : job[c].op = "none"
  <2>1. LegacyRestarted => box' = [s \in Services |-> "up"]
    BY DEF LegacyRestarted, StackShape
  <2> QED
    BY <2>1 DEF LegacyRecreated, LegacyRestarted, LegacyReshaped, NewerRelease, Busy, Doing
<1>4. box' \in [Services -> {"up", "down"}]
  BY <1>3 DEF StackShape
<1>5. outage' \in BOOLEAN
  BY <1>3 DEF StackShape
<1>6. StackShape'
  BY <1>1, <1>2, <1>4, <1>5 DEF StackShape
<1>7. gen \in Nat /\ gen' \in Nat /\ auth \in Nat /\ auth' \in Nat
  BY <1>2 DEF StackShape
<1>8. \A r \in Runs : /\ plan'[r] = plan[r] /\ plan[r].gen \in Nat /\ plan[r].auth \in Nat
                      /\ plan[r].gen <= gen /\ plan[r].auth <= auth
  BY <1>1 DEF evidenceVars, FileShape, PlanRows
<1>9. FileShape'
  <2>1. \A r \in Runs : plan'[r].gen <= gen' /\ plan'[r].auth <= auth'
    BY <1>2, <1>7, <1>8
  <2> QED
    BY <1>1, <2>1 DEF FileShape, evidenceVars
<1>10. \A r \in Runs : gen' = plan[r].gen => gen = plan[r].gen
  BY <1>2, <1>7, <1>8
<1>11. gen' = gen /\ (\E c \in Commands : job[c].op = "prepare") => box' = box
  BY <1>3, <1>7
<1>12. OutageInv'
  BY <1>1, <1>3 DEF OutageInv, Touches, Doing
<1>13. \A r \in Runs : Certified(r)' <=> Certified(r)
  BY <1>1 DEF Certified, Done, drillVars
<1>14. \A c \in Commands : job[c].op = "prepare" /\ Original(job[c].run)
          /\ job[c].at \in {"dump", "archive", "mirror"} /\ gen' = gen
             => box'["api"] = box["api"] /\ writes' = writes
  BY <1>1, <1>11
<1> QED
  BY <1>1, <1>6, <1>9, <1>10, <1>12, <1>13, <1>14, WorldFrame DEF evidenceVars, drillVars

-----------------------------------------------------------------------------
(* The invariant and what follows from it.                                 *)

(* A drill that was done stays done. *)
LEMMA DoneStays ==
    ASSUME DrillShape, DrillNext, NEW d \in Drills, drill[d].pc = "done"
    PROVE  drill'[d].pc = "done" /\ drill'[d].run = drill[d].run
<1>0. drill \in [Drills -> [pc : Stages, run : Runs \cup {NoRun}, cms : Runs \cup {NoRun}]]
  BY DEF DrillShape
<1>1. ASSUME NEW x \in Drills, NEW at, drill[x].pc # "done", Goto(x, at)
      PROVE  drill'[d] = drill[d]
  BY <1>0, <1>1 DEF Goto
<1>2. CASE \E x \in Drills : DrillStep(x) \/ DrillIOFails(x) \/ DrillOpensslFails(x)
  <2>1. PICK x \in Drills : DrillStep(x) \/ DrillIOFails(x) \/ DrillOpensslFails(x)
    BY <1>2
  <2>2. drill[x].pc # "done" /\ \E at : Goto(x, at)
    BY <2>1 DEF DrillStep, DrillExercises, DrillSigns, DrillLocks, DrillWrites, Publish,
       DrillLinksSignature, DrillLinksAttestation, DrillTidies, DrillReleases, DrillUnlinks,
       DrillUnsyncs, DrillUnlocks, DrillIOFails, DrillOpensslFails
  <2> QED
    BY <1>1, <2>2
<1>3. CASE \E x \in Drills, r, cms \in Runs : DrillBegins(x, r, cms)
  BY <1>0, <1>3 DEF DrillBegins
<1>4. CASE DrillPowerLoss
  BY <1>4 DEF DrillPowerLoss, Running
<1> QED
  BY <1>2, <1>3, <1>4 DEF DrillNext

(* The offline host does not touch the server. *)
LEMMA OfflineKeepsServer ==
    ASSUME ServerInv, DrillInv, Offline
    PROVE  ServerInv'
<1> USE DEF ServerInv, AdoptionShape
<1>1. UNCHANGED <<legacyVars, evidenceVars, job, trouble, outage, shared>> /\ DrillNext
  BY DEF Offline
<1>2. media' = media
  BY <1>1 DEF DrillNext, DrillStep, DrillBegins, DrillExercises, DrillSigns, DrillLocks, DrillWrites,
     DrillLinksSignature, DrillLinksAttestation, DrillTidies, DrillReleases, DrillUnlinks,
     DrillUnsyncs, DrillUnlocks, DrillIOFails, DrillOpensslFails, DrillPowerLoss
<1>3. \A r \in Runs : Certified(r) => Certified(r)'
  BY <1>1, DoneStays DEF Certified, Done, DrillInv
<1>4. StackShape' /\ FileShape' /\ OutageInv'
  BY <1>1 DEF StackShape, FileShape, OutageInv, Touches, Doing, legacyVars, evidenceVars
<1> QED
  BY <1>1, <1>2, <1>3, <1>4, WorldFrame DEF legacyVars, evidenceVars

(* Every step of the server, of a drill and of the world keeps the invariant. *)
LEMMA AdoptionInductive == AdoptionInv /\ [AdoptionNext]_adoptionVars => AdoptionInv'
<1>1. ASSUME AdoptionInv, ServerStep PROVE ServerInv'
  <2>1. ServerInv /\ DrillInv /\ DrillShape
    BY <1>1 DEF AdoptionInv, DrillInv
  <2>2. ASSUME NEW c \in Commands, PrepareStep(c) PROVE ServerInv'
    BY <2>1, <2>2, QuiesceStep, CopyStep, PrepareWriteStep, EscrowStep, ChallengeStep, RestoreStep,
       SettleStep DEF PrepareStep
  <2>3. ASSUME NEW c \in Commands, FinalizeStep(c) PROVE ServerInv'
    BY <2>1, <2>3, FinalizeWriteStep, RestoreDrillStep, CleanStep DEF FinalizeStep
  <2>4. ASSUME NEW c \in Commands,
               PrepareFails(c) \/ PrepareCannotRestore(c) \/ FinalizeFails(c) \/ CommandKilled(c)
        PROVE  ServerInv'
    BY <2>1, <2>4, PrepareFailStep, LossStep, RestoreDrillStep
  <2>5. CASE World
    BY <2>1, <2>5, LiveWriteStep, CrashStep, StackStep, PaperStep DEF World
  <2> QED
    BY <1>1, <2>1, <2>2, <2>3, <2>4, <2>5, PlanStep, PrepareBeginStep, FinalizeBeginStep
       DEF ServerStep
<1>2. ASSUME AdoptionInv, ServerStep PROVE AdoptionInv'
  BY <1>1, <1>2, ServerMedia DEF AdoptionInv
<1>3. ASSUME AdoptionInv, Offline PROVE AdoptionInv'
  <2>1. ServerInv /\ DrillInv
    BY <1>3 DEF AdoptionInv
  <2>2. DrillInv'
    BY <1>3, <2>1, OfflineStep DEF Offline
  <2>3. ServerInv'
    BY <1>3, <2>1, OfflineKeepsServer
  <2> QED
    BY <2>2, <2>3 DEF AdoptionInv
<1>4. ASSUME AdoptionInv, UNCHANGED adoptionVars PROVE AdoptionInv'
  <2>1. DrillInv'
    BY <1>4, MediaStep DEF AdoptionInv, DrillInv, DrillShape, adoptionVars, drillVars
  <2>2. ServerInv /\ StackShape' /\ FileShape' /\ OutageInv'
    BY <1>4 DEF AdoptionInv, ServerInv, AdoptionShape, StackShape, FileShape, OutageInv, Touches,
       Doing, adoptionVars, legacyVars, evidenceVars
  <2>3. \A r \in Runs : Certified(r)' <=> Certified(r)
    BY <1>4 DEF Certified, Done, adoptionVars, drillVars
  <2>4. ServerInv'
    BY <1>4, <2>2, <2>3, WorldFrame DEF adoptionVars, drillVars, legacyVars, evidenceVars
  <2> QED
    BY <2>1, <2>4 DEF AdoptionInv
<1> QED
  BY <1>2, <1>3, <1>4 DEF AdoptionNext, ServerStep

(* The invariant above holds of every behaviour of server and drills. *)
LEMMA AdoptionInvariant == AdoptionSpec => []AdoptionInv
BY AdoptionStart, AdoptionInductive, PTL DEF AdoptionSpec

(* What offline_ca_restore_drill.py publishes is a whole pair, at any moment
   and after any power loss, and only for an escrow that works: for any number
   of runs, drills that race for a directory, I/O faults and power losses. *)
THEOREM AttestationAlwaysSound == AdoptionSpec => []AttestationSound
<1>1. ASSUME AdoptionInv PROVE AttestationSound
  <2>1. DrillInv /\ DrillShape /\ PairInv
    BY <1>1 DEF AdoptionInv, DrillInv
  <2>2. AttestationNeverAlone
    BY <2>1 DEF AttestationNeverAlone, PairInv, Seen
  <2>3. AttestedEscrowWorks
    <3> SUFFICES ASSUME NEW r \in Runs, Attested(r) PROVE media[r].archive = "good"
      BY DEF AttestedEscrowWorks
    <3>1. Directory(r) \in Seen(r)
      BY <2>1, DirectorySeen
    <3> QED
      BY <2>1, <3>1 DEF PairInv, Attested
  <2> QED
    BY <2>2, <2>3 DEF AttestationSound
<1> QED
  BY <1>1, AdoptionInvariant, PTL

(* The records of legacy_offline_adoption.py are true whichever command failed,
   was killed or found a changed stack, and however many of them overlap: for any
   number of commands, runs, writes and troubles a prepared backup is of one
   instant unless its prepare met another, signed evidence is backed by a finished
   drill and all its inputs, and the stack is not left down unnoticed. *)
THEOREM BackupAlwaysSound == AdoptionSpec => []BackupSound
<1>1. ASSUME AdoptionInv PROVE BackupSound
  <2>1. /\ DrillInv /\ DrillShape /\ StackShape /\ FileShape /\ JobShape
        /\ FilesInv /\ OutageInv /\ EvidenceInv /\ CommandsInv
    BY <1>1 DEF AdoptionInv, ServerInv, AdoptionShape, FilesInv, DrillInv
  <2>2. DrillTypeOK
    <3>1. \A r \in Runs : \A i \in DOMAIN trail[r] : trail[r][i] \in Entries
      <4> TAKE r \in Runs
      <4>1. trail[r] \in Seq(Entries)
        BY <2>1 DEF DrillShape
      <4> QED
        BY <4>1
    <3>2. \A d \in Drills : /\ drill[d].run \in Runs \cup {NoRun}
                            /\ drill[d].cms \in Runs \cup {NoRun}
                            /\ drill[d].pc \in Stages
      BY <2>1 DEF DrillShape
    <3> QED
      BY <2>1, <3>1, <3>2 DEF DrillTypeOK, DrillShape, Entries, Owners, Stages
  <2>3. AdoptionTypeOK
    <3>1. /\ box \in [Services -> {"up", "down", "gone"}]
          /\ key \in BOOLEAN /\ outage \in BOOLEAN /\ writes \in 0 .. MaxWrites
          /\ trouble \in 0 .. MaxTrouble
      BY <2>1 DEF StackShape
    <3>2. /\ gen \in 1 .. MaxTrouble + 1 /\ shape \in 1 .. MaxTrouble + 1
          /\ auth \in 1 .. MaxTrouble + 1
      BY <2>1, AdoptionAssumption DEF StackShape
    <3>3. \A r \in Runs : /\ art[r] \subseteq Artifacts
                          /\ late[r] \subseteq Dated
                          /\ rot[r] \subseteq {"database", "objects", "escrow"}
                          /\ copy[r].rows \in 0 .. MaxWrites
                          /\ copy[r].blobs \in 0 .. MaxWrites
      BY <2>1 DEF FileShape
    <3>4. \A r \in Runs : plan[r].gen \in 0 .. gen /\ plan[r].auth \in 0 .. auth
      <4> TAKE r \in Runs
      <4>1. plan[r].gen \in Nat /\ plan[r].auth \in Nat
        BY <2>1 DEF FileShape, PlanRows
      <4>2. gen \in Nat /\ auth \in Nat
        BY <2>1 DEF StackShape
      <4> QED
        BY <2>1, <4>1, <4>2 DEF FileShape
    <3>5. \A c \in Commands : /\ job[c].run \in Runs \cup {NoRun}
                              /\ job[c].ok \in BOOLEAN /\ job[c].left \subseteq Services
      BY <2>1 DEF JobShape, JobRows
    <3>6. shared \subseteq Runs
      BY <2>1 DEF FileShape
    <3> QED
      BY <2>2, <3>1, <3>2, <3>3, <3>4, <3>5, <3>6 DEF AdoptionTypeOK
  <2>4. EvidenceIsBacked
    <3> SUFFICES ASSUME NEW r \in Runs, "signature" \in art[r]
                 PROVE  /\ media[r].archive = "good" /\ Attested(r)
                        /\ {"database", "objects", "escrow", "challenge", "prepared",
                            "restored", "evidence"} \subseteq art[r]
      BY DEF EvidenceIsBacked
    <3>1. Certified(r) /\ Inputs \subseteq art[r] /\ Signing \subseteq art[r]
      BY <2>1 DEF EvidenceInv, Signing
    <3>2. media[r].archive = "good" /\ Attested(r)
      BY <2>1, <3>1, CertifiedAttested
    <3> QED
      BY <3>1, <3>2 DEF Inputs, Signing
  <2>5. NoSilentOutage
    BY <2>1 DEF NoSilentOutage, OutageInv, Up, Busy, Touches, Doing
  <2> QED
    BY <2>1, <2>3, <2>4, <2>5 DEF BackupSound, FilesInv
<1> QED
  BY <1>1, AdoptionInvariant, PTL

(* Only the last step of finalize signs. *)
LEMMA SigningStep ==
    ASSUME AdoptionInv, AdoptionNext, NEW r \in Runs, "signature" \in art'[r], "signature" \notin art[r]
    PROVE  \E c \in Commands : job[c].op = "finalize" /\ job[c].run = r /\ job[c].at = "signature"
<1>0. art \in [Runs -> SUBSET Artifacts]
  BY DEF AdoptionInv, ServerInv, AdoptionShape, FileShape
<1>1. ASSUME NEW q, NEW a, Write(q, a) PROVE a = "signature" /\ q = r
  BY <1>0, <1>1 DEF Write
<1>2. art' # art
  OBVIOUS
<1>3. ASSUME NEW q \in Runs PROVE ~MakePlan(q)
  BY <1>2 DEF MakePlan
<1>4. ASSUME NEW c \in Commands, NEW q \in Runs, PrepareBegins(c, q) \/ FinalizeBegins(c, q)
      PROVE  FALSE
  <2>1. ~FinalizeBegins(c, q)
    BY <1>2 DEF FinalizeBegins, evidenceVars
  <2>2. Write(q, "directory")
    BY <1>4, <2>1 DEF PrepareBegins
  <2>3. "directory" = "signature"
    BY <1>1, <2>2
  <2> QED
    BY <2>3
<1>5. ASSUME NEW c \in Commands PROVE ~PrepareStep(c)
  BY <1>1, <1>2 DEF PrepareStep, PrepareStops, PrepareChecks, PrepareDumps, PrepareArchives,
     PrepareMirrors, PrepareSeals, PrepareEscrows, PrepareRestores, PrepareStarts,
     PrepareRecreates, PrepareStopsExtras, PrepareSettles, PrepareChallenges, PrepareBinds,
     evidenceVars
<1>6. ASSUME NEW c \in Commands
      PROVE  ~ (PrepareFails(c) \/ PrepareCannotRestore(c) \/ FinalizeFails(c) \/ CommandKilled(c))
  BY <1>2 DEF PrepareFails, PrepareCannotRestore, FinalizeFails, CommandKilled, evidenceVars
<1>7. ~Offline
  BY <1>2 DEF Offline, evidenceVars
<1>8. ~World
  BY <1>2 DEF World, LegacyWrites, ServerCrashes, ProvisionKey, LegacyRecreated, LegacyRestarted,
     LegacyReshaped, NewerRelease, Expires, Rots, evidenceVars
<1>9. PICK c \in Commands : FinalizeStep(c)
  BY <1>3, <1>4, <1>5, <1>6, <1>7, <1>8 DEF AdoptionNext
<1>10. ~FinalizeCleans(c)
  BY <1>0 DEF FinalizeCleans
<1>11. At(c, "finalize", "signature") /\ job[c].run = r
  BY <1>1, <1>2, <1>9, <1>10 DEF FinalizeStep, FinalizeScratches, FinalizeRestoresRows,
     FinalizeCountsRows, FinalizeRestoresBlobs, FinalizeReadsBlobs, FinalizeWrites, evidenceVars
<1> QED
  BY <1>11 DEF At, Doing

(* What was published stays, and what is signed was restored: for any number of
   runs and drills no rollback and no power loss removes a committed pair, and
   finalize never signs over a damaged dump or mirror. *)
THEOREM EvidenceAlwaysStays == AdoptionSpec => EvidenceStays
<1> DEFINE Kept == \A r \in Runs : \A d \in Drills :
          drill[d].pc = "done" /\ drill[d].run = r
             => Directory(r)'.att = d /\ Directory(r)'.sig = d
           Restored == \A r \in Runs : "signature" \in art'[r] \ art[r]
                           => rot[r] \cap {"database", "objects"} = {}
<1>1. ASSUME AdoptionInv, AdoptionInv', [AdoptionNext]_adoptionVars PROVE Kept
  <2> SUFFICES ASSUME NEW r \in Runs, NEW d \in Drills, drill[d].pc = "done", drill[d].run = r
               PROVE  Directory(r)'.att = d /\ Directory(r)'.sig = d
    OBVIOUS
  <2>1. drill' = drill \/ DrillNext
    BY <1>1 DEF AdoptionNext, adoptionVars, drillVars, Offline, MakePlan, PrepareBegins, FinalizeBegins,
       PrepareStep, PrepareStops, PrepareChecks, PrepareDumps, PrepareArchives, PrepareMirrors,
       PrepareSeals, PrepareEscrows, PrepareRestores, PrepareStarts, PrepareRecreates,
       PrepareStopsExtras, PrepareSettles, PrepareChallenges, PrepareBinds, PrepareFails,
       PrepareCannotRestore, FinalizeFails, CommandKilled,
       FinalizeStep, FinalizeScratches, FinalizeRestoresRows, FinalizeCountsRows,
       FinalizeRestoresBlobs, FinalizeReadsBlobs, FinalizeCleans, FinalizeWrites,
       World, LegacyWrites, ServerCrashes, ProvisionKey, LegacyRecreated, LegacyRestarted,
       LegacyReshaped, NewerRelease, Expires, Rots
  <2>2. drill'[d].pc = "done" /\ drill'[d].run = r
    BY <1>1, <2>1, DoneStays DEF AdoptionInv, DrillInv
  <2>3. Stands(d)' /\ DrillShape'
    BY <1>1 DEF AdoptionInv, DrillInv
  <2>4. Directory(r)' \in Seen(r)'
    <3>1. trail'[r] \in Seq(Entries) /\ trail'[r] # <<>>
      BY <2>3 DEF DrillShape
    <3>2. Len(trail'[r]) \in DOMAIN trail'[r]
      BY <3>1
    <3> QED
      BY <3>2 DEF Directory, Seen, Last
  <2> QED
    BY <2>2, <2>3, <2>4 DEF Stands
<1>2. ASSUME AdoptionInv, [AdoptionNext]_adoptionVars PROVE Restored
  <2> SUFFICES ASSUME NEW r \in Runs, "signature" \in art'[r], "signature" \notin art[r]
               PROVE  rot[r] \cap {"database", "objects"} = {}
    OBVIOUS
  <2>1. AdoptionNext
    BY <1>2 DEF adoptionVars, evidenceVars
  <2>2. PICK c \in Commands : /\ job[c].op = "finalize" /\ job[c].run = r
                              /\ job[c].at = "signature"
    BY <1>2, <2>1, SigningStep
  <2> QED
    BY <1>2, <2>2 DEF AdoptionInv, ServerInv, CommandsInv, FinalizeInv, Signing
<1>3. AdoptionInv /\ AdoptionInv' /\ [AdoptionNext]_adoptionVars => [Kept]_drillVars /\ [Restored]_adoptionVars
  BY <1>1, <1>2
<1>4. CommittedPairStays <=> [][Kept]_drillVars
  BY DEF CommittedPairStays
<1>5. SignedBackupRestores <=> [][Restored]_adoptionVars
  BY DEF SignedBackupRestores
<1> HIDE DEF Kept, Restored
<1> QED
  BY <1>3, <1>4, <1>5, AdoptionInvariant, PTL DEF AdoptionSpec, EvidenceStays


-----------------------------------------------------------------------------
(* The inductive invariant of the cut-over.                                *)

CutoverCommands == {"none", "adopt", "retire", "install", "abort", "reactivate"}
HolderSteps == EntrySteps \cup RetireSteps \cup InstallSteps \cup AbortSteps
                   \cup ReactivateSteps \cup {"none"}
StateFiles == [install : Phases \cup {"none"}, active : BOOLEAN,
               intent : {"none", "install", "maintenance"}, same : BOOLEAN,
               installed : BOOLEAN, old : BOOLEAN]
HolderRecords == [cmd : CutoverCommands, at : HolderSteps, trap : BOOLEAN, retired : BOOLEAN,
                  archiving : BOOLEAN, needs : BOOLEAN, authority : BOOLEAN]
TxRecords == [receipt : {"none", "intent", "final"}, ids : 0 .. 2, bound : StateFiles,
              journal : BOOLEAN, archive : {"none", "pending", "final", "failed"},
              abort : {"none", "pending", "final"},
              kept : SUBSET {"state", "intent", "units"},
              phase : Phases \cup {"none"}, completion : {"none", "pending", "final"}]
LegacyRecords == [box : [LegacyServices -> Boxes], net : BOOLEAN, gen : 1 .. 2]
TargetRecords == [box : [TargetServices -> Boxes], net : BOOLEAN, marker : BOOLEAN,
                  contract : BOOLEAN]

\* Well formed, with the records that CutoverTypeOK leaves open.
CutoverShape ==
    /\ state \in StateFiles /\ tx \in TxRecords
    /\ legacy \in LegacyRecords /\ target \in TargetRecords
    /\ units \in BOOLEAN /\ schema \in {"source", "target"}
    /\ host \in SUBSET Faults /\ invoked \in BOOLEAN
    /\ mishaps \in 0 .. MaxMishaps /\ holder \in HolderRecords

\* Nothing of a target release is in the state directory.
NoTargetFiles(files) ==
    files.install = "none" /\ files.intent = "none" /\ ~files.active /\ ~files.installed

\* Nothing of a target release is on the host.
NoTargetTraces == TargetBoxes = {} /\ ~target.net /\ ~target.marker

\* The state directory shows an install of the target, interrupted or done.
InstallOnRecord == state.install # "none" \/ state.installed

\* The retirement comes first: until its receipt is final nothing of the
\* target exists, and until an abort is final, or once an install is on record
\* again, nothing of the legacy release.
RetireInv ==
    /\ tx.receipt = "none" => legacy.net /\ \A s \in LegacyServices : legacy.box[s] = "up"
    /\ tx.receipt # "none" => NoTargetFiles(tx.bound)
    /\ tx.receipt = "intent" => state = tx.bound
    /\ tx.receipt # "final" => NoTargetFiles(state) /\ NoTargetTraces /\ ~units /\ ~tx.journal
    /\ ~tx.journal => tx.abort = "none" /\ tx.archive = "none"
    /\ tx.receipt = "final" /\ (tx.abort # "final" \/ InstallOnRecord) => LegacyGone

\* The migration: what is on record about it and what it leaves on the host.
MigrationInv ==
    /\ invoked <=> state.install \in ClosedPhases \/ state.installed
    /\ tx.phase \notin ClosedPhases
    /\ schema = "target" => invoked
    /\ state.active \/ target.box["api"] = "up" => schema = "target"
    /\ state.installed => state.active
    /\ ~invoked => \A s \in {"postgres", "api", "proxy"} : target.box[s] = "gone"

\* The documents of the transaction, and the watchdog.
DocumentInv ==
    /\ tx.archive = "failed" => tx.abort = "final"
    /\ tx.completion # "none" => state.installed /\ tx.archive = "final" /\ tx.abort # "final"
    /\ tx.abort = "final" /\ ~InstallOnRecord =>
          /\ TargetBoxes \subseteq {"page"} /\ ~target.marker
          /\ target.box["page"] # "gone" => legacy.box["proxy"] # "up"
    /\ units => target.contract
    /\ tx.abort = "none" /\ ~units => NoTargetTraces
    /\ ~({"proxy", "page"} \subseteq TargetUp)

Aborting == AbortSteps \ {"abort", "abort_verify"}
Restoring == {"abort_verify", "restore"} \cup ReactivateSteps
Archiving == {"archive", "archive_move", "archive_publish"}
Completing == {"complete", "complete_publish"}
Migrating == {"migrate", "upgrade"}
Published == {"completed", "publish", "clear"}
Migrated == {"migrated", "bootstrapped", "core", "core_ready", "proxy", "proxy_started",
             "commit"} \cup Published

\* What the command that holds the lock has made sure of at each step: while
\* it is held neither the watchdog nor another command interferes.
EntryInv ==
    /\ holder.cmd = "none" => holder = LockFree
    /\ holder.retired \/ holder.at \in {"journal", "forward"} => tx.receipt = "final"
    /\ holder.at \in RetireSteps => ~tx.journal
    /\ holder.at \in RetireSteps \ {"retire"} => tx.receipt = "intent"
    /\ holder.at = "journal" /\ ~holder.needs => tx.abort # "final"
    /\ holder.at \in Archiving \cup InstallSteps \cup Completing => tx.journal
    /\ holder.at \in Archiving \cup Completing => tx.abort # "final"
    /\ holder.at \in InstallSteps /\ holder.cmd = "adopt" => tx.abort # "final"
    /\ holder.at = "complete_publish" => tx.completion # "none"
    /\ holder.at \in Restoring => tx.abort = "final"
    /\ holder.at \in {"start", "answer"} => TargetBoxes = {} /\ NoTargetFiles(state)

InstallInv ==
    /\ holder.at \in InstallSteps /\ holder.cmd = "adopt" => tx.archive = "final"
    /\ holder.at \in Completing => tx.archive = "final"
    /\ holder.at \in InstallSteps \ {"install"} => target.box["page"] = "gone"
    /\ holder.at \in InstallSteps \ {"install"} => InstallOnRecord
    /\ holder.at \in InstallSteps \ {"install", "contract"} => target.contract
    /\ holder.at \in InstallSteps \ {"install", "contract", "units"} => units
    /\ holder.at \in Migrating \cup Migrated \cup Completing => invoked
    /\ holder.at = "upgrade" => target.box["postgres"] = "up"
    /\ holder.at \in Migrated => schema = "target"
    /\ holder.at \in Published => state.active

AbortInv ==
    /\ holder.at \in Aborting =>
          /\ tx.journal /\ state.install \notin ClosedPhases /\ ~state.installed
          /\ tx.abort = "pending" /\ ~target.net /\ TargetBoxes \subseteq {"oneoff"}
    /\ holder.at \in Aborting \ {"abort_units", "abort_containers"} => TargetBoxes = {}
    /\ holder.at \in {"abort_host", "abort_state", "abort_intent", "abort_publish"} => ~target.marker
    /\ holder.at \in {"abort_intent", "abort_publish"} => state.install = "none"

CutoverInv ==
    /\ CutoverShape /\ RetireInv /\ MigrationInv /\ DocumentInv
    /\ EntryInv /\ InstallInv /\ AbortInv

USE DEF RetireSteps, ReactivateSteps, InstallSteps, AbortSteps, Aborting, Restoring,
        Archiving, Completing, Migrating, Migrated, Published, InstallOnRecord

-----------------------------------------------------------------------------
(* Facts about the operators of the host.                                  *)

(* The legacy services by name. *)
LEMMA LegacyServiceNames == LegacyServices = {"postgres", "api", "proxy"}
<1>1. DOMAIN LegacyOrder = {1, 2, 3}
  BY DEF LegacyOrder
<1>2. LegacyOrder[1] = "postgres" /\ LegacyOrder[2] = "api" /\ LegacyOrder[3] = "proxy"
  BY DEF LegacyOrder
<1> QED
  BY <1>1, <1>2 DEF LegacyServices

(* The lock is free only between commands. *)
LEMMA LockFreeFacts ==
    /\ LockFree \in HolderRecords
    /\ LockFree.cmd = "none" /\ LockFree.at = "none" /\ ~LockFree.retired /\ ~LockFree.trap
  BY DEF LockFree, HolderRecords, HolderSteps, CutoverCommands

(* A failed command ends, or goes on with the trap or the forward fix. *)
LEMMA FailedFacts ==
    ASSUME CutoverShape, NEW j \in HolderRecords
    PROVE  \/ Failed(j) = LockFree
           \/ /\ Failed(j) \in HolderRecords /\ Failed(j).cmd = j.cmd
              /\ j.cmd = "adopt" /\ j.retired
              /\ Failed(j).at \in {"abort", "forward"}
  BY DEF Failed, HolderRecords, HolderSteps, EntrySteps, AbortSteps

\* What the holder of the lock relies on, as one.
HolderInv == EntryInv /\ InstallInv /\ AbortInv

(* A command that ends or fails leaves nothing to rely on. *)
LEMMA EndsHolding ==
    ASSUME CutoverShape, EntryInv, Fail \/ holder' = LockFree,
           tx.receipt = "final" => tx'.receipt = "final"
    PROVE  holder' \in HolderRecords /\ HolderInv'
<1>1. holder \in HolderRecords
  BY DEF CutoverShape
<1>2. CASE holder' = LockFree
  BY <1>2, LockFreeFacts DEF HolderInv, EntryInv, InstallInv, AbortInv
<1>3. CASE holder' # LockFree
  <2>1. /\ holder' \in HolderRecords /\ holder'.cmd = "adopt"
        /\ holder.retired /\ holder'.at \in {"abort", "forward"}
    BY <1>1, <1>3, FailedFacts DEF Fail
  <2> QED
    BY <2>1 DEF HolderInv, EntryInv, InstallInv, AbortInv
<1> QED
  BY <1>2, <1>3

(* A command goes to its next step. *)
LEMMA GoesToStep ==
    ASSUME CutoverShape, NEW step \in HolderSteps, GoTo(step)
    PROVE  /\ holder' \in HolderRecords /\ holder'.at = step
           /\ holder'.cmd = holder.cmd /\ holder'.retired = holder.retired
           /\ holder'.needs = holder.needs /\ holder'.trap = holder.trap
  BY DEF CutoverShape, GoTo, HolderRecords

(* Only the command itself moves. *)
LEMMA HolderMoves ==
    ASSUME CutoverInv, holder' \in HolderRecords,
           HolderInv', UNCHANGED <<state, tx, legacy, target, units, schema, invoked>>,
           host' \in SUBSET Faults, mishaps' \in 0 .. MaxMishaps
    PROVE  CutoverInv'
<1>1. CutoverShape'
  BY DEF CutoverInv, CutoverShape
<1>2. RetireInv' /\ MigrationInv' /\ DocumentInv'
  BY DEF CutoverInv, RetireInv, MigrationInv, DocumentInv, NoTargetFiles, NoTargetTraces,
     LegacyGone, TargetBoxes, TargetUp
<1> QED
  BY <1>1, <1>2 DEF CutoverInv, HolderInv

(* Stopping services removes none and starts none. *)
LEMMA StopsFacts ==
    ASSUME NEW S, NEW boxes \in [S -> Boxes], NEW services
    PROVE  /\ Stops(boxes, services) \in [S -> Boxes]
           /\ \A s \in S : /\ Stops(boxes, services)[s] = "gone" <=> boxes[s] = "gone"
                           /\ Stops(boxes, services)[s] = "up" => boxes[s] = "up" /\ s \notin services
                           /\ boxes[s] = "up" /\ s \notin services => Stops(boxes, services)[s] = "up"
  BY DEF Stops, Boxes

(* RetireBegins: The signed intent names the legacy containers before the first of them goes. *)
LEMMA RetireBeginsKeeps ==
    ASSUME CutoverInv, RetireBegins
    PROVE  CutoverInv'
<1>1. CutoverShape /\ EntryInv /\ holder.at = "retire" /\ tx \in TxRecords
  BY DEF CutoverInv, CutoverShape, RetireBegins, AtStep
<1>2. CASE ~RetireDryRun
  <2>1. holder' \in HolderRecords /\ HolderInv'
    BY <1>1, <1>2, EndsHolding DEF RetireBegins
  <2> QED
    BY <1>2, <2>1, HolderMoves DEF RetireBegins, CutoverInv, CutoverShape
<1>3. CASE RetireDryRun /\ tx.receipt = "final"
  <2>1. tx' = tx /\ RetireDone
    BY <1>3 DEF RetireBegins
  <2>2. /\ holder' \in HolderRecords
        /\ \/ holder' = LockFree
           \/ holder'.at = "journal" /\ holder'.cmd = "adopt"
    BY <1>1, <2>1, LockFreeFacts DEF CutoverShape, RetireDone, HolderRecords, HolderSteps, EntrySteps
  <2>3. HolderInv'
    BY <1>1, <1>3, <2>1, <2>2, LockFreeFacts
    DEF CutoverInv, RetireInv, HolderInv, EntryInv, InstallInv, AbortInv
  <2> QED
    BY <2>1, <2>2, <2>3, HolderMoves DEF RetireBegins, CutoverInv, CutoverShape
<1>4. CASE RetireDryRun /\ tx.receipt = "intent"
  <2>1. tx' = tx /\ GoTo("retire_stop")
    BY <1>4 DEF RetireBegins
  <2>2. holder' \in HolderRecords /\ HolderInv'
    BY <1>1, <1>4, <2>1, LockFreeFacts, GoesToStep
    DEF HolderInv, EntryInv, InstallInv, AbortInv, HolderSteps
  <2> QED
    BY <2>1, <2>2, HolderMoves DEF RetireBegins, CutoverInv, CutoverShape
<1>5. CASE RetireDryRun /\ tx.receipt = "none"
  <2>1. /\ tx' = SignedIntent /\ GoTo("retire_stop")
        /\ UNCHANGED <<state, legacy, target, units, schema, host, mishaps, invoked>>
    BY <1>5 DEF RetireBegins
  <2>2. /\ tx' \in TxRecords /\ tx'.receipt = "intent" /\ tx'.bound = state
        /\ tx'.journal = tx.journal /\ tx'.abort = tx.abort /\ tx'.archive = tx.archive
        /\ tx'.phase = tx.phase /\ tx'.completion = tx.completion
    <3>1. legacy.gen \in 0 .. 2 /\ state \in StateFiles
      BY <1>1 DEF CutoverShape, LegacyRecords
    <3> QED
      BY <1>1, <2>1, <3>1 DEF SignedIntent, TxRecords
  <2>3. CutoverShape'
    BY <1>1, <2>1, <2>2, GoesToStep DEF CutoverShape, HolderSteps
  <2>4. RetireInv' /\ MigrationInv' /\ DocumentInv'
    BY <1>5, <2>1, <2>2 DEF CutoverInv, RetireInv, MigrationInv, DocumentInv, NoTargetFiles,
       NoTargetTraces, LegacyGone, TargetBoxes, TargetUp
  <2>5. HolderInv'
    BY <1>1, <1>5, <2>1, <2>2, LockFreeFacts, GoesToStep
    DEF CutoverInv, RetireInv, HolderInv, EntryInv, InstallInv, AbortInv, HolderSteps
  <2> QED
    BY <2>3, <2>4, <2>5 DEF CutoverInv, HolderInv
<1> QED
  BY <1>1, <1>2, <1>3, <1>4, <1>5 DEF TxRecords

(* RetirePublishes: The receipt becomes final once the last legacy container and the
   network are gone. *)
LEMMA RetirePublishesKeeps ==
    ASSUME CutoverInv, RetirePublishes
    PROVE  CutoverInv'
<1>1. /\ CutoverShape /\ EntryInv /\ holder.at = "retire_publish" /\ holder \in HolderRecords
      /\ UNCHANGED <<state, legacy, target, units, schema, host, mishaps, invoked>>
  BY DEF CutoverInv, CutoverShape, RetirePublishes, AtStep
<1>2. CASE Fail /\ UNCHANGED tx
  BY <1>1, <1>2, EndsHolding, HolderMoves DEF CutoverShape
<1>3. CASE ProjectEmpty /\ RetireDone /\ tx' = [tx EXCEPT !.receipt = "final"]
  <2>1. /\ holder' \in HolderRecords
        /\ \/ holder' = LockFree
           \/ holder'.at = "journal" /\ holder'.cmd = "adopt"
    BY <1>1, <1>3, LockFreeFacts DEF RetireDone, HolderRecords, HolderSteps, EntrySteps
  <2>2. CutoverShape'
    BY <1>1, <1>3, <2>1 DEF CutoverShape, TxRecords
  <2>3. RetireInv' /\ MigrationInv' /\ DocumentInv'
    BY <1>1, <1>3 DEF CutoverInv, CutoverShape, TxRecords, EntryInv, RetireInv, MigrationInv,
       DocumentInv, NoTargetFiles, NoTargetTraces, LegacyGone, ProjectEmpty, TargetBoxes, TargetUp
  <2>4. HolderInv'
    BY <1>1, <1>3, <2>1, LockFreeFacts DEF CutoverInv, CutoverShape, TxRecords, RetireInv,
       HolderInv, EntryInv, InstallInv, AbortInv
  <2> QED
    BY <2>2, <2>3, <2>4 DEF CutoverInv, HolderInv
<1> QED
  BY <1>2, <1>3 DEF RetirePublishes

(* ReactivateStarts: Legacy containers come back only after a final abort, with nothing of
   the target left. *)
LEMMA ReactivateStartsKeeps ==
    ASSUME CutoverInv, ReactivateStarts
    PROVE  CutoverInv'
<1>1. /\ CutoverShape /\ EntryInv /\ holder.at = "start" /\ legacy \in LegacyRecords
      /\ UNCHANGED <<state, tx, target, units, schema, host, mishaps, invoked>>
  BY DEF CutoverInv, CutoverShape, ReactivateStarts, AtStep
<1>2. CASE UNCHANGED legacy
  <2>1. Fail \/ GoTo("answer") \/ holder' = holder
    BY DEF ReactivateStarts
  <2>2. CASE Fail
    BY <1>1, <1>2, <2>2, EndsHolding, HolderMoves DEF CutoverInv, CutoverShape
  <2>3. CASE GoTo("answer")
    <3>1. holder' \in HolderRecords /\ HolderInv'
      BY <1>1, <2>3, GoesToStep, LockFreeFacts
      DEF HolderSteps, HolderInv, EntryInv, InstallInv, AbortInv, TargetBoxes
    <3> QED
      BY <1>1, <1>2, <3>1, HolderMoves DEF CutoverInv, CutoverShape
  <2>4. CASE holder' = holder
    <3>1. HolderInv'
      BY <1>1, <2>4 DEF CutoverInv, HolderInv, EntryInv, InstallInv, AbortInv, TargetBoxes
    <3> QED
      BY <1>1, <1>2, <2>4, <3>1, HolderMoves DEF CutoverInv, CutoverShape
  <2> QED
    BY <2>1, <2>2, <2>3, <2>4
<1>3. CASE legacy' # legacy
  <2>1. PICK s : /\ legacy' = [legacy EXCEPT !.box[s] = "up", !.net = TRUE, !.gen = 2]
                 /\ holder' = holder
    BY <1>3 DEF ReactivateStarts
  <2>2. /\ legacy' \in LegacyRecords
        /\ tx.abort = "final" /\ TargetBoxes = {} /\ ~InstallOnRecord
    <3>1. legacy.box \in [LegacyServices -> Boxes] /\ "up" \in Boxes
      BY <1>1 DEF LegacyRecords, Boxes
    <3>2. [legacy.box EXCEPT ![s] = "up"] \in [LegacyServices -> Boxes]
      BY <3>1, Zenon
    <3>3. 2 \in 1 .. 2
      OBVIOUS
    <3> QED
      BY <1>1, <2>1, <3>2, <3>3 DEF EntryInv, NoTargetFiles, LegacyRecords
  <2>3. tx.receipt = "final" /\ tx.journal
    BY <1>1, <2>2 DEF CutoverInv, CutoverShape, TxRecords, RetireInv
  <2>4. CutoverShape'
    BY <1>1, <2>1, <2>2 DEF CutoverShape
  <2>5. RetireInv' /\ MigrationInv'
    BY <1>1, <2>2, <2>3 DEF CutoverInv, RetireInv, MigrationInv, NoTargetFiles, NoTargetTraces,
       TargetBoxes
  <2>6. DocumentInv'
    BY <1>1, <2>2 DEF CutoverInv, DocumentInv, NoTargetTraces, TargetBoxes, TargetUp, TargetServices
  <2>7. HolderInv'
    BY <1>1, <2>1 DEF CutoverInv, HolderInv, EntryInv, InstallInv, AbortInv, TargetBoxes
  <2> QED
    BY <2>4, <2>5, <2>6, <2>7 DEF CutoverInv, HolderInv
<1> QED
  BY <1>2, <1>3

\* A step that at most stops containers and moves intents and receipts of other
\* releases, after the retirement.
Calms ==
    /\ state' \in StateFiles /\ state'.install = state.install
    /\ state'.active = state.active /\ state'.installed = state.installed
    /\ state' = state \/ tx.receipt = "final"
    /\ legacy' \in LegacyRecords /\ legacy'.net = legacy.net
    /\ legacy' = legacy \/ tx.receipt = "final"
    /\ \A s \in LegacyServices : /\ legacy'.box[s] = "gone" <=> legacy.box[s] = "gone"
                                 /\ legacy'.box[s] = "up" => legacy.box[s] = "up"
    /\ target' \in TargetRecords /\ target'.net = target.net
    /\ target'.marker = target.marker /\ target'.contract = target.contract
    /\ \A s \in TargetServices : /\ target'.box[s] = "gone" <=> target.box[s] = "gone"
                                 /\ target'.box[s] = "up" => target.box[s] = "up"
    /\ UNCHANGED <<tx, units, schema, invoked>>

(* Such a step keeps what is durable, and removes no container. *)
LEMMA CalmsDurable ==
    ASSUME CutoverInv, Calms
    PROVE  RetireInv' /\ MigrationInv' /\ DocumentInv' /\ TargetBoxes' = TargetBoxes
<1>1. TargetBoxes' = TargetBoxes /\ TargetUp' \subseteq TargetUp
  BY DEF Calms, TargetBoxes, TargetUp
<1>2. NoTargetTraces' = NoTargetTraces /\ LegacyGone' = LegacyGone
  BY <1>1 DEF Calms, NoTargetTraces, LegacyGone
<1>3. CutoverShape
  BY DEF CutoverInv
<1>4. RetireInv'
  BY <1>2, <1>3, LegacyServiceNames
  DEF CutoverInv, Calms, RetireInv, NoTargetFiles, CutoverShape, TxRecords
<1>5. MigrationInv'
  BY <1>3 DEF CutoverInv, Calms, MigrationInv, TargetServices
<1>6. DocumentInv'
  BY <1>1, <1>2, LegacyServiceNames DEF CutoverInv, Calms, DocumentInv, TargetServices
<1> QED
  BY <1>1, <1>4, <1>5, <1>6

(* And what the command relies on, when it stays where it is. *)
LEMMA CalmsKeeps ==
    ASSUME CutoverInv, Calms, holder' \in HolderRecords, HolderInv',
           host' \in SUBSET Faults, mishaps' \in 0 .. MaxMishaps
    PROVE  CutoverInv'
<1>1. CutoverShape'
  BY DEF CutoverInv, CutoverShape, Calms
<1> QED
  BY <1>1, CalmsDurable DEF CutoverInv, HolderInv

(* Stopping target services. *)
LEMMA StopsCalms ==
    ASSUME CutoverInv, NEW services, target' = [target EXCEPT !.box = Stops(@, services)],
           UNCHANGED <<state, tx, legacy, units, schema, invoked>>
    PROVE  Calms
<1>1. /\ target \in TargetRecords /\ target.box \in [TargetServices -> Boxes]
      /\ state \in StateFiles /\ legacy \in LegacyRecords
  BY DEF CutoverInv, CutoverShape, TargetRecords
<1>2. /\ target' \in TargetRecords /\ target'.box = Stops(target.box, services)
      /\ target'.net = target.net /\ target'.marker = target.marker
      /\ target'.contract = target.contract
  BY <1>1, StopsFacts DEF TargetRecords
<1> QED
  BY <1>1, <1>2, StopsFacts DEF Calms

(* A failed install, owned or not. *)
LEMMA InstallFailsCalms ==
    ASSUME CutoverInv, NEW owned \in BOOLEAN, InstallFails(owned),
           UNCHANGED <<state, tx, legacy, units, schema, invoked>>
    PROVE  Calms /\ holder' \in HolderRecords /\ HolderInv'
<1>1. CutoverShape /\ EntryInv /\ Fail /\ target \in TargetRecords
  BY DEF CutoverInv, CutoverShape, InstallFails
<1>2. CASE owned
  <2>1. target' = [target EXCEPT !.box = Stops(@, Business)]
    BY <1>2 DEF InstallFails
  <2> QED
    BY <1>1, <2>1, StopsCalms, EndsHolding
<1>3. CASE ~owned
  <2>1. target' = target
    BY <1>1, <1>3 DEF InstallFails, TargetRecords
  <2>2. Calms
    BY <2>1 DEF Calms, CutoverInv, CutoverShape
  <2> QED
    BY <1>1, <2>2, EndsHolding
<1> QED
  BY <1>2, <1>3

(* InstallBegins: A first install, a resumed one and one that refuses: no phase on record
   goes back. *)
LEMMA InstallBeginsKeeps ==
    ASSUME CutoverInv, InstallBegins
    PROVE  CutoverInv'
<1>1. /\ CutoverShape /\ EntryInv /\ holder.at = "install" /\ holder \in HolderRecords
      /\ state \in StateFiles /\ target \in TargetRecords /\ holder.cmd # "none"
      /\ tx.journal /\ tx.receipt = "final"
      /\ holder.cmd = "adopt" => tx.abort # "final" /\ tx.archive = "final"
      /\ UNCHANGED <<tx, legacy, units, schema, host, mishaps, invoked>>
  BY LockFreeFacts DEF CutoverInv, CutoverShape, InstallBegins, AtStep, EntryInv, InstallInv, RetireInv
<1>2. CASE /\ state.installed /\ HandoffVerified /\ ~state.old
           /\ state' = ClearIntent(state) /\ Installed /\ UNCHANGED target
  <2>1. Calms
    BY <1>1, <1>2 DEF Calms, ClearIntent, StateFiles, CutoverShape
  <2>2. /\ holder' \in HolderRecords
        /\ holder' = LockFree \/ (holder'.at = "complete" /\ holder'.cmd = "adopt"
                                     /\ holder.cmd = "adopt" /\ holder'.retired = holder.retired)
    BY <1>1, <1>2, LockFreeFacts DEF Installed, HolderRecords, HolderSteps, EntrySteps
  <2>3. invoked
    BY <1>2 DEF CutoverInv, MigrationInv
  <2>4. HolderInv'
    BY <1>1, <2>2, <2>3, LockFreeFacts DEF HolderInv, EntryInv, InstallInv, AbortInv
  <2> QED
    BY <1>1, <2>1, <2>2, <2>4, CalmsKeeps DEF CutoverShape
<1>3. CASE /\ ResumeResources /\ GoTo("contract") /\ UNCHANGED state /\ state.install # "none"
           /\ target' = [target EXCEPT !.box = [Stops(@, Business) EXCEPT !["oneoff"] = "gone"]]
  <2>1. target.box \in [TargetServices -> Boxes] /\ "oneoff" \in TargetServices /\ "gone" \in Boxes
    BY <1>1 DEF TargetRecords, TargetServices, Boxes
  <2>2. /\ Stops(target.box, Business) \in [TargetServices -> Boxes]
        /\ target'.box = [Stops(target.box, Business) EXCEPT !["oneoff"] = "gone"]
        /\ target' \in TargetRecords
        /\ target'.net = target.net /\ target'.marker = target.marker
        /\ target'.contract = target.contract
    BY <1>1, <1>3, <2>1, StopsFacts DEF TargetRecords
  <2>3. \A s \in TargetServices : /\ target.box[s] = "gone" => target'.box[s] = "gone"
                                  /\ target'.box[s] = "up" => target.box[s] = "up"
    BY <2>1, <2>2, StopsFacts
  <2>4. TargetBoxes' \subseteq TargetBoxes /\ TargetUp' \subseteq TargetUp
    BY <2>3 DEF TargetBoxes, TargetUp
  <2>5. CutoverShape'
    BY <1>1, <1>3, <2>2, GoesToStep DEF CutoverShape, HolderSteps
  <2>6. RetireInv' /\ MigrationInv'
    BY <1>1, <1>3, <2>2, <2>3, <2>4 DEF CutoverInv, RetireInv, MigrationInv, NoTargetFiles,
       NoTargetTraces, LegacyGone, TargetServices
  <2>7. DocumentInv'
    BY <1>1, <1>3, <2>2, <2>3, <2>4 DEF CutoverInv, DocumentInv, NoTargetTraces
  <2>8. HolderInv'
    BY <1>1, <1>3, <2>3, GoesToStep
    DEF ResumeResources, HolderInv, EntryInv, InstallInv, AbortInv, HolderSteps, TargetServices
  <2> QED
    BY <2>5, <2>6, <2>7, <2>8 DEF CutoverInv, HolderInv
<1>4. CASE /\ ~state.installed /\ state.install = "none" /\ ProjectEmpty
           /\ state' = [state EXCEPT !.install = "prepared"] /\ GoTo("contract") /\ UNCHANGED target
  <2>1. /\ state' \in StateFiles /\ state'.install = "prepared"
        /\ state'.installed = state.installed /\ state'.active = state.active
    BY <1>1, <1>4 DEF StateFiles, Phases, OpenPhases
  <2>2. CutoverShape'
    BY <1>1, <1>4, <2>1, GoesToStep DEF CutoverShape, HolderSteps
  <2>3. RetireInv' /\ MigrationInv'
    BY <1>1, <1>4, <2>1 DEF CutoverInv, RetireInv, MigrationInv, ClosedPhases, NoTargetTraces,
       ProjectEmpty, LegacyGone, TargetBoxes
  <2>4. DocumentInv'
    BY <1>1, <1>4, <2>1 DEF CutoverInv, DocumentInv, NoTargetTraces, TargetBoxes, TargetUp
  <2>5. HolderInv'
    BY <1>1, <1>4, GoesToStep
    DEF HolderInv, EntryInv, InstallInv, AbortInv, HolderSteps, ProjectEmpty, TargetBoxes,
        TargetServices
  <2> QED
    BY <2>2, <2>3, <2>4, <2>5 DEF CutoverInv, HolderInv
<1>5. CASE InstallFails(StateOwned) /\ UNCHANGED state
  <2>1. StateOwned \in BOOLEAN
    BY DEF StateOwned
  <2> QED
    BY <1>1, <1>5, <2>1, InstallFailsCalms, CalmsKeeps DEF CutoverShape
<1> QED
  BY <1>2, <1>3, <1>4, <1>5 DEF InstallBegins

(* InstallPublishesIntent: The install intent is written, or the install fails; containers
   are only stopped. *)
LEMMA InstallPublishesIntentKeeps ==
    ASSUME CutoverInv, InstallPublishesIntent
    PROVE  CutoverInv'
<1>1. /\ CutoverShape /\ EntryInv /\ holder.at = "intent" /\ holder.cmd # "none"
      /\ state \in StateFiles /\ target \in TargetRecords /\ legacy \in LegacyRecords
      /\ tx.receipt = "final"
      /\ UNCHANGED <<tx, legacy, units, schema, host, mishaps, invoked>>
  BY LockFreeFacts
  DEF CutoverInv, CutoverShape, InstallPublishesIntent, AtStep, EntryInv, RetireInv
<1>2. /\ SettledFiles \in StateFiles /\ SettledFiles.install = state.install
      /\ SettledFiles.active = state.active /\ SettledFiles.installed = state.installed
  BY <1>1 DEF SettledFiles, ClearIntent, StateFiles
<1>3. CASE state' = WriteIntent(SettledFiles, "install") /\ GoTo("preflight") /\ UNCHANGED target
  <2>1. /\ state' \in StateFiles /\ state'.install = state.install
        /\ state'.active = state.active /\ state'.installed = state.installed
    BY <1>2, <1>3 DEF WriteIntent, StateFiles
  <2>2. Calms
    BY <1>1, <1>3, <2>1 DEF Calms
  <2>3. holder' \in HolderRecords /\ HolderInv'
    BY <1>1, <1>3, <2>1, GoesToStep
    DEF CutoverInv, HolderInv, EntryInv, InstallInv, AbortInv, HolderSteps
  <2> QED
    BY <1>1, <2>2, <2>3, CalmsKeeps DEF CutoverShape
<1>4. CASE InstallFails(TRUE) /\ state' = SettledFiles
  <2>1. target' = [target EXCEPT !.box = Stops(@, Business)] /\ Fail
    BY <1>4 DEF InstallFails
  <2>2. /\ target.box \in [TargetServices -> Boxes] /\ target' \in TargetRecords
        /\ target'.box = Stops(target.box, Business) /\ target'.net = target.net
        /\ target'.marker = target.marker /\ target'.contract = target.contract
    BY <1>1, <2>1, StopsFacts DEF TargetRecords
  <2>3. Calms
    BY <1>1, <1>2, <1>4, <2>2, StopsFacts DEF Calms
  <2>4. holder' \in HolderRecords /\ HolderInv'
    BY <1>1, <2>1, EndsHolding
  <2> QED
    BY <1>1, <2>3, <2>4, CalmsKeeps DEF CutoverShape
<1> QED
  BY <1>3, <1>4 DEF InstallPublishesIntent

(* ReconcileIntent: The watchdog closes the edge for an intent and puts the maintenance page up. *)
LEMMA ReconcileIntentKeeps ==
    ASSUME CutoverInv, ReconcileIntent
    PROVE  CutoverInv'
<1>1. /\ CutoverShape /\ holder = LockFree /\ units
      /\ legacy \in LegacyRecords /\ target \in TargetRecords
      /\ legacy' = [legacy EXCEPT !.box = Closed(@)]
      /\ UNCHANGED <<state, tx, units, schema, host, holder, mishaps, invoked>>
  BY DEF CutoverInv, CutoverShape, ReconcileIntent
<1>2. tx.receipt = "final"
  BY <1>1 DEF CutoverInv, RetireInv
<1>3. /\ legacy.box \in [LegacyServices -> Boxes] /\ legacy' \in LegacyRecords
      /\ legacy'.box = Stops(legacy.box, Business \cup {"oneoff"}) /\ legacy'.net = legacy.net
  BY <1>1, StopsFacts DEF Closed, LegacyRecords
<1>4. /\ target.box \in [TargetServices -> Boxes] /\ Closed(target.box) \in [TargetServices -> Boxes]
      /\ Closed(target.box) = Stops(target.box, Business \cup {"oneoff"})
  BY <1>1, StopsFacts DEF Closed, TargetRecords
<1>5. HolderInv'
  BY <1>1, LockFreeFacts DEF HolderInv, EntryInv, InstallInv, AbortInv
<1>6. CASE target' = [target EXCEPT !.box = Closed(@)]
  <2>1. /\ target' \in TargetRecords /\ target'.box = Closed(target.box)
        /\ target'.net = target.net /\ target'.marker = target.marker
        /\ target'.contract = target.contract
    BY <1>1, <1>4, <1>6 DEF TargetRecords
  <2>2. Calms
    BY <1>1, <1>2, <1>3, <1>4, <2>1, StopsFacts DEF Calms, CutoverShape
  <2> QED
    BY <1>1, <1>5, <2>2, CalmsKeeps DEF CutoverShape
<1>7. CASE target' = [target EXCEPT !.box = [Closed(@) EXCEPT !["page"] = "up"], !.net = TRUE]
  <2>1. /\ target' \in TargetRecords
        /\ target'.box = [Closed(target.box) EXCEPT !["page"] = "up"]
        /\ target'.marker = target.marker /\ target'.contract = target.contract
    BY <1>1, <1>4, <1>7 DEF TargetRecords, Boxes
  <2>2. \A s \in TargetServices \ {"page"} :
            /\ target'.box[s] = "gone" <=> target.box[s] = "gone"
            /\ target'.box[s] = "up" => target.box[s] = "up" /\ s \notin Business
    BY <1>4, <2>1, StopsFacts
  <2>3. /\ \A s \in LegacyServices : legacy.box[s] = "gone" => legacy'.box[s] = "gone"
        /\ legacy'.box["proxy"] # "up"
    BY <1>3, StopsFacts, LegacyServiceNames DEF Business
  <2>4. CutoverShape'
    BY <1>1, <1>3, <2>1 DEF CutoverShape
  <2>5. RetireInv'
    BY <1>1, <1>2, <1>3, <2>3 DEF CutoverInv, RetireInv, LegacyGone
  <2>6. MigrationInv'
    BY <1>1, <2>2 DEF CutoverInv, MigrationInv, TargetServices
  <2>7. TargetBoxes' \subseteq TargetBoxes \cup {"page"} /\ "proxy" \notin TargetUp'
    BY <2>2 DEF TargetBoxes, TargetUp, TargetServices, Business
  <2>8. DocumentInv'
    BY <1>1, <2>1, <2>3, <2>7 DEF CutoverInv, DocumentInv
  <2> QED
    BY <1>5, <2>4, <2>5, <2>6, <2>8 DEF CutoverInv, HolderInv
<1> QED
  BY <1>6, <1>7 DEF ReconcileIntent

(* ReconcileInvalid: The watchdog closes the edge where it cannot trust the files. *)
LEMMA ReconcileInvalidKeeps ==
    ASSUME CutoverInv, ReconcileInvalid
    PROVE  CutoverInv'
<1>1. /\ CutoverShape /\ holder = LockFree /\ units
      /\ legacy \in LegacyRecords /\ target \in TargetRecords
      /\ legacy' = [legacy EXCEPT !.box = Closed(@)] /\ target' = [target EXCEPT !.box = Closed(@)]
      /\ UNCHANGED <<state, tx, units, schema, host, holder, mishaps, invoked>>
  BY DEF CutoverInv, CutoverShape, ReconcileInvalid
<1>2. tx.receipt = "final"
  BY <1>1 DEF CutoverInv, RetireInv
<1>3. /\ legacy.box \in [LegacyServices -> Boxes] /\ legacy' \in LegacyRecords
      /\ legacy'.box = Stops(legacy.box, Business \cup {"oneoff"}) /\ legacy'.net = legacy.net
  BY <1>1, StopsFacts DEF Closed, LegacyRecords
<1>4. /\ target.box \in [TargetServices -> Boxes] /\ target' \in TargetRecords
      /\ target'.box = Stops(target.box, Business \cup {"oneoff"}) /\ target'.net = target.net
      /\ target'.marker = target.marker /\ target'.contract = target.contract
  BY <1>1, StopsFacts DEF Closed, TargetRecords
<1>5. Calms
  BY <1>1, <1>2, <1>3, <1>4, StopsFacts DEF Calms, CutoverShape
<1>6. HolderInv'
  BY <1>1, LockFreeFacts DEF HolderInv, EntryInv, InstallInv, AbortInv
<1> QED
  BY <1>1, <1>5, <1>6, CalmsKeeps DEF CutoverShape

(* WatchdogFails: A stop that fails leaves a smaller set of services stopped. *)
LEMMA WatchdogFailsKeeps ==
    ASSUME CutoverInv, WatchdogFails
    PROVE  CutoverInv'
<1>1. /\ CutoverShape /\ holder = LockFree /\ units
      /\ legacy \in LegacyRecords /\ target \in TargetRecords
      /\ UNCHANGED <<state, tx, units, schema, host, holder, invoked>>
  BY DEF CutoverInv, CutoverShape, WatchdogFails
<1>2. tx.receipt = "final" /\ mishaps' \in 0 .. MaxMishaps
  BY <1>1, MishapAssumption DEF CutoverInv, CutoverShape, RetireInv, WatchdogFails, Mishap
<1>3. PICK stopped \in {{"proxy"}, Business} :
          /\ legacy' = [legacy EXCEPT !.box = Stops(@, stopped)]
          /\ target' = [target EXCEPT !.box = Stops(@, stopped)]
  BY DEF WatchdogFails
<1>4. /\ legacy.box \in [LegacyServices -> Boxes] /\ legacy' \in LegacyRecords
      /\ legacy'.box = Stops(legacy.box, stopped) /\ legacy'.net = legacy.net
  BY <1>1, <1>3, StopsFacts DEF LegacyRecords
<1>5. /\ target.box \in [TargetServices -> Boxes] /\ target' \in TargetRecords
      /\ target'.box = Stops(target.box, stopped) /\ target'.net = target.net
      /\ target'.marker = target.marker /\ target'.contract = target.contract
  BY <1>1, <1>3, StopsFacts DEF TargetRecords
<1>6. Calms
  BY <1>1, <1>2, <1>4, <1>5, StopsFacts DEF Calms, CutoverShape
<1>7. HolderInv'
  BY <1>1, LockFreeFacts DEF HolderInv, EntryInv, InstallInv, AbortInv
<1> QED
  BY <1>1, <1>2, <1>6, <1>7, CalmsKeeps DEF CutoverShape

(* ReconcileActive: The watchdog starts or closes the active release, whose migration was
   announced. *)
LEMMA ReconcileActiveKeeps ==
    ASSUME CutoverInv, ReconcileActive
    PROVE  CutoverInv'
<1>1. /\ CutoverShape /\ holder = LockFree /\ units
      /\ state \in StateFiles /\ legacy \in LegacyRecords /\ target \in TargetRecords
      /\ UNCHANGED <<tx, legacy, units, schema, host, holder, mishaps, invoked>>
  BY DEF CutoverInv, CutoverShape, ReconcileActive
<1>2. tx.receipt = "final" /\ state.active
  BY <1>1 DEF CutoverInv, RetireInv, ReconcileActive, Selection, ActiveOnRecord
<1>3. schema = "target" /\ invoked /\ InstallOnRecord
  BY <1>2 DEF CutoverInv, MigrationInv, ClosedPhases
<1>4. HolderInv'
  BY <1>1, LockFreeFacts DEF HolderInv, EntryInv, InstallInv, AbortInv
<1>5. CASE state' = (IF state.intent # "none" THEN ClearIntent(state) ELSE state) /\ UNCHANGED target
  <2>1. Calms
    BY <1>1, <1>2, <1>5 DEF Calms, ClearIntent, StateFiles
  <2> QED
    BY <1>1, <1>4, <2>1, CalmsKeeps DEF CutoverShape
<1>6. CASE /\ target' = [target EXCEPT !.net = TRUE, !.box =
                  [s \in TargetServices |-> CASE s = "page" -> "gone"
                                             [] s = "oneoff" -> target.box[s]
                                             [] OTHER -> "up"]]
           /\ UNCHANGED state
  <2>1. target.box["oneoff"] \in Boxes
    BY <1>1 DEF TargetRecords, TargetServices
  <2>2. /\ target' \in TargetRecords /\ target'.box["page"] = "gone"
        /\ target'.contract = target.contract
    BY <1>1, <1>6, <2>1 DEF TargetRecords, TargetServices, Boxes
  <2>3. CutoverShape'
    BY <1>1, <1>6, <2>2 DEF CutoverShape
  <2>4. RetireInv' /\ MigrationInv'
    BY <1>1, <1>2, <1>3, <1>6 DEF CutoverInv, RetireInv, MigrationInv, LegacyGone
  <2>5. DocumentInv'
    BY <1>1, <1>3, <1>6, <2>2 DEF CutoverInv, DocumentInv, TargetUp
  <2> QED
    BY <1>4, <2>3, <2>4, <2>5 DEF CutoverInv, HolderInv
<1>7. CASE target' = [target EXCEPT !.box = Closed(@)] /\ UNCHANGED state
  <2>1. target' = [target EXCEPT !.box = Stops(@, Business \cup {"oneoff"})]
    BY <1>7 DEF Closed
  <2> QED
    BY <1>1, <1>4, <1>7, <2>1, StopsCalms, CalmsKeeps DEF CutoverShape
<1> QED
  BY <1>5, <1>6, <1>7 DEF ReconcileActive

(* AbortArchivesState: The install record goes into the abort archive: it is before the boundary. *)
LEMMA AbortArchivesStateKeeps ==
    ASSUME CutoverInv, AbortArchivesState
    PROVE  CutoverInv'
<1>1. /\ CutoverShape /\ holder.at = "abort_state" /\ GoTo("abort_intent") /\ holder.cmd # "none"
      /\ state \in StateFiles /\ tx \in TxRecords
      /\ UNCHANGED <<legacy, target, units, schema, host, mishaps, invoked>>
  BY LockFreeFacts DEF CutoverInv, CutoverShape, AbortArchivesState, AtStep, EntryInv
<1>2. /\ tx.journal /\ tx.receipt = "final" /\ tx.abort = "pending" /\ ~state.installed
      /\ state.install \notin ClosedPhases /\ ~invoked
  BY <1>1 DEF CutoverInv, RetireInv, MigrationInv, AbortInv
<1>3. /\ state' \in StateFiles /\ state'.install = "none"
      /\ state'.active = state.active /\ state'.installed = state.installed
  BY <1>1 DEF AbortArchivesState, StateFiles
<1>4. /\ tx' \in TxRecords /\ tx'.phase \notin ClosedPhases /\ tx'.receipt = tx.receipt
      /\ tx'.journal = tx.journal /\ tx'.abort = tx.abort /\ tx'.archive = tx.archive
      /\ tx'.completion = tx.completion /\ tx'.bound = tx.bound
  <2>1. CASE state.install # "none"
    <3>1. tx' = [tx EXCEPT !.kept = @ \cup {"state"}, !.phase = state.install]
      BY <2>1 DEF AbortArchivesState
    <3>2. state.install \in Phases
      BY <1>1, <2>1 DEF StateFiles
    <3> QED
      BY <1>1, <1>2, <3>1, <3>2 DEF TxRecords
  <2>2. CASE state.install = "none"
    BY <1>1, <2>2 DEF CutoverInv, MigrationInv, AbortArchivesState
  <2> QED
    BY <2>1, <2>2
<1>5. CutoverShape'
  BY <1>1, <1>3, <1>4, GoesToStep DEF CutoverShape, HolderSteps
<1>6. RetireInv' /\ MigrationInv'
  BY <1>1, <1>2, <1>3, <1>4 DEF CutoverInv, RetireInv, MigrationInv, NoTargetFiles, LegacyGone,
     ClosedPhases
<1>7. DocumentInv'
  BY <1>1, <1>2, <1>3, <1>4 DEF CutoverInv, DocumentInv, NoTargetTraces, TargetBoxes, TargetUp
<1>8. HolderInv'
  BY <1>1, <1>2, <1>3, <1>4, GoesToStep
  DEF CutoverInv, HolderInv, EntryInv, InstallInv, AbortInv, HolderSteps, TargetBoxes, ClosedPhases
<1> QED
  BY <1>5, <1>6, <1>7, <1>8 DEF CutoverInv, HolderInv

(* WriteJournal: The journal is written over a final receipt only. *)
LEMMA WriteJournalKeeps ==
    ASSUME CutoverInv, WriteJournal
    PROVE  CutoverInv'
<1>1. /\ CutoverShape /\ EntryInv /\ holder.at = "journal" /\ tx.receipt = "final"
      /\ tx \in TxRecords /\ holder \in HolderRecords /\ holder.cmd # "none"
      /\ UNCHANGED <<state, legacy, target, units, schema, host, mishaps, invoked>>
  BY LockFreeFacts DEF CutoverInv, CutoverShape, WriteJournal, AtStep, EntryInv
<1>2. CASE Fail /\ UNCHANGED tx
  BY <1>1, <1>2, EndsHolding, HolderMoves DEF CutoverShape
<1>3. CASE ReceiptVerifies /\ HostIsolated
  <2>1. /\ tx' = [tx EXCEPT !.journal = TRUE]
        /\ holder' = IF holder.needs
                     THEN [holder EXCEPT !.archiving = TRUE,
                               !.at = IF tx.abort = "final" THEN "restore" ELSE "abort"]
                     ELSE [holder EXCEPT !.at = "archive"]
    BY <1>3 DEF WriteJournal
  <2>2. /\ tx' \in TxRecords /\ tx'.journal /\ tx'.receipt = "final" /\ tx'.bound = tx.bound
        /\ tx'.abort = tx.abort /\ tx'.archive = tx.archive /\ tx'.phase = tx.phase
        /\ tx'.completion = tx.completion
    BY <1>1, <2>1 DEF TxRecords
  <2>3. /\ holder' \in HolderRecords /\ holder'.cmd = holder.cmd /\ holder'.retired = holder.retired
        /\ \/ holder.needs /\ holder'.at = "restore" /\ tx.abort = "final"
           \/ holder.needs /\ holder'.at = "abort"
           \/ ~holder.needs /\ holder'.at = "archive"
    BY <1>1, <2>1 DEF HolderRecords, HolderSteps, EntrySteps
  <2>4. CutoverShape'
    BY <1>1, <2>2, <2>3 DEF CutoverShape
  <2>5. RetireInv' /\ MigrationInv' /\ DocumentInv'
    BY <1>1, <2>2 DEF CutoverInv, RetireInv, MigrationInv, DocumentInv, NoTargetFiles,
       NoTargetTraces, LegacyGone, TargetBoxes, TargetUp
  <2>6. HolderInv'
    BY <1>1, <2>2, <2>3 DEF HolderInv, EntryInv, InstallInv, AbortInv
  <2> QED
    BY <2>4, <2>5, <2>6 DEF CutoverInv, HolderInv
<1> QED
  BY <1>2, <1>3 DEF WriteJournal

(* ArchiveOpens: The archive of legacy receipts is opened once, before the install. *)
LEMMA ArchiveOpensKeeps ==
    ASSUME CutoverInv, ArchiveOpens
    PROVE  CutoverInv'
<1>1. /\ CutoverShape /\ EntryInv /\ holder.at = "archive" /\ tx.journal /\ tx.abort # "final"
      /\ tx \in TxRecords /\ holder \in HolderRecords /\ holder.cmd # "none"
      /\ UNCHANGED <<state, legacy, target, units, schema, host, mishaps, invoked>>
  BY LockFreeFacts DEF CutoverInv, CutoverShape, ArchiveOpens, AtStep, EntryInv
<1>2. CASE Fail /\ UNCHANGED tx
  BY <1>1, <1>2, EndsHolding, HolderMoves DEF CutoverShape
<1>3. CASE ArchiveDistribution
  <2>1. /\ holder' = [holder EXCEPT !.archiving = TRUE,
                  !.at = IF tx.archive = "final" THEN "install" ELSE "archive_move"]
        /\ tx' = [tx EXCEPT !.archive = IF @ = "none" THEN "pending" ELSE @]
    BY <1>3 DEF ArchiveOpens
  <2>2. /\ tx' \in TxRecords /\ tx'.journal = tx.journal /\ tx'.receipt = tx.receipt
        /\ tx'.bound = tx.bound /\ tx'.abort = tx.abort /\ tx'.phase = tx.phase
        /\ tx'.completion = tx.completion
        /\ tx'.archive = "final" <=> tx.archive = "final"
        /\ tx'.archive = "failed" <=> tx.archive = "failed"
    BY <1>1, <2>1 DEF TxRecords
  <2>3. /\ holder' \in HolderRecords /\ holder'.cmd = holder.cmd /\ holder'.retired = holder.retired
        /\ \/ holder'.at = "archive_move"
           \/ holder'.at = "install" /\ tx.archive = "final"
    BY <1>1, <2>1 DEF HolderRecords, HolderSteps, EntrySteps
  <2>4. CutoverShape'
    BY <1>1, <2>2, <2>3 DEF CutoverShape
  <2>5. RetireInv' /\ MigrationInv' /\ DocumentInv'
    BY <1>1, <2>2 DEF CutoverInv, RetireInv, MigrationInv, DocumentInv, NoTargetFiles,
       NoTargetTraces, LegacyGone, TargetBoxes, TargetUp
  <2>6. HolderInv'
    BY <1>1, <2>2, <2>3 DEF HolderInv, EntryInv, InstallInv, AbortInv
  <2> QED
    BY <2>4, <2>5, <2>6 DEF CutoverInv, HolderInv
<1> QED
  BY <1>2, <1>3 DEF ArchiveOpens

(* ForwardFix: The forward fix puts the page in place of the proxy and leaves the records alone. *)
LEMMA ForwardFixKeeps ==
    ASSUME CutoverInv, ForwardFix
    PROVE  CutoverInv'
<1>1. /\ CutoverShape /\ EntryInv /\ tx.receipt = "final" /\ holder' = LockFree
      /\ state \in StateFiles /\ legacy \in LegacyRecords /\ target \in TargetRecords
      /\ UNCHANGED <<tx, schema, host, mishaps, invoked>>
  BY DEF CutoverInv, CutoverShape, ForwardFix, AtStep, EntryInv
<1>2. holder' \in HolderRecords /\ HolderInv'
  BY <1>1, EndsHolding
<1>3. CASE UNCHANGED <<state, legacy, target, units>>
  BY <1>1, <1>2, <1>3, HolderMoves DEF CutoverShape
<1>4. CASE ReleaseIntact
  <2>1. units' = TRUE
    BY <1>4 DEF ForwardFix
  <2>2. /\ SettledFiles \in StateFiles /\ SettledFiles.install = state.install
        /\ SettledFiles.active = state.active /\ SettledFiles.installed = state.installed
    BY <1>1 DEF SettledFiles, ClearIntent, StateFiles
  <2>3. /\ state' \in StateFiles /\ state'.install = state.install
        /\ state'.active = state.active /\ state'.installed = state.installed
    BY <1>4, <2>2 DEF ForwardFix, WriteIntent, StateFiles
  <2>4. /\ legacy' \in LegacyRecords /\ legacy'.net = legacy.net
        /\ \A s \in LegacyServices : /\ legacy.box[s] = "gone" => legacy'.box[s] = "gone"
                                     /\ legacy'.box[s] = "up" => legacy.box[s] = "up"
    <3>1. legacy.box \in [LegacyServices -> Boxes]
      BY <1>1 DEF LegacyRecords
    <3>2. legacy' = legacy \/ legacy' = [legacy EXCEPT !.box = Stops(@, {"proxy"})]
      BY <1>4 DEF ForwardFix
    <3> QED
      BY <1>1, <3>1, <3>2, StopsFacts DEF LegacyRecords
  <2>5. /\ target' \in TargetRecords /\ target'.marker = target.marker /\ target'.contract
        /\ \A s \in TargetServices \ {"page"} :
               /\ target.box[s] = "gone" => target'.box[s] = "gone"
               /\ target'.box[s] = "up" => target.box[s] = "up"
        /\ \/ target'.box = target.box /\ target'.box["page"] = target.box["page"]
           \/ target'.box["proxy"] # "up" /\ legacy'.box["proxy"] # "up"
    <3>1. target.box \in [TargetServices -> Boxes] /\ "page" \in TargetServices
      BY <1>1 DEF TargetRecords, TargetServices
    <3>2. CASE IntentMayBe(SettledFiles, "maintenance")
      <4>1. PICK page \in {target.box["page"], "up"} :
                target' = [target EXCEPT !.contract = TRUE, !.net = @ \/ page = "up",
                               !.box = [Stops(@, {"proxy"}) EXCEPT !["page"] = page]]
        BY <1>4, <3>2 DEF ForwardFix
      <4>2. page \in Boxes
        BY <3>1, <4>1 DEF Boxes
      <4>3. Stops(target.box, {"proxy"}) \in [TargetServices -> Boxes]
        BY <3>1, StopsFacts
      <4>4. /\ target' \in TargetRecords /\ target'.marker = target.marker /\ target'.contract
            /\ target'.box = [Stops(target.box, {"proxy"}) EXCEPT !["page"] = page]
        BY <1>1, <4>1, <4>2, <4>3 DEF TargetRecords
      <4>5. \A s \in TargetServices \ {"page"} : target'.box[s] = Stops(target.box, {"proxy"})[s]
        BY <4>3, <4>4
      <4>6. target'.box["proxy"] # "up"
        BY <3>1, <4>5, StopsFacts DEF TargetServices
      <4>7. legacy'.box["proxy"] # "up"
        <5>1. legacy' = [legacy EXCEPT !.box = Stops(@, {"proxy"})]
          BY <1>4, <3>2 DEF ForwardFix
        <5>2. legacy'.box = Stops(legacy.box, {"proxy"}) /\ legacy.box \in [LegacyServices -> Boxes]
          BY <1>1, <5>1 DEF LegacyRecords
        <5> QED
          BY <5>2, StopsFacts, LegacyServiceNames
      <4> QED
        BY <3>1, <4>4, <4>5, <4>6, <4>7, StopsFacts
    <3>3. CASE ~IntentMayBe(SettledFiles, "maintenance")
      BY <1>1, <1>4, <3>3 DEF ForwardFix, TargetRecords
    <3> QED
      BY <3>2, <3>3
  <2>6. TargetBoxes' \subseteq TargetBoxes \cup {"page"}
    BY <2>5 DEF TargetBoxes
  <2>7. CutoverShape'
    BY <1>1, <1>2, <2>1, <2>3, <2>4, <2>5 DEF CutoverShape
  <2>8. RetireInv'
    BY <1>1, <2>3, <2>4 DEF CutoverInv, RetireInv, LegacyGone
  <2>9. MigrationInv'
    BY <1>1, <2>3, <2>5 DEF CutoverInv, MigrationInv, TargetServices
  <2>10. DocumentInv'
    BY <1>1, <2>1, <2>3, <2>4, <2>5, <2>6, LegacyServiceNames
    DEF CutoverInv, DocumentInv, TargetUp, TargetServices
  <2> QED
    BY <1>2, <2>7, <2>8, <2>9, <2>10 DEF CutoverInv, HolderInv
<1> QED
  BY <1>3, <1>4 DEF ForwardFix

(* CommandFails: A failed step leaves the records and stops containers at most. *)
LEMMA CommandFailsKeeps ==
    ASSUME CutoverInv, CommandFails
    PROVE  CutoverInv'
<1>1. /\ CutoverShape /\ EntryInv /\ mishaps' \in 0 .. MaxMishaps /\ host' \in SUBSET Faults
      /\ UNCHANGED <<state, tx, legacy, units, schema, host, invoked>>
  BY MishapAssumption DEF CutoverInv, CutoverShape, CommandFails, Mishap
<1>2. CASE Fail /\ UNCHANGED target
  BY <1>1, <1>2, EndsHolding, HolderMoves
<1>3. CASE \E owned \in {StateOwned, holder.at # "install"} : InstallFails(owned)
  <2>1. PICK owned \in BOOLEAN : InstallFails(owned)
    BY <1>3 DEF StateOwned
  <2> QED
    BY <1>1, <2>1, InstallFailsCalms, CalmsKeeps
<1> QED
  BY <1>2, <1>3 DEF CommandFails

(* PowerLoss: After a power loss containers are down, and the files are what they were. *)
LEMMA PowerLossKeeps ==
    ASSUME CutoverInv, PowerLoss
    PROVE  CutoverInv'
<1>1. /\ CutoverShape /\ EntryInv /\ mishaps' \in 0 .. MaxMishaps /\ host' \in SUBSET Faults
      /\ holder' = LockFree /\ target' = [target EXCEPT !.box = Stops(@, Business \cup {"oneoff"})]
      /\ UNCHANGED <<state, tx, legacy, units, schema, host, invoked>>
  BY MishapAssumption DEF CutoverInv, CutoverShape, PowerLoss, Mishap
<1> QED
  BY <1>1, EndsHolding, StopsCalms, CalmsKeeps

(* RecreateLegacy: Legacy containers made anew differ in their identity only. *)
LEMMA RecreateLegacyKeeps ==
    ASSUME CutoverInv, RecreateLegacy
    PROVE  CutoverInv'
<1>1. /\ CutoverShape /\ mishaps' \in 0 .. MaxMishaps /\ legacy \in LegacyRecords
      /\ legacy' = [legacy EXCEPT !.gen = 2]
      /\ UNCHANGED <<state, tx, target, units, schema, host, holder, invoked>>
  BY MishapAssumption DEF CutoverInv, CutoverShape, RecreateLegacy, Mishap
<1>2. 2 \in 1 .. 2
  OBVIOUS
<1>3. legacy' \in LegacyRecords /\ legacy'.box = legacy.box /\ legacy'.net = legacy.net
  BY <1>1, <1>2 DEF LegacyRecords
<1>4. CutoverShape'
  BY <1>1, <1>3 DEF CutoverShape
<1>5. RetireInv' /\ MigrationInv' /\ DocumentInv' /\ HolderInv'
  BY <1>1, <1>3 DEF CutoverInv, RetireInv, MigrationInv, DocumentInv, HolderInv, EntryInv, InstallInv,
     AbortInv, NoTargetFiles, NoTargetTraces, LegacyGone, TargetBoxes, TargetUp
<1> QED
  BY <1>4, <1>5 DEF CutoverInv, HolderInv

(* The contract is persisted; nothing else is touched. *)
LEMMA InstallPersistsContractKeeps ==
    ASSUME CutoverInv, InstallPersistsContract
    PROVE  CutoverInv'
<1>1. /\ CutoverShape /\ holder.at = "contract" /\ GoTo("units") /\ holder.cmd # "none"
      /\ target \in TargetRecords
      /\ target' = [target EXCEPT !.contract = TRUE]
      /\ UNCHANGED <<state, tx, legacy, units, schema, host, mishaps, invoked>>
  BY LockFreeFacts DEF CutoverInv, CutoverShape, InstallPersistsContract, AtStep, EntryInv
<1>2. /\ target' \in TargetRecords /\ target'.contract /\ target'.box = target.box
      /\ target'.net = target.net /\ target'.marker = target.marker
  BY <1>1 DEF TargetRecords
<1>3. CutoverShape'
  BY <1>1, <1>2, GoesToStep DEF CutoverShape, HolderSteps
<1>4. RetireInv' /\ MigrationInv'
  BY <1>1, <1>2
  DEF CutoverInv, RetireInv, MigrationInv, NoTargetFiles, NoTargetTraces, LegacyGone, TargetBoxes
<1>5. DocumentInv'
  BY <1>1, <1>2 DEF CutoverInv, DocumentInv, NoTargetTraces, TargetBoxes, TargetUp
<1>6. HolderInv'
  BY <1>1, <1>2, GoesToStep
  DEF CutoverInv, HolderInv, EntryInv, InstallInv, AbortInv, HolderSteps, TargetBoxes
<1> QED
  BY <1>3, <1>4, <1>5, <1>6 DEF CutoverInv, HolderInv

(* The units come after the contract they work from. *)
LEMMA InstallPlacesUnitsKeeps ==
    ASSUME CutoverInv, InstallPlacesUnits
    PROVE  CutoverInv'
<1>1. /\ CutoverShape /\ holder.at = "units" /\ GoTo("intent") /\ holder.cmd # "none"
      /\ units' = TRUE
      /\ UNCHANGED <<state, tx, legacy, target, schema, host, mishaps, invoked>>
  BY LockFreeFacts DEF CutoverInv, CutoverShape, InstallPlacesUnits, AtStep, EntryInv
<1>2. target.contract /\ tx.journal /\ tx.receipt = "final" /\ InstallOnRecord
  BY <1>1 DEF CutoverInv, EntryInv, RetireInv, InstallInv
<1>3. CutoverShape'
  BY <1>1, <1>2, GoesToStep DEF CutoverShape, HolderSteps
<1>4. RetireInv' /\ MigrationInv'
  BY <1>1, <1>2
  DEF CutoverInv, RetireInv, MigrationInv, NoTargetFiles, NoTargetTraces, LegacyGone, TargetBoxes
<1>5. DocumentInv'
  BY <1>1, <1>2 DEF CutoverInv, DocumentInv, NoTargetTraces, TargetBoxes, TargetUp
<1>6. HolderInv'
  BY <1>1, <1>2, GoesToStep
  DEF CutoverInv, HolderInv, EntryInv, InstallInv, AbortInv, HolderSteps, TargetBoxes
<1> QED
  BY <1>3, <1>4, <1>5, <1>6 DEF CutoverInv, HolderInv

(* The preflight starts one-off containers only. *)
LEMMA InstallPreflightsKeeps ==
    ASSUME CutoverInv, InstallPreflights
    PROVE  CutoverInv'
<1>1. /\ CutoverShape /\ holder.at = "preflight" /\ holder.cmd # "none"
      /\ target \in TargetRecords
      /\ UNCHANGED <<state, tx, legacy, units, schema, host, mishaps, invoked>>
  BY LockFreeFacts DEF CutoverInv, CutoverShape, InstallPreflights, AtStep, EntryInv
<1>2. CASE InstallFails(TRUE)
  BY <1>1, <1>2, InstallFailsCalms, CalmsKeeps DEF CutoverShape
<1>3. CASE /\ target' = [target EXCEPT !.box["oneoff"] = "up", !.marker = TRUE]
           /\ GoTo("passed")
  <2>1. units /\ tx.journal /\ tx.receipt = "final" /\ InstallOnRecord
    BY <1>1 DEF CutoverInv, EntryInv, RetireInv, InstallInv
  <2>2. /\ target' \in TargetRecords /\ target'.contract = target.contract
        /\ \A s \in TargetServices \ {"oneoff"} : target'.box[s] = target.box[s]
    BY <1>1, <1>3 DEF TargetRecords, TargetServices, Boxes
  <2>3. CutoverShape'
    BY <1>1, <1>3, <2>1, <2>2, GoesToStep DEF CutoverShape, HolderSteps
  <2>4. RetireInv' /\ MigrationInv'
    BY <1>1, <2>1, <2>2
    DEF CutoverInv, RetireInv, MigrationInv, NoTargetFiles, NoTargetTraces, LegacyGone, TargetBoxes,
        TargetServices
  <2>5. DocumentInv'
    BY <1>1, <2>1, <2>2
    DEF CutoverInv, DocumentInv, NoTargetTraces, TargetBoxes, TargetUp, TargetServices
  <2>6. HolderInv'
    BY <1>1, <1>3, <2>1, <2>2, GoesToStep
    DEF CutoverInv, HolderInv, EntryInv, InstallInv, AbortInv, HolderSteps, TargetBoxes, TargetServices
  <2> QED
    BY <2>3, <2>4, <2>5, <2>6 DEF CutoverInv, HolderInv
<1> QED
  BY <1>2, <1>3 DEF InstallPreflights

(* The phase on record stays on its side of the boundary. *)
LEMMA InstallPassesPreflightKeeps ==
    ASSUME CutoverInv, InstallPassesPreflight
    PROVE  CutoverInv'
<1>1. /\ CutoverShape /\ holder.at = "passed" /\ GoTo("invoke") /\ holder.cmd # "none"
      /\ state \in StateFiles /\ target \in TargetRecords
      /\ target' = [target EXCEPT !.box["oneoff"] = "gone"]
      /\ state' = IF state.install \in OpenPhases
                  THEN [state EXCEPT !.install = "preflight_passed"] ELSE state
      /\ UNCHANGED <<tx, legacy, units, schema, host, mishaps, invoked>>
  BY LockFreeFacts DEF CutoverInv, CutoverShape, InstallPassesPreflight, AtStep, EntryInv
<1>2. units /\ tx.journal /\ tx.receipt = "final" /\ InstallOnRecord
  BY <1>1 DEF CutoverInv, EntryInv, RetireInv, InstallInv
<1>3. /\ target' \in TargetRecords /\ target'.contract = target.contract
      /\ target'.marker = target.marker /\ target'.net = target.net
      /\ target'.box["oneoff"] = "gone"
      /\ \A s \in TargetServices \ {"oneoff"} : target'.box[s] = target.box[s]
      /\ state' \in StateFiles /\ state'.active = state.active /\ state'.installed = state.installed
      /\ state'.install \in ClosedPhases <=> state.install \in ClosedPhases
  BY <1>1 DEF TargetRecords, TargetServices, Boxes, StateFiles, Phases, OpenPhases, ClosedPhases
<1>4. CutoverShape'
  BY <1>1, <1>2, <1>3, GoesToStep DEF CutoverShape, HolderSteps
<1>5. RetireInv' /\ MigrationInv'
  BY <1>1, <1>2, <1>3
  DEF CutoverInv, RetireInv, MigrationInv, NoTargetFiles, NoTargetTraces, LegacyGone, TargetBoxes,
      TargetServices
<1>6. DocumentInv'
  BY <1>1, <1>2, <1>3
  DEF CutoverInv, DocumentInv, NoTargetTraces, TargetBoxes, TargetUp, TargetServices
<1>7. HolderInv'
  BY <1>1, <1>2, <1>3, GoesToStep
  DEF CutoverInv, HolderInv, EntryInv, InstallInv, AbortInv, HolderSteps, TargetBoxes, TargetServices
<1> QED
  BY <1>4, <1>5, <1>6, <1>7 DEF CutoverInv, HolderInv

(* The migration is announced in the record and in the history at once. *)
LEMMA InstallInvokesMigrationKeeps ==
    ASSUME CutoverInv, InstallInvokesMigration
    PROVE  CutoverInv'
<1>1. /\ CutoverShape /\ holder.at = "invoke" /\ GoTo("migrate") /\ holder.cmd # "none"
      /\ state \in StateFiles
      /\ state' = [state EXCEPT !.install = "migration_invoked"] /\ invoked' = TRUE
      /\ UNCHANGED <<tx, legacy, target, units, schema, host, mishaps>>
  BY LockFreeFacts DEF CutoverInv, CutoverShape, InstallInvokesMigration, AtStep, EntryInv
<1>2. tx.journal /\ tx.receipt = "final" /\ InstallOnRecord
  BY <1>1 DEF CutoverInv, EntryInv, RetireInv, InstallInv
<1>3. /\ state' \in StateFiles /\ state'.install = "migration_invoked"
      /\ state'.active = state.active /\ state'.installed = state.installed
  BY <1>1 DEF StateFiles, Phases, ClosedPhases
<1>4. CutoverShape'
  BY <1>1, <1>2, <1>3, GoesToStep DEF CutoverShape, HolderSteps
<1>5. RetireInv' /\ MigrationInv'
  BY <1>1, <1>2, <1>3
  DEF CutoverInv, RetireInv, MigrationInv, NoTargetFiles, NoTargetTraces, LegacyGone, TargetBoxes,
      ClosedPhases
<1>6. DocumentInv'
  BY <1>1, <1>2, <1>3
  DEF CutoverInv, DocumentInv, NoTargetTraces, TargetBoxes, TargetUp, ClosedPhases
<1>7. HolderInv'
  BY <1>1, <1>2, <1>3, GoesToStep
  DEF CutoverInv, HolderInv, EntryInv, InstallInv, AbortInv, HolderSteps, TargetBoxes
<1> QED
  BY <1>4, <1>5, <1>6, <1>7 DEF CutoverInv, HolderInv

(* PostgreSQL opens the data after the announcement. *)
LEMMA InstallOpensDataKeeps ==
    ASSUME CutoverInv, InstallOpensData
    PROVE  CutoverInv'
<1>1. /\ CutoverShape /\ holder.at = "migrate" /\ GoTo("upgrade") /\ holder.cmd # "none"
      /\ target \in TargetRecords
      /\ target' = [target EXCEPT !.box["postgres"] = "up", !.net = TRUE]
      /\ UNCHANGED <<state, tx, legacy, units, schema, host, mishaps, invoked>>
  BY LockFreeFacts DEF CutoverInv, CutoverShape, InstallOpensData, AtStep, EntryInv
<1>2. units /\ invoked /\ tx.journal /\ tx.receipt = "final" /\ InstallOnRecord
  BY <1>1 DEF CutoverInv, EntryInv, RetireInv, InstallInv
<1>3. /\ target' \in TargetRecords /\ target'.contract = target.contract
      /\ target'.box["postgres"] = "up"
      /\ \A s \in TargetServices \ {"postgres"} : target'.box[s] = target.box[s]
  BY <1>1 DEF TargetRecords, TargetServices, Boxes
<1>4. CutoverShape'
  BY <1>1, <1>2, <1>3, GoesToStep DEF CutoverShape, HolderSteps
<1>5. RetireInv' /\ MigrationInv'
  BY <1>1, <1>2, <1>3
  DEF CutoverInv, RetireInv, MigrationInv, NoTargetFiles, NoTargetTraces, LegacyGone, TargetBoxes,
      TargetServices
<1>6. DocumentInv'
  BY <1>1, <1>2, <1>3
  DEF CutoverInv, DocumentInv, NoTargetTraces, TargetBoxes, TargetUp, TargetServices
<1>7. HolderInv'
  BY <1>1, <1>2, <1>3, GoesToStep
  DEF CutoverInv, HolderInv, EntryInv, InstallInv, AbortInv, HolderSteps, TargetBoxes, TargetServices
<1> QED
  BY <1>4, <1>5, <1>6, <1>7 DEF CutoverInv, HolderInv

(* The schema moves after the announcement. *)
LEMMA InstallMigratesKeeps ==
    ASSUME CutoverInv, InstallMigrates
    PROVE  CutoverInv'
<1>1. /\ CutoverShape /\ holder.at = "upgrade" /\ GoTo("migrated") /\ holder.cmd # "none"
      /\ schema' = "target"
      /\ UNCHANGED <<state, tx, legacy, target, units, host, mishaps, invoked>>
  BY LockFreeFacts DEF CutoverInv, CutoverShape, InstallMigrates, AtStep, EntryInv
<1>2. invoked
  BY <1>1 DEF CutoverInv, InstallInv
<1>3. CutoverShape'
  BY <1>1, <1>2, GoesToStep DEF CutoverShape, HolderSteps
<1>4. RetireInv' /\ MigrationInv'
  BY <1>1, <1>2
  DEF CutoverInv, RetireInv, MigrationInv, NoTargetFiles, NoTargetTraces, LegacyGone, TargetBoxes
<1>5. DocumentInv'
  BY <1>1, <1>2 DEF CutoverInv, DocumentInv, NoTargetTraces, TargetBoxes, TargetUp
<1>6. HolderInv'
  BY <1>1, <1>2, GoesToStep
  DEF CutoverInv, HolderInv, EntryInv, InstallInv, AbortInv, HolderSteps, TargetBoxes
<1> QED
  BY <1>3, <1>4, <1>5, <1>6 DEF CutoverInv, HolderInv

(* The API starts on the migrated schema. *)
LEMMA InstallStartsCoreKeeps ==
    ASSUME CutoverInv, InstallStartsCore
    PROVE  CutoverInv'
<1>1. /\ CutoverShape /\ holder.at = "core" /\ GoTo("core_ready") /\ holder.cmd # "none"
      /\ target \in TargetRecords
      /\ target' = [target EXCEPT !.box["api"] = "up"]
      /\ UNCHANGED <<state, tx, legacy, units, schema, host, mishaps, invoked>>
  BY LockFreeFacts DEF CutoverInv, CutoverShape, InstallStartsCore, AtStep, EntryInv
<1>2. /\ units /\ invoked /\ schema = "target" /\ target.box["page"] = "gone"
      /\ tx.journal /\ tx.receipt = "final" /\ InstallOnRecord
  BY <1>1 DEF CutoverInv, EntryInv, RetireInv, InstallInv
<1>3. /\ target' \in TargetRecords /\ target'.contract = target.contract
      /\ target'.net = target.net /\ target'.marker = target.marker
      /\ \A s \in TargetServices \ {"api"} : target'.box[s] = target.box[s]
  BY <1>1 DEF TargetRecords, TargetServices, Boxes
<1>4. CutoverShape'
  BY <1>1, <1>2, <1>3, GoesToStep DEF CutoverShape, HolderSteps
<1>5. RetireInv' /\ MigrationInv'
  BY <1>1, <1>2, <1>3
  DEF CutoverInv, RetireInv, MigrationInv, NoTargetFiles, NoTargetTraces, LegacyGone, TargetBoxes,
      TargetServices
<1>6. DocumentInv'
  BY <1>1, <1>2, <1>3
  DEF CutoverInv, DocumentInv, NoTargetTraces, TargetBoxes, TargetUp, TargetServices
<1>7. HolderInv'
  BY <1>1, <1>2, <1>3, GoesToStep
  DEF CutoverInv, HolderInv, EntryInv, InstallInv, AbortInv, HolderSteps, TargetBoxes, TargetServices
<1> QED
  BY <1>4, <1>5, <1>6, <1>7 DEF CutoverInv, HolderInv

(* The proxy starts while the maintenance page is gone. *)
LEMMA InstallStartsProxyKeeps ==
    ASSUME CutoverInv, InstallStartsProxy
    PROVE  CutoverInv'
<1>1. /\ CutoverShape /\ holder.at = "proxy" /\ GoTo("proxy_started") /\ holder.cmd # "none"
      /\ target \in TargetRecords
      /\ target' = [target EXCEPT !.box["proxy"] = "up"]
      /\ UNCHANGED <<state, tx, legacy, units, schema, host, mishaps, invoked>>
  BY LockFreeFacts DEF CutoverInv, CutoverShape, InstallStartsProxy, AtStep, EntryInv
<1>2. /\ units /\ invoked /\ schema = "target" /\ target.box["page"] = "gone"
      /\ tx.journal /\ tx.receipt = "final" /\ InstallOnRecord
  BY <1>1 DEF CutoverInv, EntryInv, RetireInv, InstallInv
<1>3. /\ target' \in TargetRecords /\ target'.contract = target.contract
      /\ target'.net = target.net /\ target'.marker = target.marker
      /\ \A s \in TargetServices \ {"proxy"} : target'.box[s] = target.box[s]
  BY <1>1 DEF TargetRecords, TargetServices, Boxes
<1>4. CutoverShape'
  BY <1>1, <1>2, <1>3, GoesToStep DEF CutoverShape, HolderSteps
<1>5. RetireInv' /\ MigrationInv'
  BY <1>1, <1>2, <1>3
  DEF CutoverInv, RetireInv, MigrationInv, NoTargetFiles, NoTargetTraces, LegacyGone, TargetBoxes,
      TargetServices
<1>6. DocumentInv'
  BY <1>1, <1>2, <1>3
  DEF CutoverInv, DocumentInv, NoTargetTraces, TargetBoxes, TargetUp, TargetServices
<1>7. HolderInv'
  BY <1>1, <1>2, <1>3, GoesToStep
  DEF CutoverInv, HolderInv, EntryInv, InstallInv, AbortInv, HolderSteps, TargetBoxes, TargetServices
<1> QED
  BY <1>4, <1>5, <1>6, <1>7 DEF CutoverInv, HolderInv

(* The release is committed on the migrated schema. *)
LEMMA InstallCommitsKeeps ==
    ASSUME CutoverInv, InstallCommits
    PROVE  CutoverInv'
<1>1. /\ CutoverShape /\ holder.at = "commit" /\ GoTo("completed") /\ holder.cmd # "none"
      /\ state \in StateFiles
      /\ state' = WriteActive(state)
      /\ UNCHANGED <<tx, legacy, target, units, schema, host, mishaps, invoked>>
  BY LockFreeFacts DEF CutoverInv, CutoverShape, InstallCommits, AtStep, EntryInv
<1>2. schema = "target" /\ tx.journal /\ tx.receipt = "final" /\ InstallOnRecord
  BY <1>1 DEF CutoverInv, EntryInv, RetireInv, InstallInv
<1>3. /\ state' \in StateFiles /\ state'.active
      /\ state'.install = state.install /\ state'.installed = state.installed
  BY <1>1 DEF StateFiles, WriteActive
<1>4. CutoverShape'
  BY <1>1, <1>2, <1>3, GoesToStep DEF CutoverShape, HolderSteps
<1>5. RetireInv' /\ MigrationInv'
  BY <1>1, <1>2, <1>3
  DEF CutoverInv, RetireInv, MigrationInv, NoTargetFiles, NoTargetTraces, LegacyGone, TargetBoxes
<1>6. DocumentInv'
  BY <1>1, <1>2, <1>3 DEF CutoverInv, DocumentInv, NoTargetTraces, TargetBoxes, TargetUp
<1>7. HolderInv'
  BY <1>1, <1>2, <1>3, GoesToStep
  DEF CutoverInv, HolderInv, EntryInv, InstallInv, AbortInv, HolderSteps, TargetBoxes
<1> QED
  BY <1>4, <1>5, <1>6, <1>7 DEF CutoverInv, HolderInv

(* The record of the install becomes the installed receipt. *)
LEMMA InstallPublishesKeeps ==
    ASSUME CutoverInv, InstallPublishes
    PROVE  CutoverInv'
<1>1. /\ CutoverShape /\ holder.at = "publish" /\ GoTo("clear") /\ holder.cmd # "none"
      /\ state \in StateFiles
      /\ state' = [state EXCEPT !.install = "none", !.installed = TRUE]
      /\ UNCHANGED <<tx, legacy, target, units, schema, host, mishaps, invoked>>
  BY LockFreeFacts DEF CutoverInv, CutoverShape, InstallPublishes, AtStep, EntryInv
<1>2. /\ state.active /\ invoked /\ tx.journal
      /\ tx.receipt = "final" /\ InstallOnRecord
  BY <1>1 DEF CutoverInv, EntryInv, RetireInv, InstallInv
<1>3. /\ state' \in StateFiles /\ state'.active = state.active
      /\ state'.install = "none" /\ state'.installed
  BY <1>1 DEF StateFiles
<1>4. CutoverShape'
  BY <1>1, <1>2, <1>3, GoesToStep DEF CutoverShape, HolderSteps
<1>5. RetireInv' /\ MigrationInv'
  BY <1>1, <1>2, <1>3
  DEF CutoverInv, RetireInv, MigrationInv, NoTargetFiles, NoTargetTraces, LegacyGone, TargetBoxes,
      ClosedPhases
<1>6. DocumentInv'
  BY <1>1, <1>2, <1>3
  DEF CutoverInv, DocumentInv, NoTargetTraces, TargetBoxes, TargetUp, ClosedPhases
<1>7. HolderInv'
  BY <1>1, <1>2, <1>3, GoesToStep
  DEF CutoverInv, HolderInv, EntryInv, InstallInv, AbortInv, HolderSteps, TargetBoxes
<1> QED
  BY <1>4, <1>5, <1>6, <1>7 DEF CutoverInv, HolderInv

(* The watchdog goes first; what it left is still known. *)
LEMMA AbortArchivesUnitsKeeps ==
    ASSUME CutoverInv, AbortArchivesUnits
    PROVE  CutoverInv'
<1>1. /\ CutoverShape /\ holder.at = "abort_units" /\ GoTo("abort_containers") /\ holder.cmd # "none"
      /\ tx \in TxRecords
      /\ units' = FALSE
      /\ tx' = [tx EXCEPT !.kept = IF units THEN @ \cup {"units"} ELSE @]
      /\ UNCHANGED <<state, legacy, target, schema, host, mishaps, invoked>>
  BY LockFreeFacts DEF CutoverInv, CutoverShape, AbortArchivesUnits, AtStep, EntryInv
<1>2. tx.abort = "pending" /\ tx.receipt = "final"
  BY <1>1 DEF CutoverInv, CutoverShape, TxRecords, AbortInv, RetireInv
<1>3. /\ tx' \in TxRecords /\ tx'.receipt = tx.receipt /\ tx'.journal = tx.journal
      /\ tx'.abort = tx.abort /\ tx'.archive = tx.archive /\ tx'.phase = tx.phase
      /\ tx'.completion = tx.completion /\ tx'.bound = tx.bound
  BY <1>1 DEF TxRecords
<1>4. CutoverShape'
  BY <1>1, <1>2, <1>3, GoesToStep DEF CutoverShape, HolderSteps
<1>5. RetireInv' /\ MigrationInv'
  BY <1>1, <1>2, <1>3
  DEF CutoverInv, RetireInv, MigrationInv, NoTargetFiles, NoTargetTraces, LegacyGone, TargetBoxes
<1>6. DocumentInv'
  BY <1>1, <1>2, <1>3 DEF CutoverInv, DocumentInv, NoTargetTraces, TargetBoxes, TargetUp
<1>7. HolderInv'
  BY <1>1, <1>2, <1>3, GoesToStep
  DEF CutoverInv, HolderInv, EntryInv, InstallInv, AbortInv, HolderSteps, TargetBoxes
<1> QED
  BY <1>4, <1>5, <1>6, <1>7 DEF CutoverInv, HolderInv

(* After the one-off containers nothing is left of the target. *)
LEMMA AbortRemovesContainersKeeps ==
    ASSUME CutoverInv, AbortRemovesContainers
    PROVE  CutoverInv'
<1>1. /\ CutoverShape /\ holder.at = "abort_containers" /\ GoTo("abort_marker") /\ holder.cmd # "none"
      /\ target \in TargetRecords
      /\ target' = [target EXCEPT !.box["oneoff"] = "gone"]
      /\ UNCHANGED <<state, tx, legacy, units, schema, host, mishaps, invoked>>
  BY LockFreeFacts DEF CutoverInv, CutoverShape, AbortRemovesContainers, AtStep, EntryInv
<1>2. tx.abort = "pending"
  BY <1>1 DEF CutoverInv, AbortInv
<1>3. /\ target' \in TargetRecords /\ target'.contract = target.contract
      /\ target'.net = target.net /\ target'.marker = target.marker
      /\ target'.box["oneoff"] = "gone"
      /\ \A s \in TargetServices \ {"oneoff"} : target'.box[s] = target.box[s]
  BY <1>1 DEF TargetRecords, TargetServices, Boxes
<1>4. CutoverShape'
  BY <1>1, <1>2, <1>3, GoesToStep DEF CutoverShape, HolderSteps
<1>5. RetireInv' /\ MigrationInv'
  BY <1>1, <1>2, <1>3
  DEF CutoverInv, RetireInv, MigrationInv, NoTargetFiles, NoTargetTraces, LegacyGone, TargetBoxes,
      TargetServices
<1>6. DocumentInv'
  BY <1>1, <1>2, <1>3
  DEF CutoverInv, DocumentInv, NoTargetTraces, TargetBoxes, TargetUp, TargetServices
<1>7. HolderInv'
  BY <1>1, <1>2, <1>3, GoesToStep
  DEF CutoverInv, HolderInv, EntryInv, InstallInv, AbortInv, HolderSteps, TargetBoxes, TargetServices
<1> QED
  BY <1>4, <1>5, <1>6, <1>7 DEF CutoverInv, HolderInv

(* The owner marker goes. *)
LEMMA AbortRemovesMarkerKeeps ==
    ASSUME CutoverInv, AbortRemovesMarker
    PROVE  CutoverInv'
<1>1. /\ CutoverShape /\ holder.at = "abort_marker" /\ GoTo("abort_host") /\ holder.cmd # "none"
      /\ target \in TargetRecords
      /\ target' = [target EXCEPT !.marker = FALSE]
      /\ UNCHANGED <<state, tx, legacy, units, schema, host, mishaps, invoked>>
  BY LockFreeFacts DEF CutoverInv, CutoverShape, AbortRemovesMarker, AtStep, EntryInv
<1>2. /\ target' \in TargetRecords /\ target'.box = target.box /\ ~target'.marker
      /\ target'.net = target.net /\ target'.contract = target.contract
  BY <1>1 DEF TargetRecords
<1>3. CutoverShape'
  BY <1>1, <1>2, GoesToStep DEF CutoverShape, HolderSteps
<1>4. RetireInv' /\ MigrationInv'
  BY <1>1, <1>2
  DEF CutoverInv, RetireInv, MigrationInv, NoTargetFiles, NoTargetTraces, LegacyGone, TargetBoxes
<1>5. DocumentInv'
  BY <1>1, <1>2 DEF CutoverInv, DocumentInv, NoTargetTraces, TargetBoxes, TargetUp
<1>6. HolderInv'
  BY <1>1, <1>2, GoesToStep
  DEF CutoverInv, HolderInv, EntryInv, InstallInv, AbortInv, HolderSteps, TargetBoxes
<1> QED
  BY <1>3, <1>4, <1>5, <1>6 DEF CutoverInv, HolderInv

(* A legacy receipt leaves the state directory. *)
LEMMA ArchiveMovesKeeps ==
    ASSUME CutoverInv, ArchiveMoves
    PROVE  CutoverInv'
<1>1. /\ CutoverShape /\ holder.at = "archive_move" /\ GoTo("archive_publish") /\ holder.cmd # "none"
      /\ state \in StateFiles
      /\ state' = [state EXCEPT !.old = FALSE]
      /\ UNCHANGED <<tx, legacy, target, units, schema, host, mishaps, invoked>>
  BY LockFreeFacts DEF CutoverInv, CutoverShape, ArchiveMoves, AtStep, EntryInv
<1>2. tx.journal /\ tx.receipt = "final" /\ tx.abort # "final"
  BY <1>1 DEF CutoverInv, EntryInv, RetireInv
<1>3. /\ state' \in StateFiles /\ state'.active = state.active
      /\ state'.install = state.install /\ state'.installed = state.installed
  BY <1>1 DEF StateFiles
<1>4. CutoverShape'
  BY <1>1, <1>2, <1>3, GoesToStep DEF CutoverShape, HolderSteps, EntrySteps
<1>5. RetireInv' /\ MigrationInv'
  BY <1>1, <1>2, <1>3
  DEF CutoverInv, RetireInv, MigrationInv, NoTargetFiles, NoTargetTraces, LegacyGone, TargetBoxes
<1>6. DocumentInv'
  BY <1>1, <1>2, <1>3 DEF CutoverInv, DocumentInv, NoTargetTraces, TargetBoxes, TargetUp
<1>7. HolderInv'
  BY <1>1, <1>2, <1>3, GoesToStep
  DEF CutoverInv, HolderInv, EntryInv, InstallInv, AbortInv, HolderSteps, TargetBoxes, EntrySteps
<1> QED
  BY <1>4, <1>5, <1>6, <1>7 DEF CutoverInv, HolderInv

(* Stopping and removing legacy containers and their network: the intent names them. *)
LEMMA LegacyRemovalKeeps ==
    ASSUME CutoverInv, holder.at \in RetireSteps \ {"retire"}, legacy' \in LegacyRecords,
           holder' \in HolderRecords, HolderInv',
           UNCHANGED <<state, tx, target, units, schema, host, mishaps, invoked>>
    PROVE  CutoverInv'
<1>1. tx.receipt = "intent" /\ ~tx.journal /\ tx.abort = "none"
  BY DEF CutoverInv, EntryInv, RetireInv
<1>2. CutoverShape'
  BY DEF CutoverInv, CutoverShape
<1>3. RetireInv' /\ MigrationInv' /\ DocumentInv'
  BY <1>1 DEF CutoverInv, RetireInv, MigrationInv, DocumentInv, NoTargetFiles, NoTargetTraces,
     TargetBoxes, TargetUp
<1> QED
  BY <1>2, <1>3 DEF CutoverInv, HolderInv

(* RetireStops: A legacy container is stopped under the intent that names it. *)
LEMMA RetireStopsKeeps ==
    ASSUME CutoverInv, RetireStops
    PROVE  CutoverInv'
<1>1. /\ CutoverShape /\ EntryInv /\ holder.at = "retire_stop" /\ holder.cmd # "none"
      /\ legacy \in LegacyRecords
      /\ UNCHANGED <<state, tx, target, units, schema, host, mishaps, invoked>>
  BY LockFreeFacts DEF CutoverInv, CutoverShape, RetireStops, AtStep, EntryInv
<1>2. CASE Fail /\ UNCHANGED legacy
  BY <1>1, <1>2, EndsHolding, LegacyRemovalKeeps
<1>3. CASE UNCHANGED holder /\ \E s \in LegacyServices : legacy' = [legacy EXCEPT !.box[s] = "down"]
  <2>1. legacy' \in LegacyRecords
    BY <1>1, <1>3 DEF LegacyRecords, Boxes
  <2>2. holder' \in HolderRecords /\ HolderInv'
    BY <1>1, <1>3 DEF CutoverInv, CutoverShape, HolderInv, EntryInv, InstallInv, AbortInv, TargetBoxes
  <2> QED
    BY <1>1, <2>1, <2>2, LegacyRemovalKeeps
<1>4. CASE GoTo("retire_remove") /\ UNCHANGED legacy
  <2>1. holder' \in HolderRecords /\ HolderInv'
    BY <1>1, <1>4, GoesToStep DEF HolderSteps, HolderInv, EntryInv, InstallInv, AbortInv
  <2> QED
    BY <1>1, <1>4, <2>1, LegacyRemovalKeeps
<1> QED
  BY <1>2, <1>3, <1>4 DEF RetireStops

(* RetireRemoves: A stopped legacy container is removed under the intent that names it. *)
LEMMA RetireRemovesKeeps ==
    ASSUME CutoverInv, RetireRemoves
    PROVE  CutoverInv'
<1>1. /\ CutoverShape /\ EntryInv /\ holder.at = "retire_remove" /\ holder.cmd # "none"
      /\ legacy \in LegacyRecords
      /\ UNCHANGED <<state, tx, target, units, schema, host, mishaps, invoked>>
  BY LockFreeFacts DEF CutoverInv, CutoverShape, RetireRemoves, AtStep, EntryInv
<1>2. CASE UNCHANGED holder /\ \E s \in LegacyServices : legacy' = [legacy EXCEPT !.box[s] = "gone"]
  <2>1. legacy' \in LegacyRecords
    BY <1>1, <1>2 DEF LegacyRecords, Boxes
  <2>2. holder' \in HolderRecords /\ HolderInv'
    BY <1>1, <1>2 DEF CutoverInv, CutoverShape, HolderInv, EntryInv, InstallInv, AbortInv, TargetBoxes
  <2> QED
    BY <1>1, <2>1, <2>2, LegacyRemovalKeeps
<1>3. CASE GoTo("retire_network") /\ UNCHANGED legacy
  <2>1. holder' \in HolderRecords /\ HolderInv'
    BY <1>1, <1>3, GoesToStep DEF HolderSteps, HolderInv, EntryInv, InstallInv, AbortInv
  <2> QED
    BY <1>1, <1>3, <2>1, LegacyRemovalKeeps
<1> QED
  BY <1>2, <1>3 DEF RetireRemoves

(* RetireRemovesNetwork: The legacy network is removed under the intent. *)
LEMMA RetireRemovesNetworkKeeps ==
    ASSUME CutoverInv, RetireRemovesNetwork
    PROVE  CutoverInv'
<1>1. /\ CutoverShape /\ EntryInv /\ holder.at = "retire_network" /\ holder.cmd # "none"
      /\ legacy \in LegacyRecords /\ legacy' = [legacy EXCEPT !.net = FALSE]
      /\ GoTo("retire_publish")
      /\ UNCHANGED <<state, tx, target, units, schema, host, mishaps, invoked>>
  BY LockFreeFacts DEF CutoverInv, CutoverShape, RetireRemovesNetwork, AtStep, EntryInv
<1>2. legacy' \in LegacyRecords
  BY <1>1 DEF LegacyRecords
<1>3. holder' \in HolderRecords /\ HolderInv'
  BY <1>1, GoesToStep DEF HolderSteps, HolderInv, EntryInv, InstallInv, AbortInv
<1> QED
  BY <1>1, <1>2, <1>3, LegacyRemovalKeeps

(* InstallRecords: The phases after the migration are recorded on the far side of the boundary. *)
LEMMA InstallRecordsKeeps ==
    ASSUME CutoverInv, InstallRecords
    PROVE  CutoverInv'
<1>1. /\ CutoverShape /\ EntryInv /\ InstallInv /\ holder.cmd # "none" /\ state \in StateFiles
      /\ holder.at \in {"migrated", "bootstrapped", "core_ready", "proxy_started", "completed"}
      /\ state' = [state EXCEPT !.install = holder.at] /\ GoTo(AfterRecord[holder.at])
      /\ UNCHANGED <<tx, legacy, target, units, schema, host, mishaps, invoked>>
  BY LockFreeFacts DEF CutoverInv, CutoverShape, InstallRecords, AfterRecord, EntryInv
<1>2. /\ AfterRecord[holder.at] \in {"bootstrapped", "core", "proxy", "commit", "publish"}
      /\ AfterRecord[holder.at] = "publish" => holder.at = "completed"
  BY <1>1 DEF AfterRecord
<1>3. invoked /\ tx.journal /\ tx.receipt = "final" /\ InstallOnRecord
  BY <1>1 DEF CutoverInv, EntryInv, InstallInv, RetireInv
<1>4. /\ state' \in StateFiles /\ state'.install \in ClosedPhases
      /\ state'.active = state.active /\ state'.installed = state.installed
  BY <1>1 DEF StateFiles, Phases, ClosedPhases
<1>5. /\ holder' \in HolderRecords /\ holder'.at = AfterRecord[holder.at]
      /\ holder'.cmd = holder.cmd /\ holder'.retired = holder.retired
  BY <1>1, <1>2, GoesToStep DEF HolderSteps
<1>6. CutoverShape'
  BY <1>1, <1>4, <1>5 DEF CutoverShape
<1>7. RetireInv' /\ MigrationInv'
  BY <1>1, <1>3, <1>4 DEF CutoverInv, RetireInv, MigrationInv, LegacyGone
<1>8. DocumentInv'
  BY <1>1, <1>3, <1>4 DEF CutoverInv, DocumentInv, NoTargetTraces, TargetBoxes, TargetUp
<1>9. HolderInv'
  BY <1>1, <1>2, <1>3, <1>4, <1>5 DEF HolderInv, EntryInv, InstallInv, AbortInv
<1> QED
  BY <1>6, <1>7, <1>8, <1>9 DEF CutoverInv, HolderInv

(* InstallClearsIntent: The install intent is cleared once the release is committed. *)
LEMMA InstallClearsIntentKeeps ==
    ASSUME CutoverInv, InstallClearsIntent
    PROVE  CutoverInv'
<1>1. /\ CutoverShape /\ EntryInv /\ InstallInv /\ holder.at = "clear" /\ holder \in HolderRecords
      /\ state' = ClearIntent(state) /\ Installed /\ tx.receipt = "final"
      /\ UNCHANGED <<tx, legacy, target, units, schema, host, mishaps, invoked>>
  BY DEF CutoverInv, CutoverShape, InstallClearsIntent, AtStep, EntryInv, RetireInv
<1>2. Calms
  BY <1>1 DEF Calms, ClearIntent, StateFiles, CutoverShape
<1>3. /\ holder' \in HolderRecords
      /\ holder' = LockFree \/ (holder'.at = "complete" /\ holder'.cmd = "adopt"
                                   /\ holder.cmd = "adopt" /\ holder'.retired = holder.retired)
  BY <1>1, LockFreeFacts DEF Installed, HolderRecords, HolderSteps, EntrySteps
<1>4. HolderInv'
  BY <1>1, <1>3, LockFreeFacts DEF HolderInv, EntryInv, InstallInv, AbortInv
<1> QED
  BY <1>1, <1>2, <1>3, <1>4, CalmsKeeps DEF CutoverShape

\* The transaction changes in what the invariant does not relate to the host.
TxKept ==
    /\ tx' \in TxRecords /\ tx'.receipt = tx.receipt /\ tx'.journal = tx.journal
    /\ tx'.bound = tx.bound /\ tx'.phase = tx.phase /\ tx'.completion = tx.completion

(* AbortBegins: An abort begins on the near side of the boundary, and is pending from there on. *)
LEMMA AbortBeginsKeeps ==
    ASSUME CutoverInv, AbortBegins
    PROVE  CutoverInv'
<1>1. /\ CutoverShape /\ EntryInv /\ holder.at = "abort" /\ holder.cmd # "none"
      /\ tx \in TxRecords /\ holder \in HolderRecords
      /\ UNCHANGED <<state, legacy, target, units, schema, host, mishaps, invoked>>
  BY LockFreeFacts DEF CutoverInv, CutoverShape, AbortBegins, AtStep, EntryInv
<1>2. CASE Fail /\ UNCHANGED tx
  BY <1>1, <1>2, EndsHolding, HolderMoves DEF CutoverShape
<1>3. CASE ReceiptPublished /\ AbortDone /\ UNCHANGED tx
  <2>1. /\ holder' \in HolderRecords
        /\ holder' = LockFree \/ (holder'.at = "abort_verify" /\ holder'.cmd = "adopt"
                                     /\ holder'.retired = holder.retired)
    BY <1>1, <1>3, LockFreeFacts DEF AbortDone, HolderRecords, HolderSteps
  <2>2. HolderInv'
    BY <1>1, <1>3, <2>1, LockFreeFacts DEF ReceiptPublished, HolderInv, EntryInv, InstallInv, AbortInv
  <2> QED
    BY <1>1, <1>3, <2>1, <2>2, HolderMoves DEF CutoverShape
<1>4. CASE tx' = [tx EXCEPT !.abort = "pending"] /\ ~ReceiptPublished /\ JournalVerifies
  <2>1. /\ TxKept /\ tx'.archive = tx.archive /\ tx'.abort = "pending"
        /\ tx.journal /\ tx.receipt = "final" /\ tx.abort # "final"
    <3>1. tx.phase \in OpenPhases \cup {"none"}
      BY <1>1 DEF CutoverInv, MigrationInv, TxRecords, Phases
    <3> QED
      BY <1>1, <1>4, <3>1
      DEF CutoverInv, RetireInv, ReceiptPublished, JournalVerifies, TxRecords, TxKept
  <2>2. RetireInv' /\ MigrationInv' /\ DocumentInv'
    BY <1>1, <2>1 DEF TxKept, CutoverInv, RetireInv, MigrationInv, DocumentInv, NoTargetFiles,
       NoTargetTraces, LegacyGone, TargetBoxes, TargetUp
  <2>3. holder' \in HolderRecords /\ HolderInv'
    <3>1. CASE Fail
      BY <1>1, <2>1, <3>1, EndsHolding DEF TxKept
    <3>2. CASE BoundaryOpen /\ GoTo("abort_units")
      <4>1. /\ ~state.installed /\ ~target.net /\ TargetBoxes \subseteq {"oneoff"}
            /\ state.install \notin ClosedPhases
        BY <1>1, <3>2 DEF BoundaryOpen, NoReceipts, PhaseOpen, ReadInstallState, NothingTwice,
           NoNetwork, OnlyPreflight, OpenPhases, ClosedPhases
      <4> QED
        BY <1>1, <2>1, <3>2, <4>1, GoesToStep
        DEF TxKept, HolderSteps, HolderInv, EntryInv, InstallInv, AbortInv, TargetBoxes
    <3> QED
      BY <1>1, <1>4, <3>1, <3>2 DEF AbortBegins
  <2>4. CutoverShape'
    BY <1>1, <2>1, <2>3 DEF CutoverShape, TxKept
  <2> QED
    BY <2>2, <2>3, <2>4 DEF CutoverInv, HolderInv
<1> QED
  BY <1>2, <1>3, <1>4 DEF AbortBegins

(* AbortArchivesIntent: The install intent goes into the abort archive. *)
LEMMA AbortArchivesIntentKeeps ==
    ASSUME CutoverInv, AbortArchivesIntent
    PROVE  CutoverInv'
<1>1. /\ CutoverShape /\ holder.at = "abort_intent" /\ GoTo("abort_publish") /\ holder.cmd # "none"
      /\ tx \in TxRecords /\ state \in StateFiles
      /\ UNCHANGED <<legacy, target, units, schema, host, mishaps, invoked>>
  BY LockFreeFacts DEF CutoverInv, CutoverShape, AbortArchivesIntent, AtStep, EntryInv
<1>2. tx.journal /\ tx.receipt = "final" /\ tx.abort = "pending" /\ state.install = "none"
  BY <1>1 DEF CutoverInv, AbortInv, RetireInv
<1>3. TxKept /\ tx'.archive = tx.archive /\ tx'.abort = tx.abort
  BY <1>1 DEF TxKept, TxRecords, AbortArchivesIntent
<1>4. /\ state' \in StateFiles /\ state'.install = state.install
      /\ state'.active = state.active /\ state'.installed = state.installed
  BY <1>1 DEF AbortArchivesIntent, AbortInstallIntent, StateFiles
<1>5. CutoverShape'
  BY <1>1, <1>3, <1>4, GoesToStep DEF TxKept, CutoverShape, HolderSteps
<1>6. RetireInv' /\ MigrationInv' /\ DocumentInv'
  BY <1>1, <1>2, <1>3, <1>4 DEF TxKept, CutoverInv, RetireInv, MigrationInv, DocumentInv,
     NoTargetFiles, NoTargetTraces, LegacyGone, TargetBoxes, TargetUp
<1>7. HolderInv'
  BY <1>1, <1>3, <1>4, GoesToStep
  DEF TxKept, CutoverInv, HolderSteps, HolderInv, EntryInv, InstallInv, AbortInv, TargetBoxes
<1> QED
  BY <1>5, <1>6, <1>7 DEF CutoverInv, HolderInv

(* AbortPublishes: The abort becomes final with nothing of the target left. *)
LEMMA AbortPublishesKeeps ==
    ASSUME CutoverInv, AbortPublishes
    PROVE  CutoverInv'
<1>1. /\ CutoverShape /\ EntryInv /\ AbortInv /\ holder.at = "abort_publish" /\ holder.cmd # "none"
      /\ tx \in TxRecords /\ holder \in HolderRecords
      /\ UNCHANGED <<state, legacy, target, units, schema, host, mishaps, invoked>>
  BY LockFreeFacts DEF CutoverInv, CutoverShape, AbortPublishes, AtStep, EntryInv
<1>2. CASE Fail /\ UNCHANGED tx
  BY <1>1, <1>2, EndsHolding, HolderMoves DEF CutoverShape
<1>3. CASE tx' = [tx EXCEPT !.abort = "final"] /\ AbortDone
  <2>1. /\ tx.journal /\ tx.receipt = "final" /\ tx.abort = "pending" /\ state.install = "none"
        /\ ~state.installed /\ TargetBoxes = {} /\ ~target.marker /\ ~target.net
    BY <1>1 DEF CutoverInv, AbortInv, RetireInv
  <2>2. TxKept /\ tx'.archive = tx.archive /\ tx'.abort = "final"
    BY <1>1, <1>3 DEF TxKept, TxRecords
  <2>3. /\ holder' \in HolderRecords
        /\ holder' = LockFree \/ (holder'.at = "abort_verify" /\ holder'.cmd = "adopt"
                                     /\ holder'.retired = holder.retired)
    BY <1>1, <1>3, LockFreeFacts DEF AbortDone, HolderRecords, HolderSteps
  <2>4. CutoverShape'
    BY <1>1, <2>2, <2>3 DEF TxKept, CutoverShape
  <2>5. RetireInv' /\ MigrationInv'
    BY <1>1, <2>1, <2>2 DEF TxKept, CutoverInv, RetireInv, MigrationInv, NoTargetFiles
  <2>6. DocumentInv'
    BY <1>1, <2>1, <2>2 DEF TxKept, CutoverInv, DocumentInv, TargetBoxes, TargetUp, TargetServices
  <2>7. HolderInv'
    BY <1>1, <2>1, <2>2, <2>3, LockFreeFacts DEF TxKept, HolderInv, EntryInv, InstallInv, AbortInv
  <2> QED
    BY <2>4, <2>5, <2>6, <2>7 DEF CutoverInv, HolderInv
<1> QED
  BY <1>2, <1>3 DEF AbortPublishes

(* ArchivePublishes: The archive becomes final once the receipts are in it. *)
LEMMA ArchivePublishesKeeps ==
    ASSUME CutoverInv, ArchivePublishes
    PROVE  CutoverInv'
<1>1. /\ CutoverShape /\ EntryInv /\ holder.at = "archive_publish" /\ holder.cmd # "none"
      /\ tx \in TxRecords /\ tx.journal /\ tx.abort # "final"
      /\ UNCHANGED <<state, legacy, target, units, schema, host, mishaps, invoked>>
  BY LockFreeFacts DEF CutoverInv, CutoverShape, ArchivePublishes, AtStep, EntryInv
<1>2. CASE Fail /\ UNCHANGED tx
  BY <1>1, <1>2, EndsHolding, HolderMoves DEF CutoverShape
<1>3. CASE tx' = [tx EXCEPT !.archive = "final"] /\ GoTo("install")
  <2>1. TxKept /\ tx'.abort = tx.abort /\ tx'.archive = "final"
    BY <1>1, <1>3 DEF TxKept, TxRecords
  <2>2. CutoverShape'
    BY <1>1, <1>3, <2>1, GoesToStep DEF TxKept, CutoverShape, HolderSteps
  <2>3. RetireInv' /\ MigrationInv' /\ DocumentInv'
    BY <1>1, <2>1 DEF TxKept, CutoverInv, RetireInv, MigrationInv, DocumentInv, NoTargetFiles,
       NoTargetTraces, LegacyGone, TargetBoxes, TargetUp
  <2>4. HolderInv'
    BY <1>1, <1>3, <2>1, GoesToStep
    DEF TxKept, HolderSteps, HolderInv, EntryInv, InstallInv, AbortInv
  <2> QED
    BY <2>2, <2>3, <2>4 DEF CutoverInv, HolderInv
<1> QED
  BY <1>2, <1>3 DEF ArchivePublishes

(* CompletionOpens: A completion is opened only over an installed and active release. *)
LEMMA CompletionOpensKeeps ==
    ASSUME CutoverInv, CompletionOpens
    PROVE  CutoverInv'
<1>1. /\ CutoverShape /\ EntryInv /\ InstallInv /\ holder.at = "complete" /\ holder.cmd # "none"
      /\ tx \in TxRecords
      /\ UNCHANGED <<state, legacy, target, units, schema, host, mishaps, invoked>>
  BY LockFreeFacts DEF CutoverInv, CutoverShape, CompletionOpens, AtStep, EntryInv
<1>2. CASE Fail /\ UNCHANGED tx
  BY <1>1, <1>2, EndsHolding, HolderMoves DEF CutoverShape
<1>3. CASE /\ state.installed /\ GoTo("complete_publish")
           /\ tx' = [tx EXCEPT !.completion = IF @ = "none" THEN "pending" ELSE @]
  <2>1. /\ tx' \in TxRecords /\ tx'.completion # "none" /\ tx'.receipt = tx.receipt
        /\ tx'.journal = tx.journal /\ tx'.bound = tx.bound /\ tx'.phase = tx.phase
        /\ tx'.abort = tx.abort /\ tx'.archive = tx.archive
    BY <1>1, <1>3 DEF TxRecords
  <2>2. CutoverShape'
    BY <1>1, <1>3, <2>1, GoesToStep DEF CutoverShape, HolderSteps, EntrySteps
  <2>3. RetireInv' /\ MigrationInv' /\ DocumentInv'
    BY <1>1, <1>3, <2>1 DEF CutoverInv, EntryInv, InstallInv, RetireInv, MigrationInv, DocumentInv,
       NoTargetFiles, NoTargetTraces, LegacyGone, TargetBoxes, TargetUp
  <2>4. HolderInv'
    BY <1>1, <1>3, <2>1, GoesToStep
    DEF HolderSteps, EntrySteps, HolderInv, EntryInv, InstallInv, AbortInv
  <2> QED
    BY <2>2, <2>3, <2>4 DEF CutoverInv, HolderInv
<1> QED
  BY <1>2, <1>3 DEF CompletionOpens

(* CompletionPublishes: The completion becomes final while the release is installed. *)
LEMMA CompletionPublishesKeeps ==
    ASSUME CutoverInv, CompletionPublishes
    PROVE  CutoverInv'
<1>1. /\ CutoverShape /\ EntryInv /\ holder.at = "complete_publish" /\ tx.completion # "none"
      /\ tx \in TxRecords /\ tx' = [tx EXCEPT !.completion = "final"] /\ holder' = LockFree
      /\ UNCHANGED <<state, legacy, target, units, schema, host, mishaps, invoked>>
  BY DEF CutoverInv, CutoverShape, CompletionPublishes, AtStep, EntryInv
<1>2. /\ tx' \in TxRecords /\ tx'.receipt = tx.receipt /\ tx'.journal = tx.journal
      /\ tx'.bound = tx.bound /\ tx'.phase = tx.phase
      /\ tx'.abort = tx.abort /\ tx'.archive = tx.archive
  BY <1>1 DEF TxRecords
<1>3. holder' \in HolderRecords /\ HolderInv'
  BY <1>1, <1>2, EndsHolding
<1>4. CutoverShape'
  BY <1>1, <1>2, <1>3 DEF CutoverShape
<1>5. RetireInv' /\ MigrationInv' /\ DocumentInv'
  BY <1>1, <1>2 DEF CutoverInv, RetireInv, MigrationInv, DocumentInv, NoTargetFiles,
     NoTargetTraces, LegacyGone, TargetBoxes, TargetUp
<1> QED
  BY <1>3, <1>4, <1>5 DEF CutoverInv, HolderInv

(* RestoreReceipts: Archived receipts come back after a final abort only. *)
LEMMA RestoreReceiptsKeeps ==
    ASSUME CutoverInv, RestoreReceipts
    PROVE  CutoverInv'
<1>1. /\ CutoverShape /\ EntryInv /\ holder.at = "restore" /\ GoTo("reactivate")
      /\ holder.cmd # "none" /\ tx.abort = "final" /\ tx \in TxRecords /\ state \in StateFiles
      /\ UNCHANGED <<legacy, target, units, schema, host, mishaps, invoked>>
  BY LockFreeFacts DEF CutoverInv, CutoverShape, RestoreReceipts, AtStep, EntryInv
<1>2. tx.journal /\ tx.receipt = "final" /\ tx.completion = "none"
  BY <1>1 DEF CutoverInv, CutoverShape, TxRecords, RetireInv, DocumentInv
<1>3. TxKept /\ tx'.abort = tx.abort
  BY <1>1 DEF TxKept, TxRecords, RestoreReceipts
<1>4. /\ state' \in StateFiles /\ state'.install = state.install
      /\ state'.active = state.active /\ state'.installed = state.installed
  BY <1>1 DEF RestoreReceipts, StateFiles, TxRecords
<1>5. CutoverShape'
  BY <1>1, <1>3, <1>4, GoesToStep DEF TxKept, CutoverShape, HolderSteps
<1>6. RetireInv' /\ MigrationInv' /\ DocumentInv'
  BY <1>1, <1>2, <1>3, <1>4 DEF TxKept, CutoverInv, RetireInv, MigrationInv, DocumentInv,
     NoTargetFiles, NoTargetTraces, LegacyGone, TargetBoxes, TargetUp
<1>7. HolderInv'
  BY <1>1, <1>2, <1>3, <1>4, GoesToStep
  DEF TxKept, HolderSteps, HolderInv, EntryInv, InstallInv, AbortInv
<1> QED
  BY <1>5, <1>6, <1>7 DEF CutoverInv, HolderInv

-----------------------------------------------------------------------------
(* Steps of which only the command that holds the lock knows.              *)

(* A command is started on a free lock, or one step of it only looks. *)
LEMMA HolderOnlyKeeps ==
    ASSUME CutoverInv,
           \/ RetireByHand \/ ReactivateBegins \/ ReactivateAnswers \/ ReactivateByHand
           \/ InstallByHand \/ AbortByHand \/ AbortVerifiesHost \/ AdoptBegins \/ VerifyAbort
    PROVE  CutoverInv'
<1>1. /\ CutoverShape /\ EntryInv /\ holder \in HolderRecords /\ tx \in TxRecords
      /\ UNCHANGED <<state, tx, legacy, target, units, schema, host, mishaps, invoked>>
  BY DEF CutoverInv, CutoverShape, RetireByHand, ReactivateBegins, ReactivateAnswers,
     ReactivateByHand, InstallByHand, AbortByHand, AbortVerifiesHost, AdoptBegins, VerifyAbort
<1>2. SUFFICES holder' \in HolderRecords /\ HolderInv'
  BY <1>1, HolderMoves DEF CutoverShape
<1>3. CASE RetireByHand
  <2>1. /\ holder' \in HolderRecords /\ holder'.cmd = "retire" /\ holder'.at = "retire"
        /\ ~holder'.retired /\ tx.receipt # "final"
    BY <1>3 DEF RetireByHand, LockFree, HolderRecords, HolderSteps, CutoverCommands
  <2> QED
    BY <1>1, <2>1 DEF CutoverInv, RetireInv, HolderInv, EntryInv, InstallInv, AbortInv
<1>4. CASE ReactivateBegins
  <2>1. holder.at = "reactivate" /\ holder.cmd # "none"
    BY <1>1, <1>4, LockFreeFacts DEF ReactivateBegins, AtStep, EntryInv
  <2>2. CASE Fail \/ holder' = LockFree
    BY <1>1, <2>2, EndsHolding
  <2>3. CASE ReactivationAuthorized /\ GoTo("start")
    <3>1. TargetBoxes = {} /\ NoTargetFiles(state)
      BY <2>3 DEF ReactivationAuthorized, ReactivationSurface, ReactivationSubset,
         ReleaseStateBound, CutoverInv, RetireInv
    <3> QED
      BY <1>1, <2>1, <2>3, <3>1, GoesToStep
      DEF HolderSteps, HolderInv, EntryInv, InstallInv, AbortInv, TargetBoxes, NoTargetFiles
  <2> QED
    BY <1>4, <2>2, <2>3 DEF ReactivateBegins
<1>5. CASE ReactivateAnswers
  BY <1>1, <1>5, EndsHolding DEF ReactivateAnswers
<1>6. CASE ReactivateByHand
  <2>1. /\ holder' \in HolderRecords /\ holder'.cmd = "reactivate" /\ holder'.at = "reactivate"
        /\ ~holder'.retired /\ tx.abort = "final"
    BY <1>6 DEF ReactivateByHand, LockFree, HolderRecords, HolderSteps, CutoverCommands
  <2> QED
    BY <1>1, <2>1 DEF HolderInv, EntryInv, InstallInv, AbortInv
<1>7. CASE InstallByHand
  <2>1. /\ holder' \in HolderRecords /\ holder'.cmd = "install" /\ holder'.at = "install"
        /\ ~holder'.retired /\ tx.journal
    BY <1>7 DEF InstallByHand, LockFree, HolderRecords, HolderSteps, CutoverCommands
  <2> QED
    BY <1>1, <2>1 DEF HolderInv, EntryInv, InstallInv, AbortInv
<1>8. CASE AbortByHand
  <2>1. /\ holder' \in HolderRecords /\ holder'.cmd = "abort" /\ holder'.at = "abort"
        /\ ~holder'.retired
    BY <1>8 DEF AbortByHand, LockFree, HolderRecords, HolderSteps, CutoverCommands
  <2> QED
    BY <1>1, <2>1 DEF HolderInv, EntryInv, InstallInv, AbortInv
<1>9. CASE AbortVerifiesHost
  <2>1. CASE Fail
    BY <1>1, <2>1, EndsHolding
  <2>2. CASE GoTo("abort_state")
    <3>1. holder.at = "abort_host" /\ holder.cmd # "none"
      BY <1>1, <1>9, LockFreeFacts DEF AbortVerifiesHost, AtStep, EntryInv
    <3> QED
      BY <1>1, <2>2, <3>1, GoesToStep
      DEF CutoverInv, HolderSteps, HolderInv, EntryInv, InstallInv, AbortInv, TargetBoxes
  <2> QED
    BY <1>9, <2>1, <2>2 DEF AbortVerifiesHost
<1>10. CASE AdoptBegins
  <2>1. /\ holder' \in HolderRecords /\ holder'.cmd = "adopt" /\ holder'.retired = tx.journal
        /\ holder'.at = IF tx.journal THEN "journal" ELSE "retire"
        /\ holder'.needs <=> tx.journal /\ Classification = "needs_reactivation"
    BY <1>1, <1>10
    DEF AdoptBegins, LockFree, HolderRecords, HolderSteps, EntrySteps, CutoverCommands, TxRecords
  <2>2. tx.journal => tx.receipt = "final"
    BY DEF CutoverInv, RetireInv
  <2>3. tx.journal /\ tx.abort = "final" => holder'.needs
    <3>1. ~tx.journal \/ Classification # "error"
      BY <1>10 DEF AdoptBegins, PreflightPasses
    <3> QED
      BY <2>1, <3>1 DEF Classification
  <2> QED
    BY <1>1, <2>1, <2>2, <2>3 DEF HolderInv, EntryInv, InstallInv, AbortInv
<1>11. CASE VerifyAbort
  <2> DEFINE seen == [holder EXCEPT !.authority = @ \/ ~holder.trap]
  <2>1. /\ holder.at = "abort_verify" /\ holder.cmd # "none"
        /\ holder' = IF NothingOfTarget THEN [seen EXCEPT !.at = "restore"] ELSE Failed(seen)
    BY <1>1, <1>11, LockFreeFacts DEF VerifyAbort, AtStep, EntryInv
  <2>2. seen \in HolderRecords /\ seen.cmd = holder.cmd /\ seen.retired = holder.retired
    BY <1>1 DEF HolderRecords
  <2> HIDE DEF seen
  <2>3. CASE NothingOfTarget
    <3>1. /\ holder' \in HolderRecords /\ holder'.at = "restore" /\ holder'.cmd = holder.cmd
          /\ holder'.retired = holder.retired
      BY <2>1, <2>2, <2>3 DEF HolderRecords, HolderSteps, EntrySteps
    <3> QED
      BY <1>1, <2>1, <3>1 DEF HolderInv, EntryInv, InstallInv, AbortInv
  <2>4. CASE holder' = LockFree
    BY <1>1, <2>4, EndsHolding
  <2>5. CASE ~NothingOfTarget /\ holder' # LockFree
    <3>1. /\ holder' \in HolderRecords /\ holder'.cmd = "adopt" /\ holder.retired
          /\ holder'.at \in {"abort", "forward"}
      BY <1>1, <2>1, <2>2, <2>5, FailedFacts
    <3> QED
      BY <1>1, <3>1 DEF HolderInv, EntryInv, InstallInv, AbortInv
  <2> QED
    BY <2>3, <2>4, <2>5
<1> QED
  BY <1>3, <1>4, <1>5, <1>6, <1>7, <1>8, <1>9, <1>10, <1>11

(* A command is killed, or a fault comes or goes. *)
LEMMA KillAndFaultsKeep ==
    ASSUME CutoverInv, Kill \/ FaultArises \/ FaultClears
    PROVE  CutoverInv'
<1>1. /\ CutoverShape /\ EntryInv /\ host' \in SUBSET Faults /\ mishaps' \in 0 .. MaxMishaps
      /\ UNCHANGED <<state, tx, legacy, target, units, schema, invoked>>
      /\ holder' = LockFree \/ holder' = holder
  BY MishapAssumption
  DEF CutoverInv, CutoverShape, Kill, FaultArises, FaultClears, Mishap
<1>2. holder' \in HolderRecords /\ HolderInv'
  <2>1. CASE holder' = LockFree
    BY <1>1, <2>1, EndsHolding
  <2>2. CASE holder' = holder
    BY <1>1, <2>2
    DEF CutoverInv, CutoverShape, HolderInv, EntryInv, InstallInv, AbortInv, TargetBoxes
  <2> QED
    BY <1>1, <2>1, <2>2
<1> QED
  BY <1>1, <1>2, HolderMoves

-----------------------------------------------------------------------------
(* The invariant and what follows from it.                                 *)

(* The legacy release serves and the target has left no trace. *)
LEMMA CutoverInit == HostInit => CutoverInv
<1> SUFFICES ASSUME HostInit PROVE CutoverInv
  OBVIOUS
<1>1. PICK old \in BOOLEAN : state = NoRelease(old)
  BY DEF HostInit
<1>2. \A b \in BOOLEAN : NoRelease(b) \in StateFiles /\ NoTargetFiles(NoRelease(b))
  BY DEF NoRelease, StateFiles, NoTargetFiles
<1>3. /\ tx \in TxRecords /\ tx.receipt = "none" /\ ~tx.journal /\ tx.abort = "none"
      /\ tx.archive = "none" /\ tx.phase = "none" /\ tx.completion = "none"
  <2>1. NoRelease(FALSE) \in StateFiles
    BY <1>2
  <2>2. 0 \in 0 .. 2
    OBVIOUS
  <2>3. {} \in SUBSET {"state", "intent", "units"}
    OBVIOUS
  <2> QED
    BY <2>1, <2>2, <2>3 DEF HostInit, TxRecords
<1>4. 1 \in 1 .. 2 /\ 0 \in 0 .. MaxMishaps
  BY MishapAssumption
<1>5. /\ legacy \in LegacyRecords /\ legacy.net /\ \A s \in LegacyServices : legacy.box[s] = "up"
  BY <1>4 DEF HostInit, LegacyRecords, Boxes
<1>6. /\ target \in TargetRecords /\ TargetBoxes = {} /\ ~target.net /\ ~target.marker
      /\ \A s \in TargetServices : target.box[s] = "gone"
  BY DEF HostInit, TargetRecords, Boxes, TargetBoxes
<1>7. CutoverShape
  BY <1>1, <1>2, <1>3, <1>4, <1>5, <1>6, LockFreeFacts DEF HostInit, CutoverShape
<1>8. RetireInv /\ MigrationInv
  BY <1>1, <1>2, <1>3, <1>5, <1>6 DEF HostInit, RetireInv, MigrationInv, NoTargetFiles,
     NoTargetTraces, ClosedPhases, TargetServices
<1>9. DocumentInv
  BY <1>1, <1>2, <1>3, <1>6
  DEF HostInit, DocumentInv, NoTargetFiles, NoTargetTraces, TargetUp, TargetServices
<1>10. EntryInv /\ InstallInv /\ AbortInv
  BY LockFreeFacts DEF HostInit, EntryInv, InstallInv, AbortInv
<1> QED
  BY <1>7, <1>8, <1>9, <1>10 DEF CutoverInv

(* Every step of every command, of the watchdog and of the host keeps it. *)
LEMMA CutoverStep == CutoverInv /\ [CutoverNext]_hostVars => CutoverInv'
<1> SUFFICES ASSUME CutoverInv, [CutoverNext]_hostVars PROVE CutoverInv'
  OBVIOUS
<1>1. CASE EntryNext
  BY <1>1, HolderOnlyKeeps, WriteJournalKeeps, ArchiveOpensKeeps, ArchiveMovesKeeps,
     ArchivePublishesKeeps, CompletionOpensKeeps, CompletionPublishesKeeps, RestoreReceiptsKeeps,
     ForwardFixKeeps
  DEF EntryNext
<1>2. CASE RetireNext
  BY <1>2, HolderOnlyKeeps, RetireBeginsKeeps, RetireStopsKeeps, RetireRemovesKeeps,
     RetireRemovesNetworkKeeps, RetirePublishesKeeps
  DEF RetireNext
<1>3. CASE InstallNext
  BY <1>3, HolderOnlyKeeps, InstallBeginsKeeps, InstallPersistsContractKeeps,
     InstallPlacesUnitsKeeps, InstallPublishesIntentKeeps, InstallPreflightsKeeps,
     InstallPassesPreflightKeeps, InstallInvokesMigrationKeeps, InstallOpensDataKeeps,
     InstallMigratesKeeps, InstallRecordsKeeps, InstallStartsCoreKeeps, InstallStartsProxyKeeps,
     InstallCommitsKeeps, InstallPublishesKeeps, InstallClearsIntentKeeps
  DEF InstallNext
<1>4. CASE AbortNext
  BY <1>4, HolderOnlyKeeps, AbortBeginsKeeps, AbortArchivesUnitsKeeps, AbortRemovesContainersKeeps,
     AbortRemovesMarkerKeeps, AbortArchivesStateKeeps, AbortArchivesIntentKeeps, AbortPublishesKeeps
  DEF AbortNext
<1>5. CASE ReactivateNext
  BY <1>5, HolderOnlyKeeps, ReactivateStartsKeeps DEF ReactivateNext
<1>6. CASE ReconcileNext
  BY <1>6, ReconcileIntentKeeps, ReconcileInvalidKeeps, ReconcileActiveKeeps DEF ReconcileNext
<1>7. CASE MishapNext
  BY <1>7, CommandFailsKeeps, KillAndFaultsKeep, PowerLossKeeps, WatchdogFailsKeeps,
     RecreateLegacyKeeps
  DEF MishapNext
<1>8. CASE UNCHANGED hostVars
  <2>1. CutoverShape /\ UNCHANGED <<state, tx, legacy, target, units, schema, invoked>>
    BY <1>8 DEF CutoverInv, hostVars
  <2>2. HolderInv'
    BY <1>8 DEF CutoverInv, hostVars, HolderInv, EntryInv, InstallInv, AbortInv, TargetBoxes
  <2> QED
    BY <1>8, <2>1, <2>2, HolderMoves DEF hostVars, CutoverShape
<1> QED
  BY <1>1, <1>2, <1>3, <1>4, <1>5, <1>6, <1>7, <1>8 DEF CutoverNext, CommandNext

(* The invariant above holds of every behaviour of commands, watchdog and host. *)
THEOREM CutoverInvariant == CutoverSpec => []CutoverInv
<1>1. HostInit => CutoverInv
  BY CutoverInit
<1>2. CutoverInv /\ [CutoverNext]_hostVars => CutoverInv'
  BY CutoverStep
<1> QED
  BY <1>1, <1>2, PTL DEF CutoverSpec

(* Where a legacy container is left, the migration was not announced. *)
LEMMA LegacyMeansUntouched ==
    ASSUME CutoverInv, ~LegacyGone
    PROVE  /\ tx.receipt # "final" \/ (tx.abort = "final" /\ ~InstallOnRecord)
           /\ ~invoked /\ schema = "source" /\ TargetBoxes \subseteq {"page"}
           /\ target.box["page"] # "gone" => legacy.box["proxy"] # "up"
<1>1. CutoverShape
  BY DEF CutoverInv
<1>2. tx.receipt # "final" \/ (tx.abort = "final" /\ ~InstallOnRecord)
  BY DEF CutoverInv, RetireInv
<1>3. CASE tx.receipt # "final"
  BY <1>1, <1>3 DEF CutoverInv, CutoverShape, RetireInv, MigrationInv, NoTargetFiles, NoTargetTraces,
     TargetBoxes, TargetServices, ClosedPhases
<1>4. CASE tx.abort = "final" /\ ~InstallOnRecord
  BY <1>1, <1>4 DEF CutoverInv, CutoverShape, DocumentInv, MigrationInv, ClosedPhases
<1> QED
  BY <1>2, <1>3, <1>4

(* OneStackServes: each API on the schema of its release, one proxy at the edge,
   whatever fails, is killed or is run again (adopt-offline.sh, reactivate, reconcile). *)
THEOREM CutoverOneStackServes == CutoverSpec => []OneStackServes
<1>1. CutoverInv => OneStackServes
  <2> SUFFICES ASSUME CutoverInv PROVE OneStackServes
    OBVIOUS
  <2>1. CutoverShape
    BY DEF CutoverInv
  <2>2. CutoverTypeOK
    <3>1. HostTypeOK
      BY <2>1 DEF CutoverShape, HostTypeOK, StateFiles, TxRecords, LegacyRecords, TargetRecords
    <3> QED
      BY <2>1, <3>1 DEF CutoverTypeOK, CutoverShape, HolderRecords, HolderSteps
  <2>3. legacy.box["api"] = "up" \/ legacy.box["proxy"] = "up" => ~LegacyGone
    BY LegacyServiceNames DEF LegacyGone
  <2>4. WritersMatchSchema
    BY <2>3, LegacyMeansUntouched DEF WritersMatchSchema, CutoverInv, MigrationInv
  <2>5. EdgeServedOnce
    BY <2>3, LegacyMeansUntouched
    DEF EdgeServedOnce, CutoverInv, DocumentInv, TargetBoxes, TargetUp, TargetServices
  <2> QED
    BY <2>2, <2>4, <2>5 DEF OneStackServes
<1> QED
  BY <1>1, CutoverInvariant, PTL

(* BoundarySound: an announced migration stays on record over crashes and re-runs, a
   published abort means an untouched database until an install is on record again, and
   an install on record means a retired legacy release (install-offline.sh,
   offline-pre-migration-abort.py, reactivate). *)
THEOREM CutoverBoundarySound == CutoverSpec => []BoundarySound
<1>1. CutoverInv => BoundarySound
  <2> SUFFICES ASSUME CutoverInv PROVE BoundarySound
    OBVIOUS
  <2>1. BoundaryStaysClosed
    BY DEF CutoverInv, MigrationInv, BoundaryStaysClosed
  <2>2. AbortMeansUntouched
    BY DEF CutoverInv, CutoverShape, MigrationInv, DocumentInv, AbortMeansUntouched, ClosedPhases
  <2>3. InstallMeansRetired
    BY DEF CutoverInv, RetireInv, NoTargetFiles, InstallMeansRetired
  <2> QED
    BY <2>1, <2>2, <2>3 DEF BoundarySound
<1> QED
  BY <1>1, CutoverInvariant, PTL

(* RecordsTrue: the retirement intent comes before the first container goes, a completion
   stands on a committed release, the watchdog has its contract, and a cut-over that was
   interrupted before its install is accepted again. *)
THEOREM CutoverRecordsTrue == CutoverSpec => []RecordsTrue
<1>1. CutoverInv => RecordsTrue
  <2> SUFFICES ASSUME CutoverInv PROVE RecordsTrue
    OBVIOUS
  <2>1. CutoverShape
    BY DEF CutoverInv
  <2>2. LegacyRemovedByReceipt
    BY <2>1 DEF CutoverInv, CutoverShape, TxRecords, RetireInv, LegacyRemovedByReceipt, NoTargetTraces
  <2>3. CompletionMeansCommitted
    BY <2>1 DEF CutoverInv, CutoverShape, TxRecords, RetireInv, DocumentInv, MigrationInv,
       CompletionMeansCommitted
  <2>4. WatchdogHasContract
    BY DEF CutoverInv, DocumentInv, WatchdogHasContract
  <2>5. ResumesBeforeInstall
    <3> SUFFICES ASSUME host \subseteq {"stale", "port", "edge"}, tx.receipt # "none",
                        tx.ids = Planned, tx.abort = "none", state = tx.bound, ~units,
                        ~(tx.journal /\ state.old)
                 PROVE  PreflightPasses
      BY DEF ResumesBeforeInstall
    <3>1. /\ KeyPair /\ ReleaseIntact /\ HostIsolated /\ EvidenceForState
      BY DEF KeyPair, ReleaseIntact, HostIsolated, ContainersAsBaseline, ServicesAsBaseline,
         EvidenceForState, BackupEvidence, BackupDocumentSigned, ArtifactsUnchanged,
         ControlManifestValid, ControlArchiveBound
    <3>2. /\ NoTargetFiles(state) /\ NoTargetTraces
          /\ tx.receipt = "final" => ProjectEmpty
      BY DEF CutoverInv, RetireInv, DocumentInv, NoTargetTraces, ProjectEmpty, LabelsExact
    <3>3. tx.receipt = "intent" \/ tx.receipt = "final"
      BY <2>1 DEF CutoverShape, TxRecords
    <3>4. RetireDryRun
      BY <3>1, <3>2, <3>3
      DEF RetireDryRun, RetireIntent, RetireFinal, ReceiptVerifies, ReleaseStateBound
    <3>5. tx.completion = "none" /\ tx.archive # "failed"
      BY <3>2 DEF CutoverInv, DocumentInv, NoTargetFiles
    <3>6. CASE tx.journal
      <4>1. tx.receipt = "final"
        BY <3>6 DEF CutoverInv, RetireInv
      <4>2. Classification = "not_started"
        BY <3>2, <3>5, <3>6, <4>1 DEF Classification, NoTargetFiles, NoTargetTraces
      <4>3. ArchiveDistribution
        BY <3>5, <3>6 DEF ArchiveDistribution
      <4> QED
        BY <3>1, <3>4, <3>6, <4>1, <4>2, <4>3 DEF PreflightPasses
    <3>7. CASE ~tx.journal
      BY <3>1, <3>4, <3>7 DEF CutoverInv, RetireInv, PreflightPasses
    <3> QED
      BY <3>6, <3>7
  <2> QED
    BY <2>2, <2>3, <2>4, <2>5 DEF RecordsTrue
<1> QED
  BY <1>1, CutoverInvariant, PTL

-----------------------------------------------------------------------------
(* The cut-over implements DataHandover.                                   *)

\* A step that opens and closes no data directory.
SameUsers ==
    /\ legacy'.box["postgres"] = "up" <=> legacy.box["postgres"] = "up"
    /\ target'.box["postgres"] = "up" <=> target.box["postgres"] = "up"

(* Who has the data open is the two PostgreSQL containers. *)
LEMMA UsersAre ==
    /\ DataUsers \subseteq {"legacy", "target"}
    /\ "legacy" \in DataUsers <=> legacy.box["postgres"] = "up"
    /\ "target" \in DataUsers <=> target.box["postgres"] = "up"
  BY DEF DataUsers

(* The same after a step. *)
LEMMA UsersBecome ==
    /\ DataUsers' \subseteq {"legacy", "target"}
    /\ "legacy" \in DataUsers' <=> legacy'.box["postgres"] = "up"
    /\ "target" \in DataUsers' <=> target'.box["postgres"] = "up"
  BY DEF DataUsers

(* Without a change at PostgreSQL, the schema and the record the promise stutters. *)
LEMMA SameUsersStutter ==
    ASSUME SameUsers, UNCHANGED <<schema, invoked>>
    PROVE  [Handover!DataNext]_(Handover!data)
<1>1. \A stack : stack \in DataUsers' <=> stack \in DataUsers
  BY UsersAre, UsersBecome DEF SameUsers
<1>2. DataUsers' = DataUsers
  BY <1>1, Zenon
<1> QED
  BY <1>2 DEF Handover!data

(* Stopping other services keeps PostgreSQL as it is. *)
LEMMA StopsKeepData ==
    ASSUME NEW S, NEW boxes \in [S -> Boxes], "postgres" \in S, NEW services,
           "postgres" \notin services
    PROVE  Stops(boxes, services)["postgres"] = "up" <=> boxes["postgres"] = "up"
  BY StopsFacts

(* A step of the install or of its failure on the target's containers. *)
LEMMA InstallFailsSameUsers ==
    ASSUME CutoverShape, NEW owned, InstallFails(owned), UNCHANGED legacy
    PROVE  SameUsers
<1>1. /\ target.box \in [TargetServices -> Boxes] /\ "postgres" \in TargetServices
      /\ "postgres" \notin Business
  BY DEF CutoverShape, TargetRecords, TargetServices, Business
<1>2. target'.box = target.box \/ target'.box = Stops(target.box, Business)
  BY DEF InstallFails, CutoverShape, TargetRecords
<1> QED
  BY <1>1, <1>2, StopsKeepData DEF SameUsers

(* Each step of the cut-over is a step of the promise, or none. *)
LEMMA HandoverStep ==
    ASSUME CutoverInv, [CutoverNext]_hostVars
    PROVE  [Handover!DataNext]_(Handover!data)
<1>1. /\ CutoverShape
      /\ legacy.box \in [LegacyServices -> Boxes] /\ "postgres" \in LegacyServices
      /\ target.box \in [TargetServices -> Boxes] /\ "postgres" \in TargetServices
      /\ legacy \in LegacyRecords /\ target \in TargetRecords
  BY LegacyServiceNames DEF CutoverInv, CutoverShape, LegacyRecords, TargetRecords, TargetServices
<1>2. legacy.box["postgres"] = "up" => ~invoked /\ schema = "source" /\ "target" \notin DataUsers
  <2>1. legacy.box["postgres"] = "up" => ~LegacyGone
    BY <1>1 DEF LegacyGone
  <2> QED
    BY <1>1, <2>1, LegacyMeansUntouched, UsersAre DEF TargetBoxes
<1>3. CASE UNCHANGED <<legacy, target, schema, invoked>>
  BY <1>3, SameUsersStutter DEF SameUsers
<1>4. CASE RetireNext
  <2>1. CASE UNCHANGED legacy
    BY <1>3, <1>4, <2>1 DEF RetireNext, RetireByHand, RetireBegins, RetireStops, RetireRemoves,
       RetireRemovesNetwork, RetirePublishes
  <2>2. CASE RetireStops /\ legacy' # legacy
    <3>1. PICK s \in LegacyServices : legacy' = [legacy EXCEPT !.box[s] = "down"]
      BY <2>2 DEF RetireStops
    <3>2. UNCHANGED <<target, schema, invoked>>
      BY <2>2 DEF RetireStops
    <3>3. CASE s = "postgres" /\ legacy.box["postgres"] = "up"
      <4>1. legacy'.box["postgres"] # "up"
        BY <1>1, <3>1, <3>3 DEF LegacyRecords
      <4>2. DataUsers' = {}
        BY <1>2, <3>2, <3>3, <4>1, UsersAre, UsersBecome
      <4> QED
        BY <3>2, <4>2 DEF Handover!DataNext, Handover!Close
    <3>4. CASE ~(s = "postgres" /\ legacy.box["postgres"] = "up")
      <4>1. SameUsers
        BY <1>1, <3>1, <3>2, <3>4 DEF LegacyRecords, SameUsers
      <4> QED
        BY <3>2, <4>1, SameUsersStutter
    <3> QED
      BY <3>3, <3>4
  <2>3. CASE RetireRemoves /\ legacy' # legacy
    <3>1. PICK s \in LegacyServices : /\ legacy.box[s] = "down"
                                      /\ legacy' = [legacy EXCEPT !.box[s] = "gone"]
      BY <2>3 DEF RetireRemoves
    <3>2. SameUsers /\ UNCHANGED <<schema, invoked>>
      BY <1>1, <2>3, <3>1 DEF RetireRemoves, LegacyRecords, SameUsers
    <3> QED
      BY <3>2, SameUsersStutter
  <2>4. CASE RetireRemovesNetwork
    <3>1. SameUsers /\ UNCHANGED <<schema, invoked>>
      BY <1>1, <2>4 DEF RetireRemovesNetwork, LegacyRecords, SameUsers
    <3> QED
      BY <3>1, SameUsersStutter
  <2> QED
    BY <1>4, <2>1, <2>2, <2>3, <2>4
    DEF RetireNext, RetireByHand, RetireBegins, RetirePublishes
<1>5. CASE ReactivateNext
  <2>1. CASE legacy' = legacy
    BY <1>3, <1>5, <2>1 DEF ReactivateNext, ReactivateBegins, ReactivateStarts, ReactivateAnswers,
       ReactivateByHand
  <2>2. CASE legacy' # legacy
    <3>1. ReactivateStarts
      BY <1>5, <2>2 DEF ReactivateNext, ReactivateBegins, ReactivateAnswers, ReactivateByHand
    <3>2. PICK s : legacy' = [legacy EXCEPT !.box[s] = "up", !.net = TRUE, !.gen = 2]
      BY <2>2, <3>1 DEF ReactivateStarts
    <3>3. /\ UNCHANGED <<target, schema, invoked>> /\ TargetBoxes = {} /\ ~InstallOnRecord
      BY <3>1 DEF ReactivateStarts, AtStep, CutoverInv, EntryInv, NoTargetFiles
    <3>4. ~invoked /\ schema = "source" /\ target.box["postgres"] # "up"
      BY <1>1, <3>3
      DEF CutoverInv, CutoverShape, DocumentInv, MigrationInv, ClosedPhases, TargetBoxes
    <3>5. legacy'.box = [legacy.box EXCEPT ![s] = "up"]
      BY <1>1, <3>2 DEF LegacyRecords
    <3>6. CASE s = "postgres" /\ legacy.box["postgres"] # "up"
      <4>1. legacy'.box["postgres"] = "up"
        BY <1>1, <3>5, <3>6
      <4>2. DataUsers = {} /\ DataUsers' = {"legacy"}
        BY <3>3, <3>4, <3>6, <4>1, UsersAre, UsersBecome
      <4> QED
        BY <3>3, <3>4, <4>2 DEF Handover!DataNext, Handover!OpenLegacy
    <3>7. CASE ~(s = "postgres" /\ legacy.box["postgres"] # "up")
      <4>1. legacy'.box["postgres"] = legacy.box["postgres"]
        BY <1>1, <3>5, <3>7
      <4> QED
        BY <3>3, <4>1, SameUsersStutter DEF SameUsers
    <3> QED
      BY <3>6, <3>7
  <2> QED
    BY <2>1, <2>2
<1>6. CASE InstallNext
  <2>1. legacy' = legacy
    BY <1>6 DEF InstallNext, InstallBegins, InstallPersistsContract, InstallPlacesUnits,
       InstallPublishesIntent, InstallPreflights, InstallPassesPreflight, InstallInvokesMigration,
       InstallOpensData, InstallMigrates, InstallRecords, InstallStartsCore, InstallStartsProxy,
       InstallCommits, InstallPublishes, InstallClearsIntent, InstallByHand
  <2>2. CASE InstallInvokesMigration
    <3>1. /\ UNCHANGED <<target, schema>> /\ invoked' = TRUE
          /\ tx.journal /\ InstallOnRecord
      BY <2>2 DEF InstallInvokesMigration, AtStep, CutoverInv, EntryInv, InstallInv
    <3>2. "legacy" \notin DataUsers
      BY <1>1, <3>1, UsersAre DEF CutoverInv, RetireInv, LegacyGone
    <3>3. DataUsers' = DataUsers
      BY <2>1, <3>1 DEF DataUsers
    <3> QED
      BY <3>1, <3>2, <3>3 DEF Handover!DataNext, Handover!Announce
  <2>3. CASE InstallOpensData
    <3>1. invoked /\ UNCHANGED <<schema, invoked>>
      BY <2>3 DEF InstallOpensData, AtStep, CutoverInv, InstallInv
    <3>2. target'.box["postgres"] = "up"
      BY <1>1, <2>3 DEF InstallOpensData, TargetRecords
    <3>3. "legacy" \notin DataUsers /\ DataUsers' = {"target"}
      BY <1>2, <2>1, <3>1, <3>2, UsersAre, UsersBecome
    <3> QED
      BY <3>1, <3>3 DEF Handover!DataNext, Handover!OpenTarget
  <2>4. CASE InstallMigrates
    <3>1. /\ invoked /\ target.box["postgres"] = "up" /\ schema' = "target"
          /\ UNCHANGED <<target, invoked>>
      BY <2>4 DEF InstallMigrates, AtStep, CutoverInv, InstallInv
    <3>2. "legacy" \notin DataUsers /\ DataUsers' = {"target"}
      BY <1>2, <2>1, <3>1, UsersAre, UsersBecome
    <3> QED
      BY <3>1, <3>2 DEF Handover!DataNext, Handover!OpenTarget
  <2>5. CASE InstallBegins
    <3>1. UNCHANGED <<schema, invoked>>
      BY <2>5 DEF InstallBegins
    <3>2. CASE UNCHANGED target
      BY <1>3, <2>1, <3>1, <3>2
    <3>3. CASE target' = [target EXCEPT !.box = [Stops(@, Business) EXCEPT !["oneoff"] = "gone"]]
      <4>1. Stops(target.box, Business) \in [TargetServices -> Boxes]
        BY <1>1, StopsFacts
      <4>2. target'.box["postgres"] = Stops(target.box, Business)["postgres"]
        BY <1>1, <3>3, <4>1 DEF TargetRecords, TargetServices
      <4>3. SameUsers
        BY <1>1, <2>1, <4>2, StopsKeepData DEF SameUsers, Business
      <4> QED
        BY <3>1, <4>3, SameUsersStutter
    <3>4. CASE InstallFails(StateOwned)
      BY <1>1, <2>1, <3>1, <3>4, InstallFailsSameUsers, SameUsersStutter
    <3> QED
      BY <2>5, <3>2, <3>3, <3>4 DEF InstallBegins
  <2>6. CASE InstallPublishesIntent
    BY <1>1, <1>3, <2>1, <2>6, InstallFailsSameUsers, SameUsersStutter DEF InstallPublishesIntent
  <2>7. CASE \/ InstallPersistsContract \/ InstallPassesPreflight
             \/ InstallStartsCore \/ InstallStartsProxy
    <3>1. target'.box["postgres"] = target.box["postgres"] /\ UNCHANGED <<schema, invoked>>
      BY <1>1, <2>7 DEF InstallPersistsContract, InstallPassesPreflight,
         InstallStartsCore, InstallStartsProxy, TargetRecords
    <3> QED
      BY <2>1, <3>1, SameUsersStutter DEF SameUsers
  <2>8. CASE \/ InstallPlacesUnits \/ InstallRecords \/ InstallCommits \/ InstallPublishes
             \/ InstallClearsIntent \/ InstallByHand
    BY <1>3, <2>8 DEF InstallPlacesUnits, InstallRecords, InstallCommits, InstallPublishes,
       InstallClearsIntent, InstallByHand
  <2>9. CASE InstallPreflights
    <3>1. UNCHANGED <<schema, invoked>>
      BY <2>9 DEF InstallPreflights
    <3>2. CASE InstallFails(TRUE)
      BY <1>1, <2>1, <3>1, <3>2, InstallFailsSameUsers, SameUsersStutter
    <3>3. CASE target' = [target EXCEPT !.box["oneoff"] = "up", !.marker = TRUE]
      <4>1. target'.box["postgres"] = target.box["postgres"]
        BY <1>1, <3>3 DEF TargetRecords
      <4> QED
        BY <2>1, <3>1, <4>1, SameUsersStutter DEF SameUsers
    <3> QED
      BY <2>9, <3>2, <3>3 DEF InstallPreflights
  <2> QED
    BY <1>6, <2>2, <2>3, <2>4, <2>5, <2>6, <2>7, <2>8, <2>9 DEF InstallNext
<1>7. CASE AbortNext
  <2>1. UNCHANGED <<legacy, schema, invoked>>
    BY <1>7 DEF AbortNext, AbortBegins, AbortArchivesUnits, AbortRemovesContainers,
       AbortRemovesMarker, AbortVerifiesHost, AbortArchivesState, AbortArchivesIntent,
       AbortPublishes, AbortByHand
  <2>2. target'.box["postgres"] = target.box["postgres"]
    BY <1>1, <1>7 DEF AbortNext, AbortBegins, AbortArchivesUnits, AbortRemovesContainers,
       AbortRemovesMarker, AbortVerifiesHost, AbortArchivesState, AbortArchivesIntent,
       AbortPublishes, AbortByHand, TargetRecords
  <2> QED
    BY <2>1, <2>2, SameUsersStutter DEF SameUsers
<1>8. CASE EntryNext
  <2>1. CASE ForwardFix
    <3>1. UNCHANGED <<schema, invoked>>
      BY <2>1 DEF ForwardFix
    <3>2. legacy'.box = legacy.box \/ legacy'.box = Stops(legacy.box, {"proxy"})
      BY <1>1, <2>1 DEF ForwardFix, LegacyRecords
    <3>3. Stops(target.box, {"proxy"}) \in [TargetServices -> Boxes]
      BY <1>1, StopsFacts
    <3>4. target'.box["postgres"] \in {target.box["postgres"], Stops(target.box, {"proxy"})["postgres"]}
      <4>1. CASE target'.box = target.box
        BY <4>1
      <4>2. CASE target'.box # target.box
        <5>1. PICK page \in {target.box["page"], "up"} :
                  target' = [target EXCEPT !.contract = TRUE, !.net = @ \/ page = "up",
                                 !.box = [Stops(@, {"proxy"}) EXCEPT !["page"] = page]]
          BY <1>1, <2>1, <4>2 DEF ForwardFix, TargetRecords
        <5>2. target'.box = [Stops(target.box, {"proxy"}) EXCEPT !["page"] = page]
          BY <1>1, <5>1 DEF TargetRecords
        <5> QED
          BY <1>1, <3>3, <5>2
      <4> QED
        BY <4>1, <4>2
    <3>5. SameUsers
      BY <1>1, <3>2, <3>4, StopsKeepData DEF SameUsers
    <3> QED
      BY <3>1, <3>5, SameUsersStutter
  <2>2. CASE ~ForwardFix
    BY <1>3, <1>8, <2>2 DEF EntryNext, AdoptBegins, WriteJournal, ArchiveOpens, ArchiveMoves,
       ArchivePublishes, CompletionOpens, CompletionPublishes, VerifyAbort, RestoreReceipts
  <2> QED
    BY <2>1, <2>2
<1>9. CASE ReconcileNext
  <2>1. UNCHANGED <<schema, invoked>> /\ "postgres" \notin Business \cup {"oneoff"}
    BY <1>9 DEF ReconcileNext, ReconcileIntent, ReconcileInvalid, ReconcileActive, Business
  <2>2. Closed(target.box) \in [TargetServices -> Boxes]
    BY <1>1, StopsFacts DEF Closed
  <2>3. CASE ReconcileIntent \/ ReconcileInvalid
    <3>1. legacy'.box = Closed(legacy.box)
      BY <1>1, <2>3 DEF ReconcileIntent, ReconcileInvalid, LegacyRecords
    <3>2. target'.box["postgres"] = Closed(target.box)["postgres"]
      BY <1>1, <2>2, <2>3 DEF ReconcileIntent, ReconcileInvalid, TargetRecords, TargetServices
    <3>3. SameUsers
      BY <1>1, <2>1, <3>1, <3>2, StopsKeepData DEF SameUsers, Closed
    <3> QED
      BY <2>1, <3>3, SameUsersStutter
  <2>4. CASE ReconcileActive
    <3>1. legacy' = legacy /\ state.active
      BY <2>4 DEF ReconcileActive, Selection, ActiveOnRecord
    <3>2. CASE UNCHANGED target
      BY <1>3, <2>1, <3>1, <3>2
    <3>3. CASE target' = [target EXCEPT !.box = Closed(@)]
      <4>1. target'.box = Closed(target.box)
        BY <1>1, <3>3 DEF TargetRecords
      <4>2. SameUsers
        BY <1>1, <2>1, <3>1, <4>1, StopsKeepData DEF SameUsers, Closed
      <4> QED
        BY <2>1, <4>2, SameUsersStutter
    <3>4. CASE target' = [target EXCEPT !.net = TRUE, !.box =
                  [s \in TargetServices |-> CASE s = "page" -> "gone"
                                             [] s = "oneoff" -> target.box[s]
                                             [] OTHER -> "up"]]
      <4>1. target'.box["postgres"] = "up"
        BY <1>1, <3>4 DEF TargetRecords
      <4>2. invoked
        BY <3>1 DEF CutoverInv, MigrationInv
      <4>3. "legacy" \notin DataUsers /\ DataUsers' = {"target"}
        BY <1>2, <3>1, <4>1, <4>2, UsersAre, UsersBecome
      <4> QED
        BY <2>1, <4>2, <4>3 DEF Handover!DataNext, Handover!OpenTarget
    <3> QED
      BY <2>4, <3>2, <3>3, <3>4 DEF ReconcileActive
  <2> QED
    BY <1>9, <2>3, <2>4 DEF ReconcileNext
<1>10. CASE MishapNext
  <2>1. UNCHANGED <<schema, invoked>> /\ "postgres" \notin Business \cup {"oneoff"}
    BY <1>10 DEF MishapNext, CommandFails, Kill, PowerLoss, WatchdogFails, FaultArises,
       FaultClears, RecreateLegacy, Business
  <2>2. CASE CommandFails
    BY <1>1, <1>3, <2>1, <2>2, InstallFailsSameUsers, SameUsersStutter DEF CommandFails
  <2>3. CASE PowerLoss
    <3>1. legacy' = legacy /\ target'.box = Stops(target.box, Business \cup {"oneoff"})
      BY <1>1, <2>3 DEF PowerLoss, TargetRecords
    <3>2. SameUsers
      BY <1>1, <2>1, <3>1, StopsKeepData DEF SameUsers
    <3> QED
      BY <2>1, <3>2, SameUsersStutter
  <2>4. CASE RecreateLegacy
    <3>1. target' = target /\ legacy'.box = legacy.box
      BY <1>1, <2>4 DEF RecreateLegacy, LegacyRecords
    <3> QED
      BY <2>1, <3>1, SameUsersStutter DEF SameUsers
  <2>5. CASE Kill \/ FaultArises \/ FaultClears
    BY <1>3, <2>5 DEF Kill, FaultArises, FaultClears
  <2>6. CASE WatchdogFails
    <3>1. PICK stopped \in {{"proxy"}, Business} :
              /\ legacy' = [legacy EXCEPT !.box = Stops(@, stopped)]
              /\ target' = [target EXCEPT !.box = Stops(@, stopped)]
      BY <2>6 DEF WatchdogFails
    <3>2. /\ legacy'.box = Stops(legacy.box, stopped) /\ target'.box = Stops(target.box, stopped)
          /\ "postgres" \notin stopped
      BY <1>1, <2>1, <3>1 DEF LegacyRecords, TargetRecords
    <3>3. SameUsers
      BY <1>1, <3>2, StopsKeepData DEF SameUsers
    <3> QED
      BY <2>1, <3>3, SameUsersStutter
  <2> QED
    BY <1>10, <2>2, <2>3, <2>4, <2>5, <2>6 DEF MishapNext
<1>11. CASE UNCHANGED hostVars
  BY <1>3, <1>11 DEF hostVars
<1> QED
  BY <1>4, <1>5, <1>6, <1>7, <1>8, <1>9, <1>10, <1>11 DEF CutoverNext, CommandNext

(* HandoverRefined: one PostgreSQL at a time opens the data, the target only after the
   migration is announced, and the legacy release never again afterwards: the commands,
   the watchdog and the host together implement DataHandover. *)
THEOREM CutoverImplementsHandover == CutoverSpec => HandoverRefined
<1>1. HostInit => Handover!DataInit
  <2> SUFFICES ASSUME HostInit PROVE Handover!DataInit
    OBVIOUS
  <2>1. legacy.box["postgres"] = "up" /\ target.box["postgres"] = "gone"
    BY LegacyServiceNames DEF HostInit, TargetServices
  <2>2. DataUsers = {"legacy"}
    BY <2>1, UsersAre
  <2> QED
    BY <2>2 DEF HostInit, Handover!DataInit
<1>2. CutoverInv /\ [CutoverNext]_hostVars => [Handover!DataNext]_(Handover!data)
  BY HandoverStep
<1> QED
  BY <1>1, <1>2, CutoverInvariant, PTL DEF CutoverSpec, HandoverRefined, Handover!DataSpec

=============================================================================
