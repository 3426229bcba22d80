---------------------------- MODULE RestoreProofs ----------------------------
(***************************************************************************)
(* The restore for any number of memory areas and descriptors, of stray    *)
(* signals and of crashes of the engine.                                   *)
(*                                                                         *)
(* The inductive invariant RestoreInv has, beside TypeOK: where the engine *)
(* and its child can be at a time (StageOK), in what order the work that   *)
(* is left comes (TodoOK), that the site of the injected calls stays       *)
(* executable until the last of them (SiteOK), that what is not yet as in  *)
(* the snapshot is still to be done (MemoryOK), and what has been let go   *)
(* (ReleasedOK, which is ReleasedIsComplete with its circumstances).       *)
(***************************************************************************)
EXTENDS Restore, SequenceTheorems, TLAPS

Early == {"metadata", "fork", "waiting", "opening"}
Calls == {"planted", "stepping"}
Busy  == {"working", "regs", "xstate", "release"} \cup Calls

StageOK ==
    /\ pc \in {"metadata", "fork"} => child = "none"
    /\ pc = "waiting" => child \in {"opening", "traced", "untraced", "running", "stopped", "dead"}
    /\ pc \in {"opening", "working", "planted", "regs", "xstate", "release"} =>
           child \in {"stopped", "dead"}
    /\ pc = "stepping" => child \in {"stepping", "stopped", "dead"}
    /\ child = "stepping" => pc = "stepping"
    /\ pc = "killing" => child \in {"stopped", "dead", "reaped"}
    /\ pc = "reaping" => child \in {"running", "dead", "reaped"}
    /\ pc = "end" => child \in {"none", "reaped"}
    /\ pc \in {"regs", "xstate", "release"} => todo = <<>>
    /\ pc \in Calls => todo # <<>> /\ Head(todo).op \in {"flag", "move", "map", "protect"}
    /\ signals <= sent
    /\ child \in {"stopped", "stepping"} /\ sent = 0 => image = "exe"

(* What restorer() relies on in the order of its work: the kernel mappings *)
(* move before any area is mapped; an area is mapped, filled and protected *)
(* in this order; nothing comes after the protection of the site.          *)
Ordered(jobs) ==
    \A k \in 1 .. Len(jobs) :
        /\ \A j \in 1 .. k - 1 :
             /\ jobs[k].op = "move" => jobs[j].op # "map"
             /\ jobs[k].op = "map" => jobs[j] # Job("protect", jobs[k].n)
             /\ jobs[k].op = "map" => jobs[j] # Job("fill", jobs[k].n)
             /\ jobs[j].op = "protect" => jobs[j].n # snap.site
        /\ jobs[k].op = "map" =>
             /\ \E l \in k + 1 .. Len(jobs) : jobs[l] = Job("fill", jobs[k].n)
             /\ NeedsProtect(snap, jobs[k].n) =>
                  \E l \in k + 1 .. Len(jobs) : jobs[l] = Job("protect", jobs[k].n)
        /\ jobs[k].op = "protect" => NeedsProtect(snap, jobs[k].n)

TodoOK == Ordered(todo)

SiteOK ==
    snap.site # 0 =>
        /\ area[snap.site] # "absent"
        /\ pc \in Early => area[snap.site] # "final"
        /\ pc \in {"working"} \cup Calls /\ todo # <<>> /\ area[snap.site] = "final" =>
               pc = "stepping" /\ child # "stepping" /\ Len(todo) = 1

Left(job) == \E k \in 1 .. Len(todo) : todo[k] = job

(* The code at the site once the planted opcode is taken back.             *)
Word == IF pc \in Calls THEN under ELSE word

WordOK ==
    pc \in Early \cup Busy =>
        /\ snap.site = 0 => Word = "exe"
        /\ snap.site # 0 /\ content[snap.site] = "payload" => Word = "payload"

(* The call that was injected has done what it is for.                     *)
HeadDone ==
    LET job == Head(todo) IN
    /\ job.op = "flag" => job.n \in cloexec
    /\ job.op = "move" => kmap = "wanted"
    /\ job.op = "map" => area[job.n] = "rwx"
    /\ job.op = "protect" => area[job.n] = "final"

(* What is not yet as in the snapshot is still to be done.  A stray signal *)
(* may swallow any injected call, but no payload.                          *)
UntouchedOK ==
    pc \in Early => kmap = "own" /\ \A a \in Areas : content[a] = "other"

PayloadOK ==
    pc \in Busy => \A a \in Areas : content[a] = "payload" \/ Left(Job("fill", a))

Exact == pc \in Busy /\ sent = 0

FlagOK == Exact => \A n \in 1 .. NFlags : n \in cloexec \/ Left(Job("flag", n))

MoveOK == Exact => kmap = "wanted" \/ (kmap = "own" /\ Left(Job("move", 0)))

Wanted(a)  == IF NeedsProtect(snap, a) THEN "final" ELSE "rwx"
LastJob(a) == Job(IF NeedsProtect(snap, a) THEN "protect" ELSE "map", a)

AreaOK == Exact => \A a \in Areas : area[a] = Wanted(a) \/ Left(LastJob(a))

CallOK ==
    Exact /\ pc = "stepping" /\ child = "stopped" /\ outcome # "failed" =>
        outcome = "done" /\ HeadDone

CpuOK ==
    /\ pc \in {"xstate", "release"} => regs = "snapshot"
    /\ pc = "release" => xstate

MemoryOK == UntouchedOK /\ PayloadOK /\ FlagOK /\ MoveOK /\ AreaOK /\ CallOK /\ CpuOK

ReleasedOK == released => pc \in {"reaping", "end", "crashed"} /\ ReleasedIsComplete

RestoreInv == TypeOK /\ StageOK /\ TodoOK /\ SiteOK /\ WordOK /\ MemoryOK /\ ReleasedOK

-----------------------------------------------------------------------------

JobType == [op : {"flag"}, n : 1 .. NFlags] \cup [op : {"move", "none"}, n : {0}]
           \cup [op : {"map", "fill", "protect"}, n : Areas]

(* One loop of restorer() (restorer.c:145-173) after another.              *)
LEMMA OneAfterAnother ==
    ASSUME NEW S, NEW s \in Seq(S), NEW t \in Seq(S)
    PROVE  /\ s \o t \in Seq(S)
           /\ Len(s \o t) = Len(s) + Len(t)
           /\ \A k \in 1 .. Len(s) : (s \o t)[k] = s[k]
           /\ \A k \in 1 .. Len(t) : (s \o t)[Len(s) + k] = t[k]
OBVIOUS

(* The four loops of restorer() (restorer.c:145-173), one after another.   *)
LEMMA JobsAre ==
    ASSUME TypeOK
    PROVE  /\ Jobs(snap) \in Seq(JobType)
           /\ Len(Jobs(snap)) = NFlags + 1 + 2 * NAreas + NAreas + 1
           /\ \A k \in 1 .. NFlags : Jobs(snap)[k] = Job("flag", k)
           /\ Jobs(snap)[NFlags + 1] = Job("move", 0)
           /\ \A k \in 1 .. 2 * NAreas : Jobs(snap)[NFlags + 1 + k] = AreaJobs[k]
           /\ \A k \in 1 .. NAreas + 1 :
                Jobs(snap)[NFlags + 1 + 2 * NAreas + k] = ProtectJobs(snap)[k]
<1> DEFINE P == ProtectJobs(snap)
<1>1. NFlags \in Nat /\ NAreas \in Nat \ {0}
  BY SizesAssumption
<1>2. FlagJobs \in Seq(JobType) /\ Len(FlagJobs) = NFlags
      /\ \A k \in 1 .. NFlags : FlagJobs[k] = Job("flag", k)
  <2>1. \A k \in 1 .. NFlags : Job("flag", k) \in JobType
    BY DEF Job, JobType
  <2>2. QED
    BY <1>1, <2>1 DEF FlagJobs
<1>3. MoveJobs \in Seq(JobType) /\ Len(MoveJobs) = 1 /\ MoveJobs[1] = Job("move", 0)
  <2>1. Job("move", 0) \in JobType
    BY DEF Job, JobType
  <2>2. QED
    BY <2>1 DEF MoveJobs
<1>4. AreaJobs \in Seq(JobType) /\ Len(AreaJobs) = 2 * NAreas
  <2>1. \A k \in 1 .. 2 * NAreas : (k + 1) \div 2 \in Areas
    BY <1>1 DEF Areas
  <2>2. \A k \in 1 .. 2 * NAreas :
           Job(IF k % 2 = 1 THEN "map" ELSE "fill", (k + 1) \div 2) \in JobType
    BY <2>1 DEF Job, JobType
  <2>3. QED
    BY <1>1, <2>2 DEF AreaJobs
<1>5. P \in Seq(JobType) /\ Len(P) = NAreas + 1
  <2>1. ASSUME NEW k \in 1 .. NAreas + 1
        PROVE  (LET a == IF k > NAreas THEN snap.site ELSE IF k = snap.site THEN 0 ELSE k
                IN  IF a # 0 /\ NeedsProtect(snap, a) THEN Job("protect", a) ELSE Continue)
               \in JobType
    <3> DEFINE a == IF k > NAreas THEN snap.site ELSE IF k = snap.site THEN 0 ELSE k
    <3>1. a \in 0 .. NAreas
      BY <1>1 DEF TypeOK, Snapshots
    <3>2. a # 0 => Job("protect", a) \in JobType
      BY <1>1, <3>1 DEF Job, JobType, Areas
    <3>3. Continue \in JobType
      BY DEF Continue, Job, JobType
    <3>4. QED
      BY <3>2, <3>3
  <2>2. QED
    BY <1>1, <2>1 DEF ProtectJobs
<1> HIDE DEF P
<1> DEFINE A == FlagJobs \o MoveJobs
           B == A \o AreaJobs
<1>6. A \in Seq(JobType) /\ Len(A) = NFlags + 1
      /\ (\A k \in 1 .. NFlags : A[k] = FlagJobs[k]) /\ A[NFlags + 1] = MoveJobs[1]
  <2>1. FlagJobs \in Seq(JobType) /\ MoveJobs \in Seq(JobType)
    BY <1>2, <1>3
  <2>2. /\ A \in Seq(JobType) /\ Len(A) = Len(FlagJobs) + Len(MoveJobs)
        /\ \A k \in 1 .. Len(FlagJobs) : A[k] = FlagJobs[k]
        /\ \A k \in 1 .. Len(MoveJobs) : A[Len(FlagJobs) + k] = MoveJobs[k]
    BY <2>1, OneAfterAnother
  <2>3. QED
    BY <1>1, <1>2, <1>3, <2>2
<1> HIDE DEF A
<1>7. B \in Seq(JobType) /\ Len(B) = NFlags + 1 + 2 * NAreas
      /\ (\A k \in 1 .. NFlags + 1 : B[k] = A[k])
      /\ \A k \in 1 .. 2 * NAreas : B[NFlags + 1 + k] = AreaJobs[k]
  <2>1. A \in Seq(JobType) /\ AreaJobs \in Seq(JobType)
    BY <1>4, <1>6
  <2>2. /\ B \in Seq(JobType) /\ Len(B) = Len(A) + Len(AreaJobs)
        /\ \A k \in 1 .. Len(A) : B[k] = A[k]
        /\ \A k \in 1 .. Len(AreaJobs) : B[Len(A) + k] = AreaJobs[k]
    BY <2>1, OneAfterAnother
  <2>3. QED
    BY <1>1, <1>4, <1>6, <2>2
<1> HIDE DEF B
<1>8. B \o P \in Seq(JobType) /\ Len(B \o P) = NFlags + 1 + 2 * NAreas + NAreas + 1
      /\ (\A k \in 1 .. NFlags + 1 + 2 * NAreas : (B \o P)[k] = B[k])
      /\ \A k \in 1 .. NAreas + 1 : (B \o P)[NFlags + 1 + 2 * NAreas + k] = P[k]
  <2>1. B \in Seq(JobType) /\ P \in Seq(JobType)
    BY <1>5, <1>7
  <2>2. /\ B \o P \in Seq(JobType) /\ Len(B \o P) = Len(B) + Len(P)
        /\ \A k \in 1 .. Len(B) : (B \o P)[k] = B[k]
        /\ \A k \in 1 .. Len(P) : (B \o P)[Len(B) + k] = P[k]
    BY <2>1, OneAfterAnother
  <2>3. QED
    BY <1>1, <1>5, <1>7, <2>2
<1>9. Jobs(snap) = B \o P
  BY DEF Jobs, A, B, P
<1>10. QED
  BY <1>1, <1>2, <1>3, <1>6, <1>7, <1>8, <1>9 DEF P

(* Where the work of each kind lies.  mmap and payload of an area follow   *)
(* each other (restorer.c:150-163), its protection comes after all of them *)
(* and that of the site, if it has any, at the very end (664-697).         *)
LEMMA JobsLie ==
    ASSUME TypeOK, NEW k \in 1 .. Len(Jobs(snap))
    PROVE  /\ Jobs(snap)[k].op = "move" => k = NFlags + 1
           /\ Jobs(snap)[k].op = "map" => Jobs(snap)[k].n \in Areas /\ k = NFlags + 2 * Jobs(snap)[k].n
           /\ Jobs(snap)[k].op = "fill" => k = NFlags + 2 * Jobs(snap)[k].n + 1
           /\ Jobs(snap)[k].op = "protect" =>
                /\ k > NFlags + 1 + 2 * NAreas
                /\ NeedsProtect(snap, Jobs(snap)[k].n)
                /\ Jobs(snap)[k].n = snap.site => k = Len(Jobs(snap))
<1> DEFINE J == Jobs(snap)
<1> HIDE DEF J
<1>1. /\ NFlags \in Nat /\ NAreas \in Nat \ {0} /\ snap.site \in 0 .. NAreas
      /\ Len(J) = NFlags + 1 + 2 * NAreas + NAreas + 1
      /\ k \in 1 .. Len(J) /\ k \in Nat
  BY SizesAssumption, JobsAre DEF J, TypeOK, Snapshots
<1>2. CASE k \in 1 .. NFlags
  <2>1. J[k] = Job("flag", k)
    BY <1>2, JobsAre DEF J
  <2>2. J[k].op = "flag"
    BY <2>1 DEF Job
  <2>3. QED
    BY <2>2 DEF J
<1>3. CASE k = NFlags + 1
  <2>1. J[k] = Job("move", 0)
    BY <1>3, JobsAre DEF J
  <2>2. J[k].op = "move"
    BY <2>1 DEF Job
  <2>3. QED
    BY <1>3, <2>2 DEF J
<1>4. CASE k \in NFlags + 2 .. NFlags + 1 + 2 * NAreas
  <2> DEFINE m == k - NFlags - 1
  <2>1. m \in 1 .. 2 * NAreas /\ NFlags + 1 + m = k
    BY <1>1, <1>4
  <2>2. J[NFlags + 1 + m] = AreaJobs[m]
    BY <2>1, JobsAre DEF J
  <2>3. J[k] = Job(IF m % 2 = 1 THEN "map" ELSE "fill", (m + 1) \div 2)
    BY <2>1, <2>2 DEF AreaJobs
  <2>4. J[k].n = (m + 1) \div 2 /\ J[k].op = IF m % 2 = 1 THEN "map" ELSE "fill"
    BY <2>3 DEF Job
  <2>5. CASE m % 2 = 1
    <3>1. 2 * ((m + 1) \div 2) = m + 1 /\ (m + 1) \div 2 \in Areas
      BY <1>1, <2>1, <2>5 DEF Areas
    <3>2. k = NFlags + (m + 1)
      BY <1>1, <2>1
    <3>3. QED
      BY <2>4, <2>5, <3>1, <3>2 DEF J
  <2>6. CASE m % 2 # 1
    <3>1. 2 * ((m + 1) \div 2) = m
      BY <1>1, <2>1, <2>6
    <3>2. k = NFlags + m + 1
      BY <1>1, <2>1
    <3>3. QED
      BY <2>4, <2>6, <3>1, <3>2 DEF J
  <2>7. QED
    BY <2>5, <2>6
<1>5. CASE k \in NFlags + 2 + 2 * NAreas .. Len(J)
  <2> DEFINE m == k - NFlags - 1 - 2 * NAreas
             a == IF m > NAreas THEN snap.site ELSE IF m = snap.site THEN 0 ELSE m
  <2>1. m \in 1 .. NAreas + 1 /\ NFlags + 1 + 2 * NAreas + m = k
    BY <1>1, <1>5
  <2>2. J[NFlags + 1 + 2 * NAreas + m] = ProtectJobs(snap)[m]
    BY <2>1, JobsAre DEF J
  <2>3. J[k] = IF a # 0 /\ NeedsProtect(snap, a) THEN Job("protect", a) ELSE Continue
    BY <2>1, <2>2 DEF ProtectJobs
  <2>4. CASE a # 0 /\ NeedsProtect(snap, a)
    <3>1. J[k].op = "protect" /\ J[k].n = a
      BY <2>3, <2>4 DEF Job
    <3>2. k > NFlags + 1 + 2 * NAreas
      BY <1>1, <1>5
    <3>3. a = snap.site => k = Len(J)
      BY <1>1, <2>1, <2>4
    <3>4. QED
      BY <2>4, <3>1, <3>2, <3>3 DEF J
  <2>5. CASE ~(a # 0 /\ NeedsProtect(snap, a))
    <3>1. J[k].op = "none"
      BY <2>3, <2>5 DEF Continue, Job
    <3>2. QED
      BY <3>1 DEF J
  <2>6. QED
    BY <2>4, <2>5
<1>6. QED
  BY <1>1, <1>2, <1>3, <1>4, <1>5

(* None of the work is left out: every descriptor, the kernel mappings,    *)
(* every area, and every protection but RWX (restorer.c:683-685).          *)
LEMMA JobsCover ==
    ASSUME TypeOK
    PROVE  /\ \A n \in 1 .. NFlags : \E k \in 1 .. Len(Jobs(snap)) : Jobs(snap)[k] = Job("flag", n)
           /\ \E k \in 1 .. Len(Jobs(snap)) : Jobs(snap)[k] = Job("move", 0)
           /\ \A a \in Areas :
                /\ NFlags + 2 * a + 1 \in 1 .. Len(Jobs(snap))
                /\ Jobs(snap)[NFlags + 2 * a] = Job("map", a)
                /\ Jobs(snap)[NFlags + 2 * a + 1] = Job("fill", a)
                /\ NeedsProtect(snap, a) =>
                     \E k \in NFlags + 2 + 2 * NAreas .. Len(Jobs(snap)) :
                         Jobs(snap)[k] = Job("protect", a)
<1> DEFINE J == Jobs(snap)
<1> HIDE DEF J
<1>1. /\ NFlags \in Nat /\ NAreas \in Nat \ {0} /\ snap.site \in 0 .. NAreas
      /\ Len(J) = NFlags + 1 + 2 * NAreas + NAreas + 1
  BY SizesAssumption, JobsAre DEF J, TypeOK, Snapshots
<1>2. ASSUME NEW n \in 1 .. NFlags
      PROVE  \E k \in 1 .. Len(J) : J[k] = Job("flag", n)
  <2>1. J[n] = Job("flag", n) /\ n \in 1 .. Len(J)
    BY <1>1, JobsAre DEF J
  <2>2. QED
    BY <2>1
<1>3. \E k \in 1 .. Len(J) : J[k] = Job("move", 0)
  <2>1. J[NFlags + 1] = Job("move", 0) /\ NFlags + 1 \in 1 .. Len(J)
    BY <1>1, JobsAre DEF J
  <2>2. QED
    BY <2>1
<1>4. ASSUME NEW a \in Areas
      PROVE  /\ NFlags + 2 * a + 1 \in 1 .. Len(J)
             /\ J[NFlags + 2 * a] = Job("map", a)
             /\ J[NFlags + 2 * a + 1] = Job("fill", a)
  <2>1. a \in 1 .. NAreas
    BY DEF Areas
  <2>2. /\ 2 * a - 1 \in 1 .. 2 * NAreas /\ 2 * a \in 1 .. 2 * NAreas
        /\ NFlags + 1 + (2 * a - 1) = NFlags + 2 * a
        /\ NFlags + 1 + 2 * a = NFlags + 2 * a + 1
        /\ (2 * a - 1) % 2 = 1 /\ (2 * a) % 2 # 1
        /\ (2 * a - 1 + 1) \div 2 = a /\ (2 * a + 1) \div 2 = a
        /\ NFlags + 2 * a + 1 \in 1 .. Len(J)
    BY <1>1, <2>1
  <2>3. AreaJobs[2 * a - 1] = Job("map", a) /\ AreaJobs[2 * a] = Job("fill", a)
    BY <2>2 DEF AreaJobs
  <2>4. J[NFlags + 1 + (2 * a - 1)] = AreaJobs[2 * a - 1] /\ J[NFlags + 1 + 2 * a] = AreaJobs[2 * a]
    BY <2>2, JobsAre DEF J
  <2>5. QED
    BY <2>2, <2>3, <2>4
<1>5. ASSUME NEW a \in Areas, NeedsProtect(snap, a)
      PROVE  \E k \in NFlags + 2 + 2 * NAreas .. Len(J) : J[k] = Job("protect", a)
  <2> DEFINE m == IF a = snap.site THEN NAreas + 1 ELSE a
  <2>1. m \in 1 .. NAreas + 1 /\ a # 0 /\ a \in 1 .. NAreas
    BY <1>1 DEF Areas
  <2>2. ProtectJobs(snap)[m] = Job("protect", a)
    BY <1>1, <1>5, <2>1 DEF ProtectJobs
  <2>3. J[NFlags + 1 + 2 * NAreas + m] = ProtectJobs(snap)[m]
    BY <2>1, JobsAre DEF J
  <2>4. NFlags + 1 + 2 * NAreas + m \in NFlags + 2 + 2 * NAreas .. Len(J)
    BY <1>1, <2>1
  <2>5. QED
    BY <2>2, <2>3, <2>4
<1>6. QED
  BY <1>2, <1>3, <1>4, <1>5 DEF J

(* So the work of restorer() is in the order it relies on.                 *)
LEMMA JobsOrdered == ASSUME TypeOK PROVE Ordered(Jobs(snap))
<1> DEFINE J == Jobs(snap)
<1>1. /\ NFlags \in Nat /\ NAreas \in Nat \ {0} /\ Len(J) \in Nat
      /\ Len(J) = NFlags + 1 + 2 * NAreas + NAreas + 1
  BY SizesAssumption, JobsAre
<1>2. \A k \in 1 .. Len(J) :
        /\ J[k].op = "move" => k = NFlags + 1
        /\ J[k].op = "map" => J[k].n \in Areas /\ k = NFlags + 2 * J[k].n
        /\ J[k].op = "fill" => k = NFlags + 2 * J[k].n + 1
        /\ J[k].op = "protect" =>
             /\ k > NFlags + 1 + 2 * NAreas
             /\ NeedsProtect(snap, J[k].n)
             /\ J[k].n = snap.site => k = Len(J)
  BY JobsLie
<1>3. \A a \in Areas :
        /\ NFlags + 2 * a + 1 \in 1 .. Len(J)
        /\ J[NFlags + 2 * a + 1] = Job("fill", a)
        /\ NeedsProtect(snap, a) =>
             \E k \in NFlags + 2 + 2 * NAreas .. Len(J) : J[k] = Job("protect", a)
  BY JobsCover
<1> HIDE DEF J
<1>4. ASSUME NEW k \in 1 .. Len(J), NEW j \in 1 .. k - 1
      PROVE  /\ J[k].op = "move" => J[j].op # "map"
             /\ J[k].op = "map" => J[j] # Job("protect", J[k].n)
             /\ J[k].op = "map" => J[j] # Job("fill", J[k].n)
             /\ J[j].op = "protect" => J[j].n # snap.site
  <2>1. j \in 1 .. Len(J) /\ j < k /\ j \in Nat /\ k \in Nat /\ k <= Len(J)
    BY <1>1
  <2>2. \A n : Job("protect", n).op = "protect" /\ Job("fill", n).op = "fill" /\ Job("fill", n).n = n
    BY DEF Job
  <2>3. J[k].op = "move" => J[j].op # "map"
    BY <1>1, <1>2, <2>1 DEF Areas
  <2>4. J[k].op = "map" => J[j].op # "protect"
    BY <1>1, <1>2, <2>1 DEF Areas
  <2>5. J[k].op = "map" => ~(J[j].op = "fill" /\ J[j].n = J[k].n)
    BY <1>1, <1>2, <2>1 DEF Areas
  <2>6. J[j].op = "protect" => J[j].n # snap.site
    BY <1>2, <2>1
  <2>7. QED
    BY <2>2, <2>3, <2>4, <2>5, <2>6
<1>5. ASSUME NEW k \in 1 .. Len(J), J[k].op = "map"
      PROVE  /\ \E l \in k + 1 .. Len(J) : J[l] = Job("fill", J[k].n)
             /\ NeedsProtect(snap, J[k].n) =>
                  \E l \in k + 1 .. Len(J) : J[l] = Job("protect", J[k].n)
  <2>1. J[k].n \in 1 .. NAreas /\ J[k].n \in Areas /\ k = NFlags + 2 * J[k].n
    BY <1>2, <1>5 DEF Areas
  <2>2. k + 1 \in k + 1 .. Len(J) /\ k + 1 = NFlags + 2 * J[k].n + 1
    BY <1>1, <1>3, <2>1
  <2>3. \A l \in NFlags + 2 + 2 * NAreas .. Len(J) : l \in k + 1 .. Len(J)
    BY <1>1, <2>1
  <2>4. QED
    BY <1>3, <2>1, <2>2, <2>3
<1>6. QED
  BY <1>2, <1>4, <1>5 DEF Ordered, J

-----------------------------------------------------------------------------

(* Where the work begins is done with: what is left keeps its order.       *)
LEMMA TailOrdered ==
    ASSUME NEW s \in Seq(JobType), s # <<>>, Ordered(s)
    PROVE  Tail(s) \in Seq(JobType) /\ Ordered(Tail(s))
<1>1. /\ Len(s) \in Nat /\ Len(s) >= 1 /\ Tail(s) \in Seq(JobType) /\ Len(Tail(s)) = Len(s) - 1
      /\ \A k \in 1 .. Len(Tail(s)) : Tail(s)[k] = s[k + 1]
  OBVIOUS
<1>2. \A k \in 1 .. Len(Tail(s)) : k + 1 \in 1 .. Len(s) /\ k \in Nat
  BY <1>1
<1>3. ASSUME NEW k \in 1 .. Len(Tail(s)), NEW j \in 1 .. k - 1
      PROVE  j + 1 \in 1 .. (k + 1) - 1 /\ j \in 1 .. Len(Tail(s))
  BY <1>1
<1>4. ASSUME NEW k \in 1 .. Len(Tail(s)), NEW l \in (k + 1) + 1 .. Len(s)
      PROVE  l - 1 \in k + 1 .. Len(Tail(s)) /\ l - 1 \in 1 .. Len(Tail(s)) /\ (l - 1) + 1 = l
  BY <1>1
<1>5. ASSUME NEW k \in 1 .. Len(Tail(s)), NEW job,
             \E l \in (k + 1) + 1 .. Len(s) : s[l] = job
      PROVE  \E l \in k + 1 .. Len(Tail(s)) : Tail(s)[l] = job
  <2>1. PICK l \in (k + 1) + 1 .. Len(s) : s[l] = job
    BY <1>5
  <2>2. l - 1 \in k + 1 .. Len(Tail(s)) /\ Tail(s)[l - 1] = job
    BY <1>1, <1>4, <2>1
  <2>3. QED
    BY <2>2
<1>6. ASSUME NEW k \in 1 .. Len(Tail(s))
      PROVE  /\ \A j \in 1 .. k - 1 :
                  /\ Tail(s)[k].op = "move" => Tail(s)[j].op # "map"
                  /\ Tail(s)[k].op = "map" => Tail(s)[j] # Job("protect", Tail(s)[k].n)
                  /\ Tail(s)[k].op = "map" => Tail(s)[j] # Job("fill", Tail(s)[k].n)
                  /\ Tail(s)[j].op = "protect" => Tail(s)[j].n # snap.site
             /\ Tail(s)[k].op = "protect" => NeedsProtect(snap, Tail(s)[k].n)
  <2>1. Tail(s)[k] = s[k + 1] /\ k + 1 \in 1 .. Len(s)
    BY <1>1, <1>2
  <2>2. ASSUME NEW j \in 1 .. k - 1
        PROVE  Tail(s)[j] = s[j + 1] /\ j + 1 \in 1 .. (k + 1) - 1
    BY <1>1, <1>3
  <2>3. QED
    BY <2>1, <2>2 DEF Ordered
<1>7. ASSUME NEW k \in 1 .. Len(Tail(s)), Tail(s)[k].op = "map"
      PROVE  /\ \E l \in k + 1 .. Len(Tail(s)) : Tail(s)[l] = Job("fill", Tail(s)[k].n)
             /\ NeedsProtect(snap, Tail(s)[k].n) =>
                  \E l \in k + 1 .. Len(Tail(s)) : Tail(s)[l] = Job("protect", Tail(s)[k].n)
  <2>1. Tail(s)[k] = s[k + 1] /\ k + 1 \in 1 .. Len(s)
    BY <1>1, <1>2
  <2>2. /\ \E l \in (k + 1) + 1 .. Len(s) : s[l] = Job("fill", s[k + 1].n)
        /\ NeedsProtect(snap, s[k + 1].n) =>
             \E l \in (k + 1) + 1 .. Len(s) : s[l] = Job("protect", s[k + 1].n)
    BY <1>7, <2>1 DEF Ordered
  <2>3. QED
    BY <1>5, <2>1, <2>2
<1>8. QED
  BY <1>1, <1>6, <1>7 DEF Ordered

(* A job that is left and is not the one at hand is left afterwards.       *)
LEMMA StillLeft ==
    ASSUME NEW S, todo \in Seq(S), todo # <<>>, todo' = Tail(todo), NEW job, Left(job),
           job # Head(todo)
    PROVE  Left(job)'
<1>1. /\ Len(todo) \in Nat /\ Len(todo) >= 1 /\ Len(todo') = Len(todo) - 1
      /\ Head(todo) = todo[1]
      /\ \A k \in 1 .. Len(todo') : todo'[k] = todo[k + 1]
  OBVIOUS
<1>2. PICK k \in 1 .. Len(todo) : todo[k] = job
  BY DEF Left
<1>3. k # 1 /\ k - 1 \in 1 .. Len(todo') /\ (k - 1) + 1 = k
  BY <1>1, <1>2
<1>4. todo'[k - 1] = job
  BY <1>1, <1>2, <1>3
<1>5. QED
  BY <1>3, <1>4 DEF Left

(* The job at hand is one of those left.                                   *)
LEMMA HeadIsLeft ==
    ASSUME TypeOK, todo # <<>>
    PROVE  /\ todo \in Seq(JobType) /\ Head(todo) \in JobType
           /\ Len(todo) \in Nat \ {0} /\ Head(todo) = todo[1] /\ 1 \in 1 .. Len(todo)
           /\ Head(todo) = Job(Head(todo).op, Head(todo).n)
<1>1. todo \in Seq(JobType)
  BY DEF TypeOK, JobType
<1>2. Len(todo) \in Nat \ {0} /\ Head(todo) = todo[1] /\ 1 \in 1 .. Len(todo)
      /\ Head(todo) \in JobType
  BY <1>1
<1>3. \A x \in JobType : x = Job(x.op, x.n)
  BY DEF JobType, Job
<1>4. QED
  BY <1>1, <1>2, <1>3

(* Every step of engine, child and kernel keeps the types: above all, the *)
(* work left is a sequence of jobs on areas and descriptors of the snapshot. *)
LEMMA TypeStep ==
    ASSUME TypeOK, StageOK, TodoOK, [Next]_vars
    PROVE  TypeOK'
<1> USE SizesAssumption, SignalsAssumption DEF childVars, memoryVars, cpuVars, TypeOK, StageOK, Calls
<1>1. CASE UNCHANGED vars
  BY <1>1 DEF vars
<1>2. CASE ReadMetadata
  BY <1>2 DEF ReadMetadata
<1>3. CASE Fork
  BY <1>3 DEF Fork
<1>4. CASE FirstWait
  BY <1>4 DEF FirstWait
<1>5. CASE OpenMem
  BY <1>5, JobsAre DEF OpenMem, JobType
<1>6. CASE Plant
  BY <1>6 DEF Plant
<1>7. CASE MoveRefused
  BY <1>7 DEF MoveRefused
<1>8. CASE SingleStep
  BY <1>8 DEF SingleStep
<1>9. CASE Undo
  <2>1. todo # <<>> /\ todo \in Seq(JobType)
    BY <1>9 DEF Undo, JobType
  <2>2. Tail(todo) \in Seq(JobType)
    BY <2>1
  <2>3. QED
    BY <1>9, <2>2 DEF Undo, JobType
<1>10. CASE StepReaps
  BY <1>10 DEF StepReaps
<1>11. CASE RequestFails
  BY <1>11 DEF RequestFails
<1>12. CASE Fill
  BY <1>12 DEF Fill
<1>13. CASE FillFails
  BY <1>13 DEF FillFails
<1>14. CASE LoopsOn
  BY <1>14 DEF LoopsOn
<1>15. CASE AllInjected
  BY <1>15 DEF AllInjected
<1>16. CASE SetFinalRegs
  BY <1>16 DEF SetFinalRegs
<1>17. CASE SetFinalXstate
  BY <1>17 DEF SetFinalXstate
<1>18. CASE Release
  BY <1>18 DEF Release
<1>19. CASE KillChild
  BY <1>19 DEF KillChild
<1>20. CASE LastWait
  BY <1>20 DEF LastWait
<1>21. CASE ChildOpens
  BY <1>21 DEF ChildOpens
<1>22. CASE ChildExecs
  BY <1>22 DEF ChildExecs
<1>23. CASE SignalBeforeExec
  BY <1>23 DEF SignalBeforeExec
<1>24. CASE ChildSteps
  <2>1. PICK job : job = Head(todo) /\ job \in JobType /\ job.op \in {"flag", "move", "map", "protect"}
    BY <1>24, HeadIsLeft DEF ChildSteps
  <2>2. /\ job.op = "flag" => job.n \in 1 .. NFlags
        /\ job.op \in {"map", "protect"} => job.n \in Areas
    BY <2>1 DEF JobType
  <2>3. memoryVars' = memoryVars \/ Effect(job)
    BY <1>24, <2>1 DEF ChildSteps
  <2>4. /\ area' \in [Areas -> {"absent", "own", "rwx", "final"}]
        /\ content' \in [Areas -> {"other", "payload"}]
        /\ word' \in {"exe", "zero", "payload", "opcode"}
        /\ kmap' \in {"own", "wanted", "lost"}
        /\ cloexec' \subseteq 1 .. NFlags
    BY <2>1, <2>2, <2>3 DEF Effect
  <2>5. QED
    BY <1>24, <2>4 DEF ChildSteps
<1>25. CASE ChildDies
  BY <1>25 DEF ChildDies
<1>26. CASE SignalArrives
  BY <1>26 DEF SignalArrives
<1>27. CASE EngineDies
  BY <1>27 DEF EngineDies
<1>28. QED
  BY <1>1, <1>2, <1>3, <1>4, <1>5, <1>6, <1>7, <1>8, <1>9, <1>10, <1>11, <1>12, <1>13,
     <1>14, <1>15, <1>16, <1>17, <1>18, <1>19, <1>20, <1>21, <1>22, <1>23, <1>24, <1>25, <1>26, <1>27
  DEF Next, EngineStep, ChildStep

(* Every step keeps the stages of restorer() and of its child together: an *)
(* engine at work has a child that is stopped or dead, never one at large. *)
LEMMA StageStep ==
    ASSUME TypeOK, StageOK, [Next]_vars
    PROVE  StageOK'
<1> USE SizesAssumption, SignalsAssumption DEF childVars, memoryVars, cpuVars, TypeOK, StageOK, Calls
<1>1. CASE UNCHANGED vars
  BY <1>1 DEF vars
<1>2. CASE ReadMetadata
  BY <1>2 DEF ReadMetadata
<1>3. CASE Fork
  BY <1>3 DEF Fork
<1>4. CASE FirstWait
  BY <1>4 DEF FirstWait
<1>5. CASE OpenMem
  BY <1>5 DEF OpenMem
<1>6. CASE Plant
  <2>1. Head(todo).op \in {"flag", "move", "map", "protect"}
    BY <1>6, HeadIsLeft DEF Plant, Injecting, JobType
  <2>2. QED
    BY <1>6, <2>1 DEF Plant, Injecting
<1>7. CASE MoveRefused
  BY <1>7 DEF MoveRefused, Injecting
<1>8. CASE SingleStep
  BY <1>8 DEF SingleStep
<1>9. CASE Undo
  BY <1>9 DEF Undo
<1>10. CASE StepReaps
  BY <1>10 DEF StepReaps
<1>11. CASE RequestFails
  BY <1>11 DEF RequestFails, Injecting
<1>12. CASE Fill
  BY <1>12 DEF Fill
<1>13. CASE FillFails
  BY <1>13 DEF FillFails
<1>14. CASE LoopsOn
  BY <1>14 DEF LoopsOn
<1>15. CASE AllInjected
  BY <1>15 DEF AllInjected
<1>16. CASE SetFinalRegs
  BY <1>16 DEF SetFinalRegs
<1>17. CASE SetFinalXstate
  BY <1>17 DEF SetFinalXstate
<1>18. CASE Release
  BY <1>18 DEF Release
<1>19. CASE KillChild
  BY <1>19 DEF KillChild
<1>20. CASE LastWait
  BY <1>20 DEF LastWait
<1>21. CASE ChildOpens
  BY <1>21 DEF ChildOpens
<1>22. CASE ChildExecs
  BY <1>22 DEF ChildExecs
<1>23. CASE SignalBeforeExec
  BY <1>23 DEF SignalBeforeExec
<1>24. CASE ChildSteps
  BY <1>24 DEF ChildSteps
<1>25. CASE ChildDies
  BY <1>25 DEF ChildDies
<1>26. CASE SignalArrives
  BY <1>26 DEF SignalArrives
<1>27. CASE EngineDies
  BY <1>27 DEF EngineDies
<1>28. QED
  BY <1>1, <1>2, <1>3, <1>4, <1>5, <1>6, <1>7, <1>8, <1>9, <1>10, <1>11, <1>12, <1>13,
     <1>14, <1>15, <1>16, <1>17, <1>18, <1>19, <1>20, <1>21, <1>22, <1>23, <1>24, <1>25, <1>26, <1>27
  DEF Next, EngineStep, ChildStep

-----------------------------------------------------------------------------

(* Most steps only move the engine or the child from one stage to another: *)
(* the work, the memory of the child and its registers stay as they are.   *)
Over == {"reaping", "end", "crashed"}

Quiet ==
    /\ UNCHANGED <<snap, todo, outcome, under, memoryVars, cpuVars, released>>
    /\ \/ pc' = pc
       \/ pc \in Early /\ pc' \in Early
       \/ pc' \notin Early \cup Busy
    /\ pc \in Over => pc' \in Over
    /\ child' = "stepping" => child = "stepping"
    /\ child' = "stopped" /\ pc' = "stepping" => child = "stopped"
    /\ sent' = 0 => sent = 0
    /\ image' \in {image, "exe"}

(* The steps of restorer() that do the work, and the one of the child that *)
(* carries out what was injected; all others are quiet.                    *)
LEMMA WorkOrQuiet ==
    ASSUME TypeOK, StageOK, [Next]_vars
    PROVE  \/ OpenMem /\ pc' = "working"
           \/ Plant \/ SingleStep \/ ChildSteps \/ Undo \/ Fill \/ LoopsOn
           \/ AllInjected \/ SetFinalRegs \/ SetFinalXstate \/ Release
           \/ Quiet
<1> USE DEF childVars, memoryVars, cpuVars, Quiet, Over, Early, Busy, Calls
<1>1. CASE UNCHANGED vars
  BY <1>1 DEF vars
<1>2. CASE ReadMetadata \/ Fork \/ FirstWait
  BY <1>2 DEF ReadMetadata, Fork, FirstWait
<1>3. CASE OpenMem
  BY <1>3 DEF OpenMem
<1>4. CASE MoveRefused \/ FillFails \/ RequestFails
  BY <1>4 DEF MoveRefused, FillFails, RequestFails, Injecting
<1>5. CASE StepReaps \/ KillChild \/ LastWait
  BY <1>5 DEF StepReaps, KillChild, LastWait
<1>6. CASE ChildOpens \/ ChildExecs
  <2>1. child \in {"opening", "traced", "untraced"} /\ pc # "stepping"
    BY <1>6 DEF ChildOpens, ChildExecs, StageOK
  <2>2. QED
    BY <1>6, <2>1 DEF ChildOpens, ChildExecs
<1>7. CASE SignalBeforeExec
  <2>1. child = "traced" /\ pc # "stepping"
    BY <1>7 DEF SignalBeforeExec, StageOK
  <2>2. QED
    BY <1>7, <2>1 DEF SignalBeforeExec
<1>8. CASE ChildDies
  BY <1>8 DEF ChildDies
<1>9. CASE SignalArrives
  BY <1>9 DEF SignalArrives, TypeOK
<1>10. CASE EngineDies
  BY <1>10 DEF EngineDies
<1>11. QED
  BY <1>1, <1>2, <1>3, <1>4, <1>5, <1>6, <1>7, <1>8, <1>9, <1>10 DEF Next, EngineStep, ChildStep

(* The work is handed out at /proc/<pid>/mem's opening and then only done, *)
(* job by job, in its order.                                               *)
LEMMA TodoStep ==
    ASSUME TypeOK, StageOK, TodoOK, [Next]_vars
    PROVE  TodoOK'
<1>1. /\ snap' = snap
      /\ \/ todo' = todo
         \/ todo' = Jobs(snap)
         \/ todo # <<>> /\ todo' = Tail(todo)
  BY WorkOrQuiet
  DEF StageOK, Calls, Quiet, OpenMem, Plant, SingleStep, ChildSteps, Undo, Fill, LoopsOn,
      AllInjected, SetFinalRegs, SetFinalXstate, Release
<1>2. ASSUME NEW s, Ordered(s), todo' = s
      PROVE  Ordered(todo)'
  BY <1>1, <1>2 DEF Ordered, NeedsProtect
<1>3. todo # <<>> => Ordered(Tail(todo))
  BY HeadIsLeft, TailOrdered DEF TodoOK
<1>4. QED
  BY <1>1, <1>2, <1>3, JobsOrdered DEF TodoOK

(* The injected call gives the site its last protection at the end only,   *)
(* and no step takes the site's area away.                                 *)
LEMMA SiteStep ==
    ASSUME TypeOK, StageOK, TodoOK, SiteOK, [Next]_vars
    PROVE  SiteOK'
<1> USE DEF childVars, memoryVars, cpuVars, Early, Calls
<1> DEFINE site == snap.site
<1>1. CASE OpenMem /\ pc' = "working"
  BY <1>1 DEF OpenMem, SiteOK
<1>2. CASE Plant
  BY <1>2 DEF Plant, Injecting, SiteOK
<1>3. CASE SingleStep
  BY <1>3 DEF SingleStep, StageOK, SiteOK
<1>4. CASE ChildSteps
  <2>1. /\ pc = "stepping" /\ pc' = pc /\ todo # <<>> /\ todo' = todo /\ snap' = snap
        /\ child = "stepping" /\ child' = "stopped"
    BY <1>4 DEF ChildSteps, StageOK
  <2>2. SUFFICES ASSUME site # 0
                 PROVE  area'[site] # "absent" /\ (area'[site] = "final" => Len(todo) = 1)
    BY <2>1 DEF SiteOK
  <2>3. area[site] # "absent" /\ area[site] # "final" /\ site \in Areas
    BY <2>1, <2>2 DEF SiteOK, TypeOK, Snapshots, Areas
  <2>4. PICK job : job = Head(todo) /\ job.op \in {"flag", "move", "map", "protect"}
    BY <2>1 DEF StageOK
  <2>5. memoryVars' = memoryVars \/ Effect(job)
    BY <1>4, <2>4 DEF ChildSteps
  <2>6. /\ area'[site] # "absent"
        /\ area'[site] = "final" => job.op = "protect" /\ job.n = site
    BY <2>3, <2>4, <2>5 DEF Effect, TypeOK
  <2>7. job.op = "protect" /\ job.n = site => Len(todo) = 1
    <3>1. Len(todo) \in Nat \ {0} /\ job = todo[1]
      BY <2>1, <2>4, HeadIsLeft
    <3>2. ASSUME Len(todo) >= 2
          PROVE  job.op = "protect" => job.n # site
      <4>1. 2 \in 1 .. Len(todo) /\ 1 \in 1 .. 2 - 1
        BY <3>1, <3>2
      <4>2. todo[1].op = "protect" => todo[1].n # site
        BY <4>1 DEF TodoOK, Ordered
      <4>3. QED
        BY <3>1, <4>2
    <3>3. Len(todo) = 1 \/ Len(todo) >= 2
      <4>1. \A n \in Nat \ {0} : n = 1 \/ n >= 2
        OBVIOUS
      <4>2. QED
        BY <3>1, <4>1, Zenon
    <3>4. QED
      BY <3>2, <3>3
  <2>8. QED
    BY <2>6, <2>7
<1>5. CASE Undo
  <2>1. ASSUME todo # <<>>, Len(todo) = 1
        PROVE  Tail(todo) = <<>>
    <3>1. todo \in Seq(JobType)
      BY <2>1, HeadIsLeft
    <3>2. Tail(todo) \in Seq(JobType) /\ Len(Tail(todo)) = 0
      BY <2>1, <3>1
    <3>3. QED
      BY <3>2, EmptySeq
  <2>2. QED
    BY <1>5, <2>1 DEF Undo, StageOK, SiteOK
<1>6. CASE Fill \/ LoopsOn
  BY <1>6 DEF Fill, LoopsOn, SiteOK
<1>7. CASE AllInjected \/ SetFinalRegs \/ SetFinalXstate \/ Release
  BY <1>7 DEF AllInjected, SetFinalRegs, SetFinalXstate, Release, SiteOK
<1>8. CASE Quiet
  BY <1>8 DEF Quiet, Busy, SiteOK
<1>9. QED
  BY <1>1, <1>2, <1>3, <1>4, <1>5, <1>6, <1>7, <1>8, WorkOrQuiet

(* inject_syscall saves the code at the site and puts it back, so that the *)
(* site holds what the payload brought there.                              *)
LEMMA WordStep ==
    ASSUME TypeOK, StageOK, WordOK, [Next]_vars
    PROVE  WordOK'
<1> USE DEF childVars, memoryVars, cpuVars, Early, Calls, Busy, Word
<1> DEFINE site == snap.site
<1>1. CASE OpenMem /\ pc' = "working"
  BY <1>1 DEF OpenMem, WordOK
<1>2. CASE Plant
  BY <1>2 DEF Plant, Injecting, WordOK
<1>3. CASE SingleStep
  BY <1>3 DEF SingleStep, WordOK
<1>4. CASE ChildSteps
  <2>1. /\ pc = "stepping" /\ pc' = pc /\ snap' = snap /\ under' = under /\ todo # <<>>
        /\ memoryVars' = memoryVars \/ Effect(Head(todo))
        /\ Head(todo).op \in {"flag", "move", "map", "protect"}
    BY <1>4 DEF ChildSteps, StageOK
  <2>2. site # 0 => site \in Areas
    BY DEF TypeOK, Snapshots, Areas
  <2>3. site # 0 /\ content'[site] = "payload" => content[site] = "payload"
    BY <2>1, <2>2 DEF Effect, TypeOK
  <2>4. QED
    BY <2>1, <2>3 DEF WordOK
<1>5. CASE Undo
  BY <1>5 DEF Undo, WordOK
<1>6. CASE Fill
  <2>1. site # 0 => site \in Areas
    BY DEF TypeOK, Snapshots, Areas
  <2>2. Head(todo).n \in Areas
    BY <1>6, HeadIsLeft DEF Fill, JobType
  <2>3. QED
    BY <1>6, <2>1, <2>2 DEF Fill, WordOK, TypeOK, Areas
<1>7. CASE LoopsOn \/ AllInjected \/ SetFinalRegs \/ SetFinalXstate \/ Release
  BY <1>7 DEF LoopsOn, AllInjected, SetFinalRegs, SetFinalXstate, Release, WordOK
<1>8. CASE Quiet
  BY <1>8 DEF Quiet, WordOK
<1>9. QED
  BY <1>1, <1>2, <1>3, <1>4, <1>5, <1>6, <1>7, <1>8, WorkOrQuiet

(* A step of the child does what was injected, or nothing; without stray   *)
(* signals it is done or the kernel says that it failed.                   *)
LEMMA CallTakesEffect ==
    ASSUME TypeOK, StageOK, SiteOK, ChildSteps
    PROVE  /\ UNCHANGED <<snap, pc, todo, sent, regs, xstate>>
           /\ pc = "stepping" /\ todo # <<>>
           /\ Head(todo).op \in {"flag", "move", "map", "protect"}
           /\ UNCHANGED memoryVars \/ Effect(Head(todo))
           /\ sent = 0 => \/ outcome' = "failed" /\ UNCHANGED memoryVars
                          \/ outcome' = "done" /\ Effect(Head(todo))
<1>1. /\ UNCHANGED <<snap, pc, todo, sent, regs, xstate>>
      /\ pc = "stepping" /\ child = "stepping" /\ todo # <<>>
      /\ Head(todo).op \in {"flag", "move", "map", "protect"}
  BY DEF ChildSteps, StageOK, cpuVars, Calls
<1>2. UNCHANGED memoryVars \/ Effect(Head(todo))
  BY DEF ChildSteps
<1>3. sent = 0 => signals = 0
  BY SignalsAssumption DEF StageOK, TypeOK
<1>4. SiteExecutable
  <2>1. snap.site # 0 => snap.site \in Areas
    BY DEF TypeOK, Snapshots, Areas
  <2>2. snap.site # 0 => area[snap.site] # "absent" /\ area[snap.site] # "final"
    BY <1>1 DEF SiteOK, Calls
  <2>3. QED
    BY <2>1, <2>2 DEF SiteExecutable, TypeOK
<1>5. sent = 0 => \/ outcome' = "failed" /\ UNCHANGED memoryVars
                  \/ outcome' = "done" /\ Effect(Head(todo))
  BY <1>3, <1>4, SignalsAssumption DEF ChildSteps
<1>6. QED
  BY <1>1, <1>2, <1>5

(* After an area is mapped (restorer.c:430) come its payload and, unless   *)
(* it is RWX, its protection; the kernel mappings have moved by then.      *)
LEMMA WhatFollows ==
    ASSUME TypeOK, TodoOK, todo # <<>>
    PROVE  /\ Head(todo).op = "map" =>
                /\ Left(Job("fill", Head(todo).n))
                /\ NeedsProtect(snap, Head(todo).n) => Left(Job("protect", Head(todo).n))
                /\ ~Left(Job("move", 0))
           /\ Head(todo).op = "protect" => NeedsProtect(snap, Head(todo).n)
<1>1. Head(todo) = todo[1] /\ 1 \in 1 .. Len(todo) /\ Len(todo) \in Nat
  BY HeadIsLeft
<1>2. \A l \in 1 + 1 .. Len(todo) : l \in 1 .. Len(todo) /\ 1 \in 1 .. l - 1
  BY <1>1
<1>3. Head(todo).op = "protect" => NeedsProtect(snap, Head(todo).n)
  BY <1>1 DEF TodoOK, Ordered
<1>4. ASSUME Head(todo).op = "map"
      PROVE  /\ Left(Job("fill", Head(todo).n))
             /\ NeedsProtect(snap, Head(todo).n) => Left(Job("protect", Head(todo).n))
  <2>1. /\ \E l \in 1 + 1 .. Len(todo) : todo[l] = Job("fill", todo[1].n)
        /\ NeedsProtect(snap, todo[1].n) =>
             \E l \in 1 + 1 .. Len(todo) : todo[l] = Job("protect", todo[1].n)
    BY <1>1, <1>4 DEF TodoOK, Ordered
  <2>2. QED
    BY <1>1, <1>2, <2>1 DEF Left
<1>5. ASSUME Head(todo).op = "map", NEW k \in 1 .. Len(todo), todo[k] = Job("move", 0)
      PROVE  FALSE
  <2>1. k # 1 /\ todo[k].op = "move"
    BY <1>1, <1>5 DEF Job
  <2>2. k \in 1 + 1 .. Len(todo)
    BY <1>1, <2>1
  <2>3. 1 \in 1 .. k - 1
    BY <1>2, <2>2
  <2>4. todo[1].op # "map"
    BY <2>1, <2>3 DEF TodoOK, Ordered
  <2>5. QED
    BY <1>1, <1>5, <2>4
<1>6. QED
  BY <1>3, <1>4, <1>5 DEF Left

(* The injected call brings the child nearer to the snapshot, except that  *)
(* a mapping empties its area, whose payload is still to come.             *)
LEMMA MemoryByCall ==
    ASSUME TypeOK, StageOK, TodoOK, SiteOK, MemoryOK, ChildSteps
    PROVE  MemoryOK'
<1> DEFINE job == Head(todo)
<1>1. /\ UNCHANGED <<snap, pc, todo, sent, regs, xstate>>
      /\ pc = "stepping" /\ todo # <<>>
      /\ job.op \in {"flag", "move", "map", "protect"}
      /\ UNCHANGED memoryVars \/ Effect(job)
      /\ sent = 0 => \/ outcome' = "failed" /\ UNCHANGED memoryVars
                     \/ outcome' = "done" /\ Effect(job)
  BY CallTakesEffect
<1>2. /\ job.op = "map" =>
           /\ Left(Job("fill", job.n))
           /\ NeedsProtect(snap, job.n) => Left(Job("protect", job.n))
           /\ ~Left(Job("move", 0))
      /\ job.op = "protect" => NeedsProtect(snap, job.n)
  BY <1>1, WhatFollows
<1>3. job.op \in {"map", "protect"} => job.n \in Areas
  BY <1>1, HeadIsLeft DEF JobType
<1>4. \A j : Left(j)' <=> Left(j)
  BY <1>1 DEF Left
<1> HIDE DEF job
<1>5. UntouchedOK' /\ CpuOK'
  BY <1>1 DEF MemoryOK, UntouchedOK, CpuOK, Early
<1>6. PayloadOK'
  <2>1. ASSUME NEW a \in Areas
        PROVE  content'[a] = content[a] \/ (job.op = "map" /\ job.n = a)
    BY <1>1, <1>3 DEF Effect, memoryVars, TypeOK
  <2>2. QED
    BY <1>1, <1>2, <1>4, <2>1 DEF MemoryOK, PayloadOK
<1>7. FlagOK'
  <2>1. cloexec \subseteq cloexec'
    BY <1>1 DEF Effect, memoryVars
  <2>2. QED
    BY <1>1, <1>4, <2>1 DEF MemoryOK, FlagOK, Exact
<1>8. MoveOK'
  <2>1. \/ kmap' = kmap
        \/ kmap' = "wanted"
        \/ job.op = "map" /\ kmap = "own"
    BY <1>1 DEF Effect, memoryVars
  <2>2. QED
    BY <1>1, <1>2, <1>4, <2>1 DEF MemoryOK, MoveOK, Exact
<1>9. AreaOK'
  <2>1. SUFFICES ASSUME NEW a \in Areas, Exact
                 PROVE  area'[a] = Wanted(a) \/ Left(LastJob(a))
    BY <1>1, <1>4 DEF AreaOK, Exact, Wanted, LastJob, NeedsProtect
  <2>2. \/ area'[a] = area[a]
        \/ job.op = "map" /\ job.n = a /\ area'[a] = "rwx"
        \/ job.op = "protect" /\ job.n = a /\ area'[a] = "final"
    BY <1>1, <1>3 DEF Effect, memoryVars, TypeOK
  <2>3. QED
    BY <1>2, <2>1, <2>2 DEF MemoryOK, AreaOK, Wanted, LastJob
<1>10. CallOK'
  <2>1. SUFFICES ASSUME sent = 0, outcome' # "failed"
                 PROVE  outcome' = "done" /\ HeadDone'
    BY <1>1 DEF CallOK, Exact
  <2>2. outcome' = "done" /\ Effect(job) /\ job' = job
    BY <1>1, <2>1 DEF job
  <2>3. kmap = "wanted" \/ kmap = "own"
    BY <1>1, <2>1 DEF MemoryOK, MoveOK, Exact, Busy, Calls
  <2>4. /\ job.op = "flag" => job.n \in cloexec'
        /\ job.op = "move" => kmap' = "wanted"
        /\ job.op = "map" => area'[job.n] = "rwx"
        /\ job.op = "protect" => area'[job.n] = "final"
    BY <1>3, <2>2, <2>3 DEF Effect, TypeOK
  <2>5. QED
    BY <2>2, <2>4 DEF HeadDone, job
<1>11. QED
  BY <1>5, <1>6, <1>7, <1>8, <1>9, <1>10 DEF MemoryOK

(* A job that is crossed off leaves all the others.                        *)
LEMMA OthersAreLeft ==
    ASSUME TypeOK, todo # <<>>, todo' = Tail(todo), NEW j, Left(j)
    PROVE  Left(j)' \/ j = Head(todo)
<1>1. todo \in Seq(JobType)
  BY HeadIsLeft
<1>2. QED
  BY <1>1, StillLeft

(* inject_syscall is through with its call: it is crossed off when it was  *)
(* done, and ends the restore when it failed.                              *)
LEMMA MemoryByUndo ==
    ASSUME TypeOK, StageOK, TodoOK, MemoryOK, Undo
    PROVE  MemoryOK'
<1> DEFINE job == Head(todo)
<1>1. /\ UNCHANGED <<snap, outcome, child, sent, area, content, kmap, cloexec, xstate>>
      /\ pc = "stepping" /\ child = "stopped" /\ todo # <<>>
      /\ job.op \in {"flag", "move", "map", "protect"}
      /\ \/ outcome = "failed" /\ pc' = "killing"
         \/ outcome # "failed" /\ pc' = "working" /\ todo' = Tail(todo)
  BY DEF Undo, childVars, StageOK, Calls
<1>2. CASE outcome = "failed"
  BY <1>1, <1>2
  DEF MemoryOK, UntouchedOK, PayloadOK, FlagOK, MoveOK, AreaOK, CallOK, CpuOK, Exact, Early, Busy, Calls
<1>3. CASE outcome # "failed"
  <2>1. pc' = "working" /\ todo' = Tail(todo)
    BY <1>1, <1>3
  <2>2. \A j : Left(j) => Left(j)' \/ j = job
    BY <1>1, <2>1, OthersAreLeft
  <2>3. pc \in Busy
    BY <1>1 DEF Busy, Calls
  <2>4. sent = 0 => HeadDone
    BY <1>1, <1>3, <2>3 DEF MemoryOK, CallOK, Exact
  <2>5. \A op, n : Job(op, n).op = op /\ Job(op, n).n = n
    BY DEF Job
  <2>6. sent = 0 => /\ \A n : Job("flag", n) = job => n \in cloexec
                    /\ \A n : Job("move", n) = job => kmap = "wanted"
                    /\ \A a : Job("map", a) = job => area[a] = "rwx"
                    /\ \A a : Job("protect", a) = job => area[a] = "final"
    BY <2>4, <2>5 DEF HeadDone
  <2> HIDE DEF job
  <2>7. PayloadOK'
    <3>1. \A a : Job("fill", a) # job
      BY <1>1, <2>5
    <3>2. QED
      BY <1>1, <2>1, <2>2, <2>3, <3>1 DEF MemoryOK, PayloadOK
  <2>8. FlagOK' /\ MoveOK'
    BY <1>1, <2>1, <2>2, <2>3, <2>6 DEF MemoryOK, FlagOK, MoveOK, Exact
  <2>9. AreaOK'
    <3>1. SUFFICES ASSUME NEW a \in Areas, sent = 0
                   PROVE  area[a] = Wanted(a) \/ Left(LastJob(a))'
      BY <1>1 DEF AreaOK, Exact, Wanted, LastJob, NeedsProtect
    <3>2. area[a] = Wanted(a) \/ Left(LastJob(a))
      BY <2>3, <3>1 DEF MemoryOK, AreaOK, Exact
    <3>3. LastJob(a)' = LastJob(a)
      BY <1>1 DEF LastJob, NeedsProtect
    <3>4. LastJob(a) = job => area[a] = Wanted(a)
      BY <2>6, <3>1 DEF LastJob, Wanted
    <3>5. Left(LastJob(a)) => Left(LastJob(a))' \/ LastJob(a) = job
      BY <2>2, <3>3
    <3>6. QED
      BY <3>2, <3>4, <3>5
  <2>10. UntouchedOK' /\ CallOK' /\ CpuOK'
    BY <2>1 DEF UntouchedOK, CallOK, CpuOK, Early
  <2>11. QED
    BY <2>7, <2>8, <2>9, <2>10 DEF MemoryOK
<1>4. QED
  BY <1>2, <1>3

(* A payload that was written, and a round of the loop that had nothing to *)
(* do, are crossed off too.                                                *)
LEMMA MemoryByFill ==
    ASSUME TypeOK, MemoryOK, Fill \/ LoopsOn
    PROVE  MemoryOK'
<1> DEFINE job == Head(todo)
<1>1. /\ UNCHANGED <<snap, pc, sent, area, kmap, cloexec>>
      /\ pc = "working" /\ todo # <<>> /\ todo' = Tail(todo)
      /\ job.op \in {"fill", "none"}
  BY DEF Fill, LoopsOn, Continue, Job, childVars, memoryVars
<1>2. \A a \in Areas : content'[a] = content[a] \/ content'[a] = "payload"
  BY DEF Fill, LoopsOn, memoryVars, TypeOK
<1>3. job.op = "fill" => job = Job("fill", job.n) /\ job.n \in Areas /\ content'[job.n] = "payload"
  <2>1. job.op = "fill" => job.n \in Areas /\ job = Job("fill", job.n)
    BY <1>1, HeadIsLeft DEF JobType
  <2>2. job.op = "fill" => Fill
    BY DEF LoopsOn, Continue, Job
  <2>3. QED
    BY <2>1, <2>2 DEF Fill, TypeOK
<1>4. \A j : Left(j) => Left(j)' \/ j = job
  BY <1>1, OthersAreLeft
<1>5. \A op, n : Job(op, n).op = op /\ Job(op, n).n = n
  BY DEF Job
<1>6. pc \in Busy
  BY <1>1 DEF Busy
<1> HIDE DEF job
<1>7. PayloadOK'
  <2>1. \A a : Job("fill", a) = job => content'[a] = "payload"
    BY <1>3, <1>5
  <2>2. QED
    BY <1>2, <1>4, <1>6, <2>1 DEF MemoryOK, PayloadOK
<1>8. FlagOK' /\ MoveOK'
  <2>1. \A n : Job("flag", n) # job /\ Job("move", n) # job
    BY <1>1, <1>5
  <2>2. QED
    BY <1>1, <1>4, <1>6, <2>1 DEF MemoryOK, FlagOK, MoveOK, Exact
<1>9. AreaOK'
  <2>1. SUFFICES ASSUME NEW a \in Areas, sent = 0
                 PROVE  area[a] = Wanted(a) \/ Left(LastJob(a))'
    BY <1>1 DEF AreaOK, Exact, Wanted, LastJob, NeedsProtect
  <2>2. area[a] = Wanted(a) \/ Left(LastJob(a))
    BY <1>6, <2>1 DEF MemoryOK, AreaOK, Exact
  <2>3. LastJob(a)' = LastJob(a)
    BY <1>1 DEF LastJob, NeedsProtect
  <2>4. LastJob(a) # job
    BY <1>1, <1>5 DEF LastJob
  <2>5. QED
    BY <1>4, <2>2, <2>3, <2>4
<1>10. UntouchedOK' /\ CallOK' /\ CpuOK'
  BY <1>1 DEF UntouchedOK, CallOK, CpuOK, Early
<1>11. QED
  BY <1>7, <1>8, <1>9, <1>10 DEF MemoryOK

(* When the memory file opens, everything is still to be done.             *)
LEMMA MemoryByOpen ==
    ASSUME TypeOK, MemoryOK, OpenMem, pc' = "working"
    PROVE  MemoryOK'
<1>1. /\ UNCHANGED <<snap, kmap>> /\ kmap = "own" /\ todo' = Jobs(snap)
  BY DEF OpenMem, memoryVars, MemoryOK, UntouchedOK, Early
<1>2. ASSUME NEW j, \E k \in 1 .. Len(Jobs(snap)) : Jobs(snap)[k] = j
      PROVE  Left(j)'
  <2>1. \E k \in 1 .. Len(todo') : todo'[k] = j
    BY <1>1, <1>2
  <2>2. QED
    BY <2>1 DEF Left
<1>3. \A n \in 1 .. NFlags : Left(Job("flag", n))'
  BY <1>2, JobsCover
<1>4. Left(Job("move", 0))'
  BY <1>2, JobsCover
<1>5. ASSUME NEW a \in Areas
      PROVE  /\ Left(Job("map", a))' /\ Left(Job("fill", a))'
             /\ NeedsProtect(snap, a) => Left(Job("protect", a))'
  <2>1. NFlags + 2 * a \in 1 .. Len(Jobs(snap))
    <3>1. NFlags + 2 * a + 1 \in 1 .. Len(Jobs(snap)) /\ Len(Jobs(snap)) \in Nat
      BY JobsAre, JobsCover
    <3>2. NFlags \in Nat /\ a \in 1 .. NAreas /\ NAreas \in Nat
      BY SizesAssumption DEF Areas
    <3>3. QED
      BY <3>1, <3>2
  <2>2. NeedsProtect(snap, a) => \E k \in 1 .. Len(Jobs(snap)) : Jobs(snap)[k] = Job("protect", a)
    <3>1. \A k \in NFlags + 2 + 2 * NAreas .. Len(Jobs(snap)) : k \in 1 .. Len(Jobs(snap))
      BY SizesAssumption
    <3>2. QED
      BY <3>1, JobsCover
  <2>3. QED
    BY <1>2, <2>1, <2>2, JobsCover
<1>6. PayloadOK' /\ FlagOK' /\ MoveOK'
  BY <1>1, <1>3, <1>4, <1>5 DEF PayloadOK, FlagOK, MoveOK
<1>7. AreaOK'
  BY <1>1, <1>5 DEF AreaOK, LastJob, NeedsProtect
<1>8. UntouchedOK' /\ CallOK' /\ CpuOK'
  BY DEF UntouchedOK, CallOK, CpuOK, Early
<1>9. QED
  BY <1>6, <1>7, <1>8 DEF MemoryOK

(* A step that leaves work and memory alone leaves MemoryOK alone.         *)
LEMMA MemoryStays ==
    ASSUME MemoryOK, UNCHANGED <<snap, todo, area, content, kmap, cloexec>>,
           sent' = 0 => sent = 0,
           pc' \in Early => pc \in Early,
           pc' \in Busy => pc \in Busy,
           CallOK', CpuOK'
    PROVE  MemoryOK'
<1>1. \A j : Left(j)' <=> Left(j)
  BY DEF Left
<1>2. UntouchedOK' /\ PayloadOK' /\ FlagOK' /\ MoveOK'
  BY <1>1 DEF MemoryOK, UntouchedOK, PayloadOK, FlagOK, MoveOK, Exact
<1>3. AreaOK'
  BY <1>1 DEF MemoryOK, AreaOK, Exact, Wanted, LastJob, NeedsProtect
<1>4. QED
  BY <1>2, <1>3 DEF MemoryOK

(* So every step keeps what is not yet as in the snapshot among the work.  *)
LEMMA MemoryStep ==
    ASSUME TypeOK, StageOK, TodoOK, SiteOK, MemoryOK, [Next]_vars
    PROVE  MemoryOK'
<1> USE DEF childVars, memoryVars, cpuVars
<1>1. CASE OpenMem /\ pc' = "working"
  BY <1>1, MemoryByOpen
<1>2. CASE ChildSteps
  BY <1>2, MemoryByCall
<1>3. CASE Undo
  BY <1>3, MemoryByUndo
<1>4. CASE Fill \/ LoopsOn
  BY <1>4, MemoryByFill
<1>5. CASE Plant \/ SingleStep \/ AllInjected \/ SetFinalRegs \/ SetFinalXstate \/ Release
  <2>1. /\ UNCHANGED <<snap, todo, area, content, kmap, cloexec, sent>>
        /\ pc \in Busy /\ pc' \notin Early
    BY <1>5
    DEF Plant, Injecting, SingleStep, AllInjected, SetFinalRegs, SetFinalXstate, Release, Busy, Calls, Early
  <2>2. CallOK'
    BY <1>5 DEF Plant, SingleStep, AllInjected, SetFinalRegs, SetFinalXstate, Release, CallOK
  <2>3. CpuOK'
    BY <1>5 DEF Plant, SingleStep, AllInjected, SetFinalRegs, SetFinalXstate, Release, MemoryOK, CpuOK
  <2>4. QED
    BY <2>1, <2>2, <2>3, MemoryStays
<1>6. CASE Quiet
  <2>1. /\ UNCHANGED <<snap, todo, area, content, kmap, cloexec>>
        /\ sent' = 0 => sent = 0
        /\ pc' \in Early => pc \in Early
        /\ pc' \in Busy => pc \in Busy
    BY <1>6 DEF Quiet, Early, Busy, Calls
  <2>2. CallOK'
    BY <1>6 DEF Quiet, MemoryOK, CallOK, HeadDone, Exact, Early, Busy, Calls
  <2>3. CpuOK'
    BY <1>6 DEF Quiet, MemoryOK, CpuOK, Early, Busy, Calls
  <2>4. QED
    BY <2>1, <2>2, <2>3, MemoryStays
<1>7. QED
  BY <1>1, <1>2, <1>3, <1>4, <1>5, <1>6, WorkOrQuiet

(* The engine detaches when there is nothing left to do and the registers  *)
(* are set (restorer.c:175-186); it does not touch the process again.      *)
LEMMA ReleasedStep ==
    ASSUME TypeOK, StageOK, WordOK, MemoryOK, ReleasedOK, [Next]_vars
    PROVE  ReleasedOK'
<1> USE DEF childVars, memoryVars, cpuVars
<1>1. CASE Release
  <2>1. CASE child = "stopped"
    <3>1. /\ pc = "release" /\ pc' = "reaping" /\ todo = <<>> /\ pc \in Busy
          /\ UNCHANGED <<snap, image, sent, memoryVars, cpuVars>>
      BY <1>1 DEF Release, StageOK, Busy
    <3>2. \A j : ~Left(j)
      BY <3>1 DEF Left
    <3>3. \A a \in Areas : content[a] = "payload"
      BY <3>1, <3>2 DEF MemoryOK, PayloadOK
    <3>4. ASSUME sent = 0
          PROVE  Complete
      <4>1. image = "exe" /\ regs = "snapshot" /\ xstate
        BY <2>1, <3>1, <3>4 DEF StageOK, MemoryOK, CpuOK
      <4>2. kmap = "wanted" /\ \A a \in Areas : area[a] = Wanted(a)
        BY <3>1, <3>2, <3>4 DEF MemoryOK, MoveOK, AreaOK, Exact
      <4>3. cloexec = 1 .. NFlags
        BY <3>1, <3>2, <3>4 DEF MemoryOK, FlagOK, Exact, TypeOK
      <4>4. word = IF snap.site = 0 THEN "exe" ELSE "payload"
        <5>1. snap.site # 0 => snap.site \in Areas
          BY DEF TypeOK, Snapshots, Areas
        <5>2. QED
          BY <3>1, <3>3, <5>1 DEF WordOK, Word, Calls
      <4>5. QED
        BY <3>3, <4>1, <4>2, <4>3, <4>4 DEF Complete, Wanted
    <3>5. ReleasedIsComplete'
      BY <3>1, <3>3, <3>4 DEF ReleasedIsComplete, Complete, NeedsProtect
    <3>6. QED
      BY <3>1, <3>5 DEF ReleasedOK
  <2>2. CASE child # "stopped"
    BY <1>1, <2>2 DEF Release, ReleasedOK
  <2>3. QED
    BY <2>1, <2>2
<1>2. CASE Quiet
  <2>1. ReleasedIsComplete => ReleasedIsComplete'
    BY <1>2 DEF Quiet, ReleasedIsComplete, Complete, NeedsProtect
  <2>2. QED
    BY <1>2, <2>1 DEF Quiet, Over, ReleasedOK
<1>3. CASE \/ OpenMem \/ Plant \/ SingleStep \/ ChildSteps \/ Undo \/ Fill \/ LoopsOn
           \/ AllInjected \/ SetFinalRegs \/ SetFinalXstate
  <2>1. pc \notin {"reaping", "end", "crashed"} /\ released' = released
    BY <1>3
    DEF OpenMem, Plant, Injecting, SingleStep, ChildSteps, Undo, Fill, LoopsOn, AllInjected,
        SetFinalRegs, SetFinalXstate, StageOK
  <2>2. QED
    BY <2>1 DEF ReleasedOK
<1>4. QED
  BY <1>1, <1>2, <1>3, WorkOrQuiet

-----------------------------------------------------------------------------

(* A restore begins with nothing done and nothing promised.                *)
LEMMA RestoreInit == Init => RestoreInv
<1> SUFFICES ASSUME Init PROVE RestoreInv
  OBVIOUS
<1> USE DEF Init
<1>1. TypeOK
  <2>1. todo \in Seq(JobType)
    OBVIOUS
  <2>2. area \in [Areas -> {"absent", "own", "rwx", "final"}]
    OBVIOUS
  <2>3. signals \in 0 .. MaxSignals /\ sent \in 0 .. MaxSignals
    BY SignalsAssumption
  <2>4. snap \in Snapshots /\ content \in [Areas -> {"other", "payload"}]
    OBVIOUS
  <2>5. /\ {word, under} \subseteq {"exe", "zero", "payload", "opcode"}
        /\ cloexec \subseteq 1 .. NFlags
        /\ {xstate, released} \subseteq BOOLEAN
    OBVIOUS
  <2>6. /\ pc = "metadata" /\ result = "ERROR" /\ outcome = "done" /\ child = "none"
        /\ image = "engine" /\ kmap = "own" /\ regs = "exe"
    OBVIOUS
  <2> HIDE DEF Init
  <2>7. QED
    BY <2>1, <2>2, <2>3, <2>4, <2>5, <2>6 DEF TypeOK, JobType
<1>2. StageOK
  BY DEF StageOK, Calls
<1>3. TodoOK
  BY DEF TodoOK, Ordered
<1>4. SiteOK
  BY DEF SiteOK, Snapshots, Areas
<1>5. WordOK
  <2>1. snap.site # 0 => snap.site \in Areas
    BY DEF Snapshots, Areas
  <2>2. QED
    BY <2>1 DEF WordOK, Word, Calls
<1>6. MemoryOK
  BY DEF MemoryOK, UntouchedOK, PayloadOK, FlagOK, MoveOK, AreaOK, CallOK, CpuOK, Exact, Busy, Calls
<1>7. ReleasedOK
  BY DEF ReleasedOK
<1>8. QED
  BY <1>1, <1>2, <1>3, <1>4, <1>5, <1>6, <1>7 DEF RestoreInv

(* Every restore keeps the inductive invariant, whichever step fails and   *)
(* whatever signals, deaths and crashes come in between.                   *)
THEOREM RestoreInvariant == Spec => []RestoreInv
<1>1. RestoreInv /\ [Next]_vars => RestoreInv'
  BY TypeStep, StageStep, TodoStep, SiteStep, WordStep, MemoryStep, ReleasedStep DEF RestoreInv
<1>2. QED
  BY <1>1, RestoreInit, PTL DEF Spec

(* TypeOK of the model of restorer().                                      *)
THEOREM RestoreTypes == Spec => []TypeOK
<1>1. RestoreInv => TypeOK
  BY DEF RestoreInv
<1>2. QED
  BY <1>1, RestoreInvariant, PTL

(* A process that restorer() lets go of (restorer.c:186) has all payloads  *)
(* of its snapshot, and is complete unless a stray signal reached it.      *)
THEOREM ReleaseIsComplete == Spec => []ReleasedIsComplete
<1>1. RestoreInv => ReleasedIsComplete
  BY DEF RestoreInv, ReleasedOK, ReleasedIsComplete
<1>2. QED
  BY <1>1, RestoreInvariant, PTL

(* The area with the injection site stays executable until the end         *)
(* (restorer.c:660-661): a planted opcode can always be run.               *)
THEOREM SiteIsExecutable == Spec => []SiteStaysExecutable
<1>1. RestoreInv => SiteStaysExecutable
  <2>1. SUFFICES ASSUME RestoreInv, pc = "planted", snap.site # 0
                 PROVE  area[snap.site] \in {"own", "rwx"}
    BY DEF SiteStaysExecutable, SiteExecutable
  <2>2. snap.site \in Areas
    BY <2>1 DEF RestoreInv, TypeOK, Snapshots, Areas
  <2>3. area[snap.site] # "absent" /\ area[snap.site] # "final"
    BY <2>1 DEF RestoreInv, StageOK, SiteOK, Calls
  <2>4. QED
    BY <2>1, <2>2, <2>3 DEF RestoreInv, TypeOK
<1>2. QED
  BY <1>1, RestoreInvariant, PTL

(* A restorer() that returns has no child any more (restorer.c:184-222).   *)
THEOREM NothingIsLeftBehind == Spec => []NothingLeftBehind
<1>1. RestoreInv => NothingLeftBehind
  BY DEF RestoreInv, StageOK, NothingLeftBehind
<1>2. QED
  BY <1>1, RestoreInvariant, PTL

=============================================================================
