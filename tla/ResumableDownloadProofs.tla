---------------------- MODULE ResumableDownloadProofs ----------------------
(***************************************************************************)
(* Theorems about ResumableDownload, for every layout that tiles the       *)
(* resource, every number of workers, retries and events.                  *)
(***************************************************************************)
EXTENDS ResumableDownload, TLAPS

\* A worker whose request is out or being read.
Fetching == {"request", "read", "write", "count", "ended"}

\* Where an attempt is: its request begins inside its chunk, no body reaches
\* past the resource, and the writer stands exactly where the next byte of
\* the body belongs.
AttemptBounds(s) ==
  /\ s.pc \in {"attempt", "request"} => s.read = 0 /\ s.body = 0
  /\ s.pc \in {"attempt", "request", "read", "ended"} => s.n = 0
  /\ s.pc \in Fetching =>
       /\ Start[s.chunk] <= s.req /\ s.req <= End[s.chunk]
       /\ s.req + s.body <= Length
       /\ s.read + s.n <= s.body
       /\ s.pc # "count" => s.woff = s.req + s.read
       /\ s.pc = "count" => s.woff = s.req + s.read + s.n

WorkersBounded == \A w \in Workers : AttemptBounds(worker[w])

WorkerRecord == [pc : {"take", "exited", "lock"} \cup Active \cup Syncing,
                 chunk : Chunks, attempt : 0..MaxRetries,
                 woff : 0..Length, req : 0..Length, read : 0..Length,
                 body : 0..Length, n : 0..Length, idx : Chunks]

\* The bounds of the constants, in the form the provers use them.
LEMMA LayoutFacts ==
  /\ Length \in Nat /\ Length > 0 /\ NumChunks \in Nat /\ NumChunks > 0
  /\ MaxRetries \in Nat /\ MaxVersion \in Nat /\ MaxVersion > 0 /\ Budget \in Nat
  /\ 1 \in Chunks /\ NoWorker \notin Workers
  /\ Chunks \subseteq Int /\ Offsets \subseteq Int
  /\ \A c \in Chunks : /\ Start[c] \in Int /\ End[c] \in Int
                       /\ 0 <= Start[c] /\ Start[c] <= End[c] /\ End[c] < Length
                       /\ Size(c) \in 1..Length
<1>1. /\ Length \in Nat /\ Length > 0 /\ NumChunks \in Nat /\ NumChunks > 0
      /\ MaxRetries \in Nat /\ MaxVersion \in Nat /\ MaxVersion > 0 /\ Budget \in Nat
      /\ NoWorker \notin Workers
  BY ParameterAssumption
<1>2. 1 \in Chunks /\ Chunks \subseteq Int /\ Offsets \subseteq Int
  BY <1>1 DEF Chunks, Offsets
<1>3. ASSUME NEW c \in Chunks
      PROVE  /\ Start[c] \in Int /\ End[c] \in Int
             /\ 0 <= Start[c] /\ Start[c] <= End[c] /\ End[c] < Length
  <2>1. Start[c] \in Offsets /\ End[c] \in Offsets /\ Start[c] <= End[c]
    BY LayoutAssumption
  <2>2. QED
    BY <1>1, <2>1 DEF Offsets
<1>4. \A c \in Chunks : Size(c) \in 1..Length
  BY <1>1, <1>3 DEF Size
<1>5. QED
  BY <1>1, <1>2, <1>3, <1>4

\* The record a worker starts a step of its loop with.
LEMMA AttemptType ==
  ASSUME NEW pc \in {"take", "exited", "lock", "attempt"} \cup Syncing,
         NEW c \in Chunks, NEW a \in 0..MaxRetries
  PROVE  Attempt(pc, c, a) \in WorkerRecord /\ AttemptBounds(Attempt(pc, c, a))
<1>1. Attempt(pc, c, a) \in WorkerRecord /\ Attempt(pc, c, a).pc = pc
  BY LayoutFacts DEF Attempt, WorkerRecord, Active
<1>2. Attempt(pc, c, a).read = 0 /\ Attempt(pc, c, a).n = 0 /\ Attempt(pc, c, a).body = 0
  BY DEF Attempt
<1>3. QED
  BY <1>1, <1>2 DEF AttemptBounds, Fetching, Syncing

LEMMA LocalsType ==
  ASSUME NEW pc \in {"take", "exited", "lock", "attempt"} \cup Syncing
  PROVE  Locals(pc) \in WorkerRecord /\ AttemptBounds(Locals(pc))
BY AttemptType, LayoutFacts DEF Locals

LEMMA AttemptFacts ==
  ASSUME NEW s \in WorkerRecord, AttemptBounds(s), s.pc \in Fetching
  PROVE  /\ s.chunk \in Chunks /\ Start[s.chunk] \in Int /\ End[s.chunk] \in Int
         /\ 0 <= Start[s.chunk] /\ End[s.chunk] < Length
         /\ Start[s.chunk] <= s.req /\ s.req <= End[s.chunk]
         /\ s.woff \in Int /\ s.req \in Int /\ s.read \in Int /\ s.body \in Int /\ s.n \in Int
         /\ 0 <= s.woff /\ 0 <= s.req /\ 0 <= s.read /\ 0 <= s.body /\ 0 <= s.n
         /\ s.req + s.body <= Length /\ s.read + s.n <= s.body
         /\ s.pc # "count" => s.woff = s.req + s.read
         /\ s.pc = "count" => s.woff = s.req + s.read + s.n
<1>1. /\ s.chunk \in Chunks
      /\ s.woff \in 0..Length /\ s.req \in 0..Length /\ s.read \in 0..Length
      /\ s.body \in 0..Length /\ s.n \in 0..Length
  BY DEF WorkerRecord
<1>2. /\ Start[s.chunk] \in Int /\ End[s.chunk] \in Int
      /\ 0 <= Start[s.chunk] /\ End[s.chunk] < Length /\ Length \in Nat
  BY <1>1, LayoutFacts
<1>3. QED
  BY <1>1, <1>2 DEF AttemptBounds

\* The steps inside an attempt, as updates of the worker's record.
LEMMA AttemptSteps ==
  ASSUME NEW s \in WorkerRecord, AttemptBounds(s)
  PROVE  /\ \A at \in Start[s.chunk]..End[s.chunk] : s.pc = "attempt" =>
              LET r == [s EXCEPT !.pc = "request", !.woff = at, !.req = at]
              IN  r \in WorkerRecord /\ AttemptBounds(r)
         /\ \A len \in 0..(Length - s.req) : s.pc = "request" =>
              LET r == [s EXCEPT !.pc = "read", !.body = len]
              IN  r \in WorkerRecord /\ AttemptBounds(r)
         /\ \A k \in 1..(s.body - s.read) : s.pc = "read" =>
              LET r == [s EXCEPT !.pc = "write", !.n = k]
              IN  r \in WorkerRecord /\ AttemptBounds(r)
         /\ s.pc = "write" =>
              LET r == [s EXCEPT !.pc = "count", !.woff = s.woff + s.n]
              IN  r \in WorkerRecord /\ AttemptBounds(r)
         /\ \A pc \in {"read", "ended"} : s.pc = "count" =>
              LET r == [s EXCEPT !.pc = pc, !.read = s.read + s.n, !.n = 0]
              IN  r \in WorkerRecord /\ AttemptBounds(r)
         /\ s.pc = "read" =>
              LET r == [s EXCEPT !.pc = "ended"]
              IN  r \in WorkerRecord /\ AttemptBounds(r)
<1>1. /\ s.chunk \in Chunks /\ Start[s.chunk] \in Int /\ End[s.chunk] \in Int
      /\ 0 <= Start[s.chunk] /\ End[s.chunk] < Length
      /\ s.woff \in 0..Length /\ s.req \in 0..Length /\ s.read \in 0..Length
      /\ s.body \in 0..Length /\ s.n \in 0..Length /\ Length \in Nat
  BY LayoutFacts DEF WorkerRecord
<1>2. ASSUME NEW at \in Start[s.chunk]..End[s.chunk], s.pc = "attempt",
             NEW r, r = [s EXCEPT !.pc = "request", !.woff = at, !.req = at]
      PROVE  r \in WorkerRecord /\ AttemptBounds(r)
  <2>1. at \in 0..Length
    BY <1>1, <1>2 DEF AttemptBounds, Fetching
  <2>2. /\ r \in WorkerRecord /\ r.pc = "request" /\ r.chunk = s.chunk /\ r.woff = at
        /\ r.req = at /\ r.read = s.read /\ r.body = s.body /\ r.n = s.n
    BY <2>1, <1>2 DEF WorkerRecord, Active
  <2>3. QED
    BY <1>1, <1>2, <2>2 DEF AttemptBounds, Fetching
<1>3. ASSUME NEW len \in 0..(Length - s.req), s.pc = "request",
             NEW r, r = [s EXCEPT !.pc = "read", !.body = len]
      PROVE  r \in WorkerRecord /\ AttemptBounds(r)
  <2>1. len \in 0..Length
    BY <1>1, <1>3 DEF AttemptBounds, Fetching
  <2>2. /\ r \in WorkerRecord /\ r.pc = "read" /\ r.chunk = s.chunk /\ r.woff = s.woff
        /\ r.req = s.req /\ r.read = s.read /\ r.body = len /\ r.n = s.n
    BY <2>1, <1>3 DEF WorkerRecord, Active
  <2>3. QED
    BY <1>1, <1>3, <2>2 DEF AttemptBounds, Fetching
<1>4. ASSUME NEW k \in 1..(s.body - s.read), s.pc = "read",
             NEW r, r = [s EXCEPT !.pc = "write", !.n = k]
      PROVE  r \in WorkerRecord /\ AttemptBounds(r)
  <2>1. k \in 0..Length
    BY <1>1, <1>4 DEF AttemptBounds, Fetching
  <2>2. /\ r \in WorkerRecord /\ r.pc = "write" /\ r.chunk = s.chunk /\ r.woff = s.woff
        /\ r.req = s.req /\ r.read = s.read /\ r.body = s.body /\ r.n = k
    BY <2>1, <1>4 DEF WorkerRecord, Active
  <2>3. QED
    BY <1>1, <1>4, <2>2 DEF AttemptBounds, Fetching
<1>5. ASSUME s.pc = "write", NEW r, r = [s EXCEPT !.pc = "count", !.woff = s.woff + s.n]
      PROVE  r \in WorkerRecord /\ AttemptBounds(r)
  <2>1. s.woff + s.n \in 0..Length
    BY <1>1, <1>5 DEF AttemptBounds, Fetching
  <2>2. /\ r \in WorkerRecord /\ r.pc = "count" /\ r.chunk = s.chunk /\ r.woff = s.woff + s.n
        /\ r.req = s.req /\ r.read = s.read /\ r.body = s.body /\ r.n = s.n
    BY <2>1, <1>5 DEF WorkerRecord, Active
  <2>3. QED
    BY <1>1, <1>5, <2>2 DEF AttemptBounds, Fetching
<1>6. ASSUME NEW pc \in {"read", "ended"}, s.pc = "count",
             NEW r, r = [s EXCEPT !.pc = pc, !.read = s.read + s.n, !.n = 0]
      PROVE  r \in WorkerRecord /\ AttemptBounds(r)
  <2>1. s.read + s.n \in 0..Length /\ 0 \in 0..Length
    BY <1>1, <1>6 DEF AttemptBounds, Fetching
  <2>2. /\ r \in WorkerRecord /\ r.pc = pc /\ r.chunk = s.chunk /\ r.woff = s.woff
        /\ r.req = s.req /\ r.read = s.read + s.n /\ r.body = s.body /\ r.n = 0
    BY <2>1, <1>6 DEF WorkerRecord, Active
  <2>3. QED
    BY <1>1, <1>6, <2>2 DEF AttemptBounds, Fetching
<1>7. ASSUME s.pc = "read", NEW r, r = [s EXCEPT !.pc = "ended"]
      PROVE  r \in WorkerRecord /\ AttemptBounds(r)
  <2>2. /\ r \in WorkerRecord /\ r.pc = "ended" /\ r.chunk = s.chunk /\ r.woff = s.woff
        /\ r.req = s.req /\ r.read = s.read /\ r.body = s.body /\ r.n = s.n
    BY <1>7 DEF WorkerRecord, Active
  <2>3. QED
    BY <1>1, <1>7, <2>2 DEF AttemptBounds, Fetching
<1>8. QED
  BY <1>2, <1>3, <1>4, <1>5, <1>6, <1>7

\* Where a step leaves worker w with the record r, the workers stay typed and
\* bounded if r is.
LEMMA WorkerUpdate ==
  ASSUME TypeOK, WorkersBounded, NEW w \in Workers, NEW r \in WorkerRecord,
         AttemptBounds(r), worker' = [worker EXCEPT ![w] = r]
  PROVE  worker' \in [Workers -> WorkerRecord] /\ WorkersBounded'
<1>1. worker \in [Workers -> WorkerRecord]
  BY DEF TypeOK, WorkerRecord
<1>2. worker' \in [Workers -> WorkerRecord]
  BY <1>1
<1>3. \A v \in Workers : worker'[v] = IF v = w THEN r ELSE worker[v]
  BY <1>1
<1>4. WorkersBounded'
  BY <1>3 DEF WorkersBounded, AttemptBounds
<1>5. QED
  BY <1>2, <1>4

\* The two ways an attempt ends without success.
LEMMA FailWorkerUpdate ==
  ASSUME TypeOK, WorkersBounded, NEW w \in Workers, FailWorker(w)
  PROVE  /\ worker' \in [Workers -> WorkerRecord] /\ WorkersBounded'
         /\ downloadErr' \in BOOLEAN /\ stopped' \in BOOLEAN
<1>1. Locals("exited") \in WorkerRecord /\ AttemptBounds(Locals("exited"))
  BY LocalsType
<1>2. QED
  BY <1>1, WorkerUpdate DEF FailWorker

LEMMA RetryOrFailUpdate ==
  ASSUME TypeOK, WorkersBounded, NEW w \in Workers, RetryOrFail(w)
  PROVE  /\ worker' \in [Workers -> WorkerRecord] /\ WorkersBounded'
         /\ downloadErr' \in BOOLEAN /\ stopped' \in BOOLEAN
<1>1. CASE MayRetry(w)
  <2> DEFINE r == Attempt("attempt", worker[w].chunk, NextAttempt(w))
  <2>1. worker[w].chunk \in Chunks /\ worker[w].attempt \in 0..MaxRetries
    BY DEF TypeOK
  <2>2. NextAttempt(w) \in 0..MaxRetries
    BY <1>1, <2>1, LayoutFacts DEF MayRetry, NextAttempt
  <2>3. r \in WorkerRecord /\ AttemptBounds(r)
    BY <2>1, <2>2, AttemptType
  <2>4. worker' = [worker EXCEPT ![w] = r]
    BY <1>1 DEF RetryOrFail
  <2>5. downloadErr' \in BOOLEAN /\ stopped' \in BOOLEAN
    BY <1>1 DEF RetryOrFail, TypeOK
  <2>6. QED
    BY <2>3, <2>4, <2>5, WorkerUpdate
<1>2. CASE ~MayRetry(w)
  BY <1>2, FailWorkerUpdate DEF RetryOrFail
<1>3. QED
  BY <1>1, <1>2

\* The bytes of one Read, written where the writer stands, keep the file typed.
LEMMA WrittenType ==
  ASSUME TypeOK, WorkersBounded, NEW w \in Workers, worker[w].pc = "write",
         NEW n \in 0..worker[w].n
  PROVE  Written(w, n) \in [Offsets -> [ver : 0..MaxVersion, off : Offsets]]
<1> DEFINE s == worker[w]
<1>1. s \in WorkerRecord /\ AttemptBounds(s) /\ s.pc = "write"
  BY DEF TypeOK, WorkerRecord, WorkersBounded
<1> HIDE DEF s
<1>2. /\ s.woff \in Int /\ s.req \in Int /\ s.read \in Int /\ s.n \in Int
      /\ 0 <= s.woff /\ s.woff = s.req + s.read
  BY <1>1, AttemptFacts DEF Fetching
<1>3. n \in Int
  BY <1>2 DEF s
<1>4. ASSUME NEW o \in Offsets, o \in s.woff..(s.woff + n - 1)
      PROVE  Byte(version, s.req + s.read + (o - s.woff)) \in [ver : 0..MaxVersion, off : Offsets]
  <2>1. s.req + s.read + (o - s.woff) = o
    BY <1>2, LayoutFacts
  <2>2. version \in 0..MaxVersion
    BY LayoutFacts DEF TypeOK, Versions
  <2>3. QED
    BY <2>1, <2>2 DEF Byte
<1>5. file \in [Offsets -> [ver : 0..MaxVersion, off : Offsets]]
  BY DEF TypeOK
<1>6. Written(w, n) = [o \in Offsets |-> IF o \in s.woff..(s.woff + n - 1)
                                         THEN Byte(version, s.req + s.read + (o - s.woff))
                                         ELSE file[o]]
  BY DEF Written, s
<1>7. QED
  BY <1>4, <1>5, <1>6


\* The steps of SyncFromChunks, likewise.
LEMMA SyncSteps ==
  ASSUME NEW s \in WorkerRecord, AttemptBounds(s), s.pc \notin {"attempt"} \cup Fetching
  PROVE  /\ \A pc \in Syncing : LET r == [s EXCEPT !.pc = pc]
                               IN  r \in WorkerRecord /\ AttemptBounds(r)
         /\ \A i \in Chunks : LET r == [s EXCEPT !.pc = "syncD", !.idx = i]
                              IN  r \in WorkerRecord /\ AttemptBounds(r)
<1>1. ASSUME NEW pc \in Syncing, NEW r, r = [s EXCEPT !.pc = pc]
      PROVE  r \in WorkerRecord /\ AttemptBounds(r)
  <2>1. r \in WorkerRecord /\ r.pc = pc
    BY <1>1 DEF WorkerRecord
  <2>2. QED
    BY <2>1 DEF AttemptBounds, Fetching, Syncing
<1>2. ASSUME NEW i \in Chunks, NEW r, r = [s EXCEPT !.pc = "syncD", !.idx = i]
      PROVE  r \in WorkerRecord /\ AttemptBounds(r)
  <2>1. r \in WorkerRecord /\ r.pc = "syncD"
    BY <1>2 DEF WorkerRecord, Syncing
  <2>2. QED
    BY <2>1 DEF AttemptBounds, Fetching
<1>3. QED
  BY <1>1, <1>2

LEMMA FreshTypes ==
  /\ NoIdentity \in Identities
  /\ FreshChunks \in [Chunks -> ChunkState]
  /\ NoCheckpoint \in [id : Identities, st : [Chunks -> ChunkState]]
<1>1. NoIdentity \in Identities
  BY LayoutFacts DEF NoIdentity, Identities
<1>2. FreshChunks \in [Chunks -> ChunkState]
  BY LayoutFacts DEF FreshChunks, ChunkState
<1>3. QED
  BY <1>1, <1>2 DEF NoCheckpoint

LEMMA SaveType ==
  ASSUME TypeOK, NEW st \in [Chunks -> ChunkState], Save(st)
  PROVE  disk' \in [id : Identities, st : [Chunks -> ChunkState]] /\ budget' \in 0..Budget
<1>1. CASE disk' = [id |-> cpId, st |-> st] /\ UNCHANGED budget
  BY <1>1 DEF TypeOK
<1>2. CASE Spend("savefail") /\ UNCHANGED disk
  BY <1>2, LayoutFacts DEF TypeOK, Spend
<1>3. QED
  BY <1>1, <1>2 DEF Save

\* Every step of a worker keeps the state typed and the attempts bounded.
LEMMA WorkerTypeStep ==
  ASSUME TypeOK, WorkersBounded, NEW w \in Workers, WorkerStep(w)
  PROVE  TypeOK' /\ WorkersBounded'
<1> USE DEF session, memory, ckpt, server, names
<1> DEFINE Typed == worker' \in [Workers -> WorkerRecord] /\ WorkersBounded'
<1>0. worker[w] \in WorkerRecord /\ AttemptBounds(worker[w])
  BY DEF TypeOK, WorkerRecord, WorkersBounded
<1>f. ASSUME Typed
      PROVE  worker' \in [Workers -> [pc : {"take", "exited", "lock"} \cup Active \cup Syncing,
                             chunk : Chunks, attempt : 0..MaxRetries,
                             woff : 0..Length, req : 0..Length, read : 0..Length,
                             body : 0..Length, n : 0..Length, idx : Chunks]]
  BY <1>f DEF WorkerRecord
<1>s. ASSUME NEW e, Spend(e)
      PROVE  budget' \in 0..Budget
  BY <1>s, LayoutFacts DEF Spend, TypeOK
<1>1. CASE TakeJob(w)
  <2>1. Typed
    <3>1. CASE worker' = [worker EXCEPT ![w] = Locals("exited")]
      BY <3>1, LocalsType, WorkerUpdate
    <3>2. ASSUME NEW c \in Chunks, worker' = [worker EXCEPT ![w] = Attempt("attempt", c, 0)]
          PROVE  Typed
      <4>1. 0 \in 0..MaxRetries
        BY LayoutFacts
      <4>2. Attempt("attempt", c, 0) \in WorkerRecord /\ AttemptBounds(Attempt("attempt", c, 0))
        BY <4>1, AttemptType
      <4>3. QED
        BY <3>2, <4>2, WorkerUpdate
    <3>3. QED
      BY <1>1, <3>1, <3>2 DEF TakeJob, TypeOK
  <2>2. jobs' \subseteq Chunks
    BY <1>1 DEF TakeJob, TypeOK, JobsAfter
  <2>3. QED
    BY <1>1, <2>1, <2>2, <1>f DEF TakeJob, TypeOK
<1>2. CASE BeginAttempt(w)
  <2> DEFINE c == worker[w].chunk
             at == RequestStart(c)
  <2>1. CASE CtxDone \/ at > End[c]
    <3>1. Typed /\ downloadErr' \in BOOLEAN /\ stopped' \in BOOLEAN
      BY <1>2, <2>1, FailWorkerUpdate, RetryOrFailUpdate DEF BeginAttempt
    <3>2. QED
      BY <1>2, <3>1, <1>f DEF BeginAttempt, TypeOK
  <2>2. CASE ~CtxDone /\ ~(at > End[c])
    <3>1. c \in Chunks /\ chunks[c].downloaded \in 0..Length
      BY <1>0 DEF TypeOK, ChunkState, WorkerRecord
    <3>2. at \in Start[c]..End[c] /\ WriterOffset(c) = at
      <4>a. Start[c] \in Int /\ End[c] \in Int /\ Length \in Nat
        BY <3>1, LayoutFacts
      <4>b. chunks[c].downloaded \in Nat
        BY <3>1, <4>a
      <4>1. Start[c] \in Int /\ End[c] \in Int /\ chunks[c].downloaded \in Nat
        BY <4>a, <4>b
      <4>2. at = Start[c] + chunks[c].downloaded /\ WriterOffset(c) = at
        BY DEF RequestStart, WriterOffset
      <4> HIDE DEF c, at
      <4>3. QED
        BY <2>2, <4>1, <4>2
    <3>3. worker' = [worker EXCEPT ![w] = [worker[w] EXCEPT !.pc = "request", !.woff = at, !.req = at]]
      BY <1>2, <2>2, <3>2 DEF BeginAttempt, TypeOK
    <3>4. Typed
      BY <1>0, <1>2, <3>2, <3>3, AttemptSteps, WorkerUpdate DEF BeginAttempt
    <3>5. QED
      BY <1>2, <2>2, <3>4, <1>f DEF BeginAttempt, TypeOK
  <2>3. QED
    BY <2>1, <2>2
<1>3. CASE PartialContent(w)
  <2> DEFINE len == End[worker[w].chunk] - worker[w].req + 1
  <2>1. len \in 0..(Length - worker[w].req)
    BY <1>0, <1>3, AttemptFacts, LayoutFacts DEF PartialContent, Fetching
  <2>2. worker' = [worker EXCEPT ![w] = [worker[w] EXCEPT !.pc = "read", !.body = len]]
    BY <1>3 DEF PartialContent, TypeOK
  <2>3. Typed
    BY <1>0, <1>3, <2>1, <2>2, AttemptSteps, WorkerUpdate DEF PartialContent
  <2>4. QED
    BY <1>3, <2>3, <1>f DEF PartialContent, TypeOK
<1>4. CASE FullContent(w)
  <2>1. CASE worker[w].req > 0
    <3>1. Typed /\ downloadErr' \in BOOLEAN /\ stopped' \in BOOLEAN
      BY <1>4, <2>1, FailWorkerUpdate DEF FullContent
    <3>2. QED
      BY <1>4, <3>1, <1>f, <1>s DEF FullContent, TypeOK
  <2>2. CASE ~(worker[w].req > 0)
    <3>1. Length \in 0..(Length - worker[w].req)
      BY <1>0, <1>4, <2>2, AttemptFacts, LayoutFacts DEF FullContent, Fetching
    <3>2. worker' = [worker EXCEPT ![w] = [worker[w] EXCEPT !.pc = "read", !.body = Length]]
      BY <1>4, <2>2 DEF FullContent, TypeOK
    <3>3. Typed
      BY <1>0, <1>4, <3>1, <3>2, AttemptSteps, WorkerUpdate DEF FullContent
    <3>4. QED
      BY <1>4, <2>2, <3>3, <1>f, <1>s DEF FullContent, TypeOK
  <2>3. QED
    BY <2>1, <2>2
<1>5. CASE FatalStatus(w)
  <2>1. Typed /\ downloadErr' \in BOOLEAN /\ stopped' \in BOOLEAN
    BY <1>5, FailWorkerUpdate DEF FatalStatus
  <2>2. QED
    BY <1>5, <2>1, <1>f, <1>s DEF FatalStatus, TypeOK
<1>6. CASE RequestFails(w)
  <2>1. Typed /\ downloadErr' \in BOOLEAN /\ stopped' \in BOOLEAN
    BY <1>6, RetryOrFailUpdate DEF RequestFails
  <2>2. budget' \in 0..Budget
    BY <1>6, <1>s DEF RequestFails, TypeOK
  <2>3. QED
    BY <1>6, <2>1, <2>2, <1>f DEF RequestFails, TypeOK
<1>7. CASE ReadBody(w)
  <2>1. PICK n \in 1..(worker[w].body - worker[w].read) :
          worker' = [worker EXCEPT ![w] = [worker[w] EXCEPT !.pc = "write", !.n = n]]
    BY <1>7 DEF ReadBody, TypeOK
  <2>2. Typed
    BY <1>0, <1>7, <2>1, AttemptSteps, WorkerUpdate DEF ReadBody
  <2>3. QED
    BY <1>7, <2>2, <1>f DEF ReadBody, TypeOK
<1>8. CASE WriteBody(w)
  <2>1. worker' = [worker EXCEPT ![w] = [worker[w] EXCEPT !.pc = "count",
                                                    !.woff = worker[w].woff + worker[w].n]]
    BY <1>8 DEF WriteBody, TypeOK
  <2>2. Typed
    BY <1>0, <1>8, <2>1, AttemptSteps, WorkerUpdate DEF WriteBody
  <2>3. worker[w].n \in 0..worker[w].n
    BY <1>0, <1>8, AttemptFacts DEF WriteBody, Fetching
  <2>4. file' \in [Offsets -> [ver : 0..MaxVersion, off : Offsets]]
    BY <1>8, <2>3, WrittenType DEF WriteBody
  <2>5. QED
    BY <1>8, <2>2, <2>4, <1>f DEF WriteBody, TypeOK
<1>9. CASE WriteFails(w)
  <2>1. Typed /\ downloadErr' \in BOOLEAN /\ stopped' \in BOOLEAN
    BY <1>9, RetryOrFailUpdate DEF WriteFails
  <2>2. \A n \in 0..(worker[w].n - 1) : n \in 0..worker[w].n
    BY <1>0, <1>9, AttemptFacts DEF WriteFails, Fetching
  <2>3. file' \in [Offsets -> [ver : 0..MaxVersion, off : Offsets]]
    BY <1>9, <2>2, WrittenType DEF WriteFails
  <2>4. QED
    BY <1>9, <2>1, <2>3, <1>f, <1>s DEF WriteFails, TypeOK
<1>10. CASE CountBytes(w)
  <2> DEFINE c == worker[w].chunk
             d == IF Downloaded(w) > Size(c) THEN Size(c) ELSE Downloaded(w)
  <2>1. c \in Chunks /\ d \in 0..Length
    <3>1. /\ c \in Chunks /\ Start[c] \in Int /\ Start[c] <= worker[w].req
          /\ worker[w].req \in Int /\ worker[w].read \in Nat /\ worker[w].n \in Nat
      BY <1>0, <1>10, AttemptFacts DEF CountBytes, Fetching
    <3>2. Size(c) \in 1..Length
      BY <3>1, LayoutFacts
    <3>3. Downloaded(w) \in Nat
      BY <3>1 DEF Downloaded
    <3>4. QED
      BY <3>1, <3>2, <3>3, LayoutFacts
  <2>2. chunks' \in [Chunks -> ChunkState]
    <3>1. chunks' = [chunks EXCEPT ![c] = [chunks[c] EXCEPT !.downloaded = d]]
      BY <1>10 DEF CountBytes, TypeOK
    <3>2. chunks[c] \in ChunkState
      BY <2>1 DEF TypeOK
    <3>3. [chunks[c] EXCEPT !.downloaded = d] \in ChunkState
      BY <2>1, <3>2 DEF ChunkState
    <3>4. QED
      BY <3>1, <3>3 DEF TypeOK
  <2>3. PICK pc \in {"read", "ended"} :
          worker' = [worker EXCEPT ![w] = [worker[w] EXCEPT !.pc = pc,
                       !.read = worker[w].read + worker[w].n, !.n = 0]]
    BY <1>10 DEF CountBytes, TypeOK
  <2>4. Typed
    BY <1>0, <1>10, <2>3, AttemptSteps, WorkerUpdate DEF CountBytes
  <2>5. QED
    BY SMTT(20), <1>10, <2>2, <2>4, <1>f DEF CountBytes, TypeOK
<1>11. CASE EndBody(w)
  <2>1. worker' = [worker EXCEPT ![w] = [worker[w] EXCEPT !.pc = "ended"]]
    BY <1>11 DEF EndBody, TypeOK
  <2>2. Typed
    BY <1>0, <1>11, <2>1, AttemptSteps, WorkerUpdate DEF EndBody
  <2>3. budget' \in 0..Budget
    BY <1>11, <1>s DEF EndBody, TypeOK
  <2>4. QED
    BY <1>11, <2>2, <2>3, <1>f DEF EndBody, TypeOK
<1>12. CASE ReadCancelled(w)
  <2>1. Typed /\ downloadErr' \in BOOLEAN /\ stopped' \in BOOLEAN
    BY <1>12, RetryOrFailUpdate DEF ReadCancelled
  <2>2. QED
    BY <1>12, <2>1, <1>f DEF ReadCancelled, TypeOK
<1>13. CASE FinishAttempt(w)
  <2> DEFINE c == worker[w].chunk
  <2>1. c \in Chunks /\ Size(c) \in 0..Length
    <3>1. c \in Chunks
      BY <1>0 DEF WorkerRecord
    <3>2. Size(c) \in 1..Length
      BY <3>1, LayoutFacts
    <3>3. QED
      BY <3>1, <3>2
  <2>2. CASE worker[w].read = End[c] - worker[w].req + 1
    <3>1. worker' = [worker EXCEPT ![w] = Locals("lock")]
      BY <1>13, <2>2 DEF FinishAttempt
    <3>2. Typed
      BY <3>1, LocalsType, WorkerUpdate
    <3>3. chunks' \in [Chunks -> ChunkState]
      <4>1. chunks' = [chunks EXCEPT ![c] = [downloaded |-> Size(c), completed |-> TRUE]]
        BY <1>13, <2>2 DEF FinishAttempt
      <4>2. [downloaded |-> Size(c), completed |-> TRUE] \in ChunkState
        BY <2>1 DEF ChunkState
      <4>3. QED
        BY <4>1, <4>2 DEF TypeOK
    <3>4. QED
      BY <1>13, <2>2, <3>2, <3>3, <1>f DEF FinishAttempt, TypeOK
  <2>3. CASE worker[w].read # End[c] - worker[w].req + 1
    <3>1. Typed /\ downloadErr' \in BOOLEAN /\ stopped' \in BOOLEAN
      BY <1>13, <2>3, RetryOrFailUpdate DEF FinishAttempt
    <3>2. QED
      BY <1>13, <2>3, <3>1, <1>f DEF FinishAttempt, TypeOK
  <2>4. QED
    BY <2>2, <2>3
<1>14. CASE LockCheckpoint(w)
  <2>1. worker' = [worker EXCEPT ![w] = [worker[w] EXCEPT !.pc = "syncD"]]
    BY <1>14 DEF LockCheckpoint, TypeOK
  <2>2. Typed
    <3>1. worker[w].pc \notin {"attempt"} \cup Fetching /\ "syncD" \in Syncing
      BY <1>14 DEF LockCheckpoint, Fetching, Syncing
    <3> DEFINE r == [worker[w] EXCEPT !.pc = "syncD"]
    <3>2. r \in WorkerRecord /\ AttemptBounds(r)
      BY <1>0, <3>1, SyncSteps
    <3>3. QED
      BY <2>1, <3>2, WorkerUpdate
  <2>3. QED
    BY <1>14, <2>2, <1>f DEF LockCheckpoint, TypeOK
<1>15. CASE SyncDownloaded(w)
  <2>1. worker' = [worker EXCEPT ![w] = [worker[w] EXCEPT !.pc = "syncC"]]
    BY <1>15 DEF SyncDownloaded, TypeOK
  <2>2. Typed
    <3>1. worker[w].pc \notin {"attempt"} \cup Fetching /\ "syncC" \in Syncing
      BY <1>15 DEF SyncDownloaded, Fetching, Syncing
    <3> DEFINE r == [worker[w] EXCEPT !.pc = "syncC"]
    <3>2. r \in WorkerRecord /\ AttemptBounds(r)
      BY <1>0, <3>1, SyncSteps
    <3>3. QED
      BY <2>1, <3>2, WorkerUpdate
  <2>3. worker[w].idx \in Chunks
    BY <1>0 DEF WorkerRecord
  <2>4. cpMem' \in [Chunks -> ChunkState]
    BY <1>15, <2>3 DEF SyncDownloaded, TypeOK, ChunkState
  <2>5. QED
    BY <1>15, <2>2, <2>4, <1>f DEF SyncDownloaded, TypeOK
<1>16. CASE SyncCompleted(w)
  <2>1. worker[w].idx \in Chunks
    BY <1>0 DEF WorkerRecord
  <2>2. cpMem' \in [Chunks -> ChunkState]
    BY <1>16, <2>1 DEF SyncCompleted, TypeOK, ChunkState
  <2>3. Typed
    <3>1. CASE worker[w].idx < NumChunks
      <4>1. worker' = [worker EXCEPT ![w] = [worker[w] EXCEPT !.pc = "syncD",
                                                              !.idx = worker[w].idx + 1]]
        BY <1>16, <3>1 DEF SyncCompleted, TypeOK
      <4>2. worker[w].idx + 1 \in Chunks
        BY <2>1, <3>1, LayoutFacts DEF Chunks
      <4>3. QED
        <5>1. worker[w].pc \notin {"attempt"} \cup Fetching
          BY <1>16 DEF SyncCompleted, Fetching
        <5> DEFINE r == [worker[w] EXCEPT !.pc = "syncD", !.idx = worker[w].idx + 1]
        <5>2. r \in WorkerRecord /\ AttemptBounds(r)
          BY <1>0, <4>2, <5>1, SyncSteps
        <5>3. QED
          BY <4>1, <5>2, WorkerUpdate
    <3>2. CASE ~(worker[w].idx < NumChunks)
      <4>1. worker' = [worker EXCEPT ![w] = Locals("save")]
        BY <1>16, <3>2 DEF SyncCompleted
      <4>2. QED
        BY <4>1, LocalsType, WorkerUpdate DEF Syncing
    <3>3. QED
      BY <3>1, <3>2
  <2>4. QED
    BY <1>16, <2>2, <2>3, <1>f DEF SyncCompleted, TypeOK
<1>17. CASE SaveCheckpoint(w)
  <2>1. worker' = [worker EXCEPT ![w] = Locals("take")]
    BY <1>17 DEF SaveCheckpoint
  <2>2. Typed
    BY <2>1, LocalsType, WorkerUpdate
  <2>3. cpMem \in [Chunks -> ChunkState]
    BY DEF TypeOK
  <2>4. disk' \in [id : Identities, st : [Chunks -> ChunkState]] /\ budget' \in 0..Budget
    BY <1>17, <2>3, SaveType DEF SaveCheckpoint
  <2>5. QED
    BY <1>17, <2>2, <2>4, <1>f DEF SaveCheckpoint, TypeOK
<1>18. QED
  BY <1>1, <1>2, <1>3, <1>4, <1>5, <1>6, <1>7, <1>8, <1>9, <1>10, <1>11, <1>12, <1>13,
     <1>14, <1>15, <1>16, <1>17 DEF WorkerStep

\* Every other step does, too.
LEMMA TypeStep ==
  ASSUME TypeOK, WorkersBounded, [Next]_vars
  PROVE  TypeOK' /\ WorkersBounded'
<1> USE DEF session, memory, ckpt, server, names
<1> DEFINE Typed == worker' \in [Workers -> WorkerRecord] /\ WorkersBounded'
<1>f. ASSUME Typed
      PROVE  worker' \in [Workers -> [pc : {"take", "exited", "lock"} \cup Active \cup Syncing,
                             chunk : Chunks, attempt : 0..MaxRetries,
                             woff : 0..Length, req : 0..Length, read : 0..Length,
                             body : 0..Length, n : 0..Length, idx : Chunks]]
  BY <1>f DEF WorkerRecord
<1>s. ASSUME NEW e, Spend(e)
      PROVE  budget' \in 0..Budget
  BY <1>s, LayoutFacts DEF Spend, TypeOK
<1>n. worker' = worker => Typed
  BY DEF TypeOK, WorkersBounded, WorkerRecord
<1>r. ASSUME NEW pc \in {"take", "exited"}, worker' = [w \in Workers |-> Locals(pc)]
      PROVE  Typed
  BY <1>r, LocalsType DEF WorkersBounded
<1>c. FreshChunks \in [Chunks -> ChunkState] /\ NoCheckpoint \in [id : Identities, st : [Chunks -> ChunkState]]
  BY FreshTypes
<1>h. Holes \in [Offsets -> [ver : 0..MaxVersion, off : Offsets]]
  BY LayoutFacts DEF Holes, Hole, Offsets
<1>1. CASE \E w \in Workers : WorkerStep(w)
  BY <1>1, WorkerTypeStep
<1>2. CASE ResumeSession
  <2>1. disk.st \in [Chunks -> ChunkState] /\ disk.id \in Identities
    BY DEF TypeOK
  <2>2. Typed
    BY <1>2, <1>r DEF ResumeSession
  <2>3. jobs' \subseteq Chunks
    BY <1>2 DEF ResumeSession
  <2>4. QED
    BY <1>2, <2>1, <2>2, <2>3, <1>f, <1>h DEF ResumeSession, TypeOK, OpenToResume, RequestedName
<1>3. CASE OpenFresh
  <2>1. Typed
    BY <1>3, <1>r DEF OpenFresh
  <2>2. Identity \in Identities
    BY LayoutFacts, ParameterAssumption DEF TypeOK, Versions, Identity, Identities
  <2>3. QED
    BY <1>3, <2>1, <2>2, <1>c, <1>f, <1>h DEF OpenFresh, TypeOK, OpenTruncated, FreeName
<1>4. CASE InitCheckpoint
  <2>1. Typed
    BY <1>4, <1>r DEF InitCheckpoint
  <2>2. disk' \in [id : Identities, st : [Chunks -> ChunkState]] /\ budget' \in 0..Budget
    BY <1>4, SaveType DEF InitCheckpoint, TypeOK
  <2>3. QED
    BY <1>4, <2>1, <2>2, <1>f DEF InitCheckpoint, TypeOK
<1>5. CASE PersistOnPause
  <2>1. /\ disk' \in [id : Identities, st : [Chunks -> ChunkState]]
        /\ budget' \in 0..Budget /\ cpMem' \in [Chunks -> ChunkState]
    BY <1>5, SaveType DEF PersistOnPause, TypeOK
  <2>2. QED
    BY <1>5, <2>1, <1>n, <1>f DEF PersistOnPause, TypeOK
<1>6. CASE ReturnMultipart
  BY <1>6, <1>n, <1>f DEF ReturnMultipart, TypeOK
<1>7. CASE CleanUp
  BY <1>7, <1>n, <1>c, <1>f DEF CleanUp, TypeOK
<1>8. CASE SingleCopy
  <2>1. file' \in [Offsets -> [ver : 0..MaxVersion, off : Offsets]]
    <3>1. \A o \in Offsets : Byte(version, o) \in [ver : 0..MaxVersion, off : Offsets]
      BY LayoutFacts DEF TypeOK, Versions, Byte
    <3>2. QED
      BY <1>8, <3>1 DEF SingleCopy, TypeOK
  <2>2. QED
    BY <1>8, <2>1, <1>n, <1>f DEF SingleCopy, TypeOK
<1>9. CASE SingleEnd
  <2>1. budget' \in 0..Budget
    BY <1>9, <1>s DEF SingleEnd, TypeOK
  <2>2. QED
    BY <1>9, <2>1, <1>n, <1>f DEF SingleEnd, TypeOK
<1>10. CASE SingleFails
  <2>1. budget' \in 0..Budget
    BY <1>10, <1>s DEF SingleFails, TypeOK
  <2>2. QED
    BY <1>10, <2>1, <1>n, <1>f DEF SingleFails, TypeOK
<1>11. CASE Pause
  BY <1>11, <1>n, <1>f, <1>s DEF Pause, TypeOK
<1>12. CASE Crash
  <2>1. Typed
    BY <1>12, <1>r DEF Crash
  <2>2. QED
    <3>1. NoIdentity \in Identities
      BY FreshTypes
    <3>2. budget' \in 0..Budget
      BY <1>12, <1>s DEF Crash
    <3>3. QED
      BY <1>12, <2>1, <3>1, <3>2, <1>c, <1>f DEF Crash, TypeOK
<1>13. CASE ServerUpdate
  <2>1. version' \in Versions /\ headers' \in HeaderSets /\ ranges' \in BOOLEAN
    BY <1>13 DEF ServerUpdate, TypeOK
  <2>2. QED
    BY <1>13, <2>1, <1>n, <1>f, <1>s DEF ServerUpdate, TypeOK
<1>14. CASE UNCHANGED vars
  BY <1>14, <1>n DEF vars, TypeOK
<1>15. QED
  BY <1>1, <1>2, <1>3, <1>4, <1>5, <1>6, <1>7, <1>8, <1>9, <1>10, <1>11, <1>12, <1>13, <1>14
     DEF Next, StartSession, CallerStep

LEMMA TypeInit == Init => TypeOK /\ WorkersBounded
<1>1. FreshChunks \in [Chunks -> ChunkState] /\ NoCheckpoint \in [id : Identities, st : [Chunks -> ChunkState]]
  BY FreshTypes
<1>2. Holes \in [Offsets -> [ver : 0..MaxVersion, off : Offsets]]
  BY LayoutFacts DEF Holes, Hole, Offsets
<1>3. Locals("exited") \in WorkerRecord /\ AttemptBounds(Locals("exited"))
  BY LocalsType
<1>4. QED
  <2> SUFFICES ASSUME Init
               PROVE  TypeOK /\ WorkersBounded
    OBVIOUS
  <2>1. worker \in [Workers -> WorkerRecord] /\ WorkersBounded
    BY <1>3 DEF Init, WorkersBounded
  <2>2. NoIdentity \in Identities /\ 1 \in Versions /\ Budget \in 0..Budget
    BY LayoutFacts, FreshTypes DEF Versions
  <2>3. QED
    BY <1>1, <1>2, <2>1, <2>2 DEF Init, TypeOK, WorkerRecord

\* Types: every variable keeps its type, and every worker's offsets, counts
\* and lengths stay inside its chunk and the resource.
THEOREM TypeCorrect == Spec => [](TypeOK /\ WorkersBounded)
  BY TypeInit, TypeStep, PTL DEF Spec
-----------------------------------------------------------------------------
(* The inductive invariant behind the safety properties.                   *)

\* Who holds a chunk: OneWriterPerChunk, no worker outside a session, and
\* nothing completed in the queue.
Ownership ==
  /\ OneWriterPerChunk
  /\ main # "workers" => \A w \in Workers : worker[w].pc = "exited"
  /\ \A c \in jobs : ~chunks[c].completed

\* What a chunk counts is what its attempt has read beyond where it began,
\* clamped to the chunk.
Counts ==
  /\ \A c \in Chunks : /\ chunks[c].downloaded <= Size(c)
                       /\ chunks[c].completed => chunks[c].downloaded = Size(c)
  /\ \A w \in Workers : worker[w].pc \in Fetching =>
       LET c == worker[w].chunk
           d == worker[w].req + worker[w].read - Start[c]
       IN  /\ d <= Size(c) => chunks[c].downloaded = d
           /\ d > Size(c) => chunks[c].downloaded = Size(c)

\* Offset o holds its byte of the content being served, and so does every
\* offset that chunk c of st counts.
Has(o) == Holds(version, o)
HasAll(st, c) == \A o \in Start[c]..(Start[c] + st[c].downloaded - 1) : Has(o)

\* Between its write and its count, a worker has its last bytes in the file.
BytesWritten ==
  \A w \in Workers : worker[w].pc = "count" =>
    LET first == worker[w].req + worker[w].read
    IN  \A o \in Offsets : first <= o /\ o < first + worker[w].n => Has(o)

\* A session works for one version of the content, that of its checkpoint unless
\* contents are mixed, and this never runs ahead of the chunks.
Session ==
  main # "idle" => /\ cpId.ver = version \/ mixed
                   /\ result = "none"
                   /\ \A c \in Chunks : cpMem[c].downloaded <= chunks[c].downloaded

\* With AutoRename no file is ever truncated: whatever content the server has,
\* the checkpoint belongs to the file of the requested name and to the content
\* it names, unless a session wrote to another file.
Held(v, st) ==
  \A c \in Chunks, o \in Offsets :
    Start[c] <= o /\ o < Start[c] + st[c].downloaded => Holds(v, o)

Belongs ==
  /\ requested # "session" => main = "idle" /\ disk = NoCheckpoint
  /\ main # "idle" /\ disk # NoCheckpoint => disk.id.ver = version \/ mixed
  /\ disk # NoCheckpoint => Held(disk.id.ver, disk.st) /\ NotNoticed(disk.id)

\* On a server that does not flap a checkpoint is never newer than the content,
\* and was made with the headers the server still sends.
Older(id) == id.ver <= version /\ id.headers = headers

\* What is counted, in memory and on disk, is in the file, unless a session
\* continued in another one.
Backing ==
  /\ ~crossed /\ main # "idle" => NotNoticed(cpId) /\ \A c \in Chunks : HasAll(chunks, c)
  /\ CheckpointBacked
  /\ main # "idle" /\ IsResumeValid(disk) => disk.id.ver = version \/ mixed
  /\ ~Flapping => /\ disk # NoCheckpoint => Older(disk.id)
                  /\ main # "idle" => Older(cpId)
  /\ requested = "nobody" => ~renamed
  /\ AutoRename /\ ~crossed /\ ~renamed => Belongs

\* While nothing has gone wrong no chunk is forgotten.
Accounted ==
  /\ stopped => downloadErr
  /\ main = "workers" /\ ~paused /\ ~stopped =>
       /\ \A c \in Chunks : \/ chunks[c].completed \/ c \in jobs
                            \/ \E w \in Workers : worker[w].pc \in Active /\ worker[w].chunk = c
       /\ (\E w \in Workers : worker[w].pc = "exited") => jobs = {}
  /\ main = "waited" /\ ~paused /\ ~downloadErr => \A c \in Chunks : chunks[c].completed
  /\ main = "single" => /\ chunks = FreshChunks /\ counted \in 0..Length
                        /\ \A o \in Offsets : o < counted => Has(o)
  /\ ~crossed /\ main = "cleanup" => \A o \in Delivered : Has(o)
  /\ SuccessComplete

\* What a step of worker w does to the others (nothing) and to who holds what:
\* it goes on with its chunk, gives up, takes a chunk from the queue,
\* completes its chunk, or works on the checkpoint.
GoesOn(w) ==
  /\ worker[w].pc \in Active /\ worker'[w].pc \in Active
  /\ worker'[w].chunk = worker[w].chunk /\ jobs' = jobs
  /\ \A c \in Chunks : chunks'[c].completed = chunks[c].completed
  /\ UNCHANGED <<stopped, downloadErr>>

GivesUp(w) ==
  /\ worker[w].pc \in Active /\ worker'[w].pc = "exited"
  /\ downloadErr' = TRUE /\ stopped' = TRUE /\ UNCHANGED <<jobs, chunks>>

Takes(w) ==
  /\ worker[w].pc = "take"
  /\ \/ jobs = {} /\ jobs' = {} /\ worker'[w].pc = "exited"
     \/ \E c \in jobs : /\ jobs' = jobs \ {c}
                        /\ \/ CtxDone /\ worker'[w].pc = "exited"
                           \/ worker'[w].pc = "attempt" /\ worker'[w].chunk = c
  /\ UNCHANGED <<chunks, stopped, downloadErr>>

Completes(w) ==
  /\ worker[w].pc = "ended" /\ worker'[w].pc = "lock"
  /\ worker[w].read = End[worker[w].chunk] - worker[w].req + 1
  /\ chunks' = [chunks EXCEPT ![worker[w].chunk] =
                  [downloaded |-> Size(worker[w].chunk), completed |-> TRUE]]
  /\ UNCHANGED <<jobs, stopped, downloadErr>>

Persists(w) ==
  /\ worker[w].pc \in {"lock"} \cup Syncing /\ worker'[w].pc \in {"take"} \cup Syncing
  /\ UNCHANGED <<jobs, chunks, stopped, downloadErr>>

LEMMA FailWorkerEffect ==
  ASSUME TypeOK, NEW w \in Workers, FailWorker(w), worker[w].pc \in Active, UNCHANGED <<jobs, chunks>>
  PROVE  GivesUp(w) /\ \A v \in Workers \ {w} : worker'[v] = worker[v]
BY DEF FailWorker, GivesUp, Locals, Attempt, TypeOK

LEMMA RetryOrFailEffect ==
  ASSUME TypeOK, NEW w \in Workers, RetryOrFail(w), worker[w].pc \in Active, UNCHANGED <<jobs, chunks>>
  PROVE  /\ \/ GoesOn(w) /\ worker'[w].pc = "attempt"
            \/ GivesUp(w)
         /\ \A v \in Workers \ {w} : worker'[v] = worker[v]
<1>1. CASE MayRetry(w)
  BY <1>1 DEF RetryOrFail, GoesOn, Attempt, TypeOK, Active
<1>2. CASE ~MayRetry(w)
  BY <1>2, FailWorkerEffect DEF RetryOrFail
<1>3. QED
  BY <1>1, <1>2

LEMMA WorkerEffect ==
  ASSUME TypeOK, NEW w \in Workers, WorkerStep(w)
  PROVE  /\ GoesOn(w) \/ GivesUp(w) \/ Takes(w) \/ Completes(w) \/ Persists(w)
         /\ \A v \in Workers \ {w} : worker'[v] = worker[v]
         /\ UNCHANGED <<main, result, paused, cpId, server, names>>
<1> USE DEF session, memory, ckpt, server, names
<1>0. UNCHANGED <<main, result, paused, cpId, server, names>>
  BY DEF WorkerStep, TakeJob, BeginAttempt, PartialContent, FullContent, FatalStatus, RequestFails,
         ReadBody, WriteBody, WriteFails, CountBytes, EndBody, ReadCancelled, FinishAttempt,
         LockCheckpoint, SyncDownloaded, SyncCompleted, SaveCheckpoint
<1> DEFINE Effect == /\ GoesOn(w) \/ GivesUp(w) \/ Takes(w) \/ Completes(w) \/ Persists(w)
                     /\ \A v \in Workers \ {w} : worker'[v] = worker[v]
<1>1. CASE TakeJob(w)
  BY <1>1 DEF TakeJob, Takes, JobsAfter, Locals, Attempt, TypeOK
<1>2. CASE BeginAttempt(w)
  <2>1. CASE worker' = [worker EXCEPT ![w].pc = "request", ![w].woff = WriterOffset(worker[w].chunk),
                                      ![w].req = RequestStart(worker[w].chunk)]
             /\ UNCHANGED <<downloadErr, stopped>>
    BY <1>2, <2>1 DEF BeginAttempt, GoesOn, TypeOK, Active
  <2>2. CASE FailWorker(w) \/ RetryOrFail(w)
    BY <1>2, <2>2, FailWorkerEffect, RetryOrFailEffect DEF BeginAttempt, Active
  <2>3. QED
    BY <1>2, <2>1, <2>2 DEF BeginAttempt
<1>3. CASE PartialContent(w)
  BY <1>3 DEF PartialContent, GoesOn, TypeOK, Active
<1>4. CASE FullContent(w)
  <2>1. CASE worker[w].req > 0
    BY <1>4, <2>1, FailWorkerEffect DEF FullContent, Active
  <2>2. CASE ~(worker[w].req > 0)
    BY <1>4, <2>2 DEF FullContent, GoesOn, TypeOK, Active
  <2>3. QED
    BY <2>1, <2>2
<1>5. CASE FatalStatus(w)
  BY <1>5, FailWorkerEffect DEF FatalStatus, Active
<1>6. CASE RequestFails(w)
  BY <1>6, RetryOrFailEffect DEF RequestFails, Active
<1>7. CASE ReadBody(w)
  BY <1>7 DEF ReadBody, GoesOn, TypeOK, Active
<1>8. CASE WriteBody(w)
  BY <1>8 DEF WriteBody, GoesOn, TypeOK, Active
<1>9. CASE WriteFails(w)
  BY <1>9, RetryOrFailEffect DEF WriteFails, Active
<1>10. CASE CountBytes(w)
  BY <1>10 DEF CountBytes, GoesOn, TypeOK, Active
<1>11. CASE EndBody(w)
  BY <1>11 DEF EndBody, GoesOn, TypeOK, Active
<1>12. CASE ReadCancelled(w)
  BY <1>12, RetryOrFailEffect DEF ReadCancelled, Active
<1>13. CASE FinishAttempt(w)
  <2>1. CASE worker[w].read = End[worker[w].chunk] - worker[w].req + 1
    BY <1>13, <2>1 DEF FinishAttempt, Completes, Locals, Attempt, TypeOK
  <2>2. CASE worker[w].read # End[worker[w].chunk] - worker[w].req + 1
    BY <1>13, <2>2, RetryOrFailEffect DEF FinishAttempt, Active
  <2>3. QED
    BY <2>1, <2>2
<1>14. CASE LockCheckpoint(w)
  BY <1>14 DEF LockCheckpoint, Persists, Syncing, TypeOK
<1>15. CASE SyncDownloaded(w)
  BY <1>15 DEF SyncDownloaded, Persists, Syncing, TypeOK
<1>16. CASE SyncCompleted(w)
  BY <1>16 DEF SyncCompleted, Persists, Syncing, Locals, Attempt, TypeOK
<1>17. CASE SaveCheckpoint(w)
  BY <1>17 DEF SaveCheckpoint, Persists, Syncing, Locals, Attempt, TypeOK
<1>18. Effect
  BY <1>1, <1>2, <1>3, <1>4, <1>5, <1>6, <1>7, <1>8, <1>9, <1>10, <1>11, <1>12, <1>13,
     <1>14, <1>15, <1>16, <1>17 DEF WorkerStep
<1>19. QED
  BY <1>0, <1>18

\* The steps that replace all workers: none of them holds a chunk.
LEMMA Restarted ==
  ASSUME NEW pc \in {"take", "exited"}, worker' = [w \in Workers |-> Locals(pc)]
  PROVE  OneWriterPerChunk' /\ \A w \in Workers : worker'[w].pc = pc
BY DEF OneWriterPerChunk, Locals, Attempt, Active

\* Workers run only inside a session.
LEMMA WorkerStepMain ==
  ASSUME TypeOK, Ownership, NEW w \in Workers, WorkerStep(w)
  PROVE  main = "workers" /\ main' = "workers" /\ worker[w].pc # "exited"
<1>1. worker[w].pc # "exited"
  BY WorkerEffect DEF GoesOn, GivesUp, Takes, Completes, Persists, Active, Syncing
<1>2. QED
  BY <1>1, WorkerEffect DEF Ownership

LEMMA OwnershipWorker ==
  ASSUME TypeOK, Ownership, NEW w \in Workers, WorkerStep(w)
  PROVE  Ownership'
<1>1. /\ main' = "workers"
      /\ \A v \in Workers : v # w => worker'[v] = worker[v]
  BY WorkerStepMain, WorkerEffect
<1>2. worker[w].chunk \in Chunks /\ chunks \in [Chunks -> ChunkState] /\ jobs \subseteq Chunks
  BY DEF TypeOK
<1>3. CASE GoesOn(w)
  <2>1. \A c \in Chunks : chunks'[c].completed = chunks[c].completed
    BY <1>3 DEF GoesOn
  <2>2. \A v \in Workers : worker'[v].pc \in Active =>
          worker[v].pc \in Active /\ worker'[v].chunk = worker[v].chunk /\ worker[v].chunk \in Chunks
    BY <1>1, <1>3 DEF GoesOn, TypeOK
  <2>3. QED
    BY <1>1, <1>2, <1>3, <2>1, <2>2 DEF GoesOn, Ownership, OneWriterPerChunk
<1>4. CASE GivesUp(w) \/ Persists(w)
  <2>1. worker'[w].pc \notin Active /\ jobs' = jobs /\ chunks' = chunks
    BY <1>4 DEF GivesUp, Persists, Active, Syncing
  <2>2. QED
    BY <1>1, <2>1 DEF Ownership, OneWriterPerChunk
<1>5. CASE Takes(w)
  <2>1. CASE worker'[w].pc = "exited"
    <3>1. jobs' \subseteq jobs /\ chunks' = chunks
      BY <1>5 DEF Takes
    <3>2. QED
      BY <1>1, <2>1, <3>1 DEF Ownership, OneWriterPerChunk, Active
  <2>2. CASE worker'[w].pc = "attempt"
    <3>1. PICK c \in jobs : jobs' = jobs \ {c} /\ worker'[w].chunk = c
      BY <1>5, <2>2 DEF Takes
    <3>2. chunks' = chunks /\ ~chunks[c].completed
      BY <1>5 DEF Takes, Ownership
    <3>3. \A v \in Workers : v # w /\ worker[v].pc \in Active => worker[v].chunk # c
      BY DEF Ownership, OneWriterPerChunk
    <3>4. QED
      BY <1>1, <3>1, <3>2, <3>3 DEF Ownership, OneWriterPerChunk
  <2>3. QED
    BY <1>5, <2>1, <2>2 DEF Takes
<1>6. CASE Completes(w)
  <2>1. worker'[w].pc \notin Active /\ jobs' = jobs /\ worker[w].pc \in Active
    BY <1>6 DEF Completes, Active
  <2>2. \A c \in Chunks : c # worker[w].chunk => chunks'[c] = chunks[c]
    BY <1>2, <1>6 DEF Completes
  <2>3. worker[w].chunk \notin jobs
    BY <2>1 DEF Ownership, OneWriterPerChunk
  <2>4. \A v \in Workers : v # w /\ worker[v].pc \in Active => worker[v].chunk # worker[w].chunk
                                                               /\ worker[v].chunk \in Chunks
    BY <2>1 DEF Ownership, OneWriterPerChunk, TypeOK
  <2>5. QED
    BY <1>1, <1>2, <2>1, <2>2, <2>3, <2>4 DEF Ownership, OneWriterPerChunk
<1>7. QED
  BY <1>3, <1>4, <1>5, <1>6, WorkerEffect

LEMMA OwnershipStep ==
  ASSUME TypeOK, Ownership, [Next]_vars
  PROVE  Ownership'
<1> USE DEF session, memory, ckpt, server, names
<1>1. CASE \E w \in Workers : WorkerStep(w)
  BY <1>1, OwnershipWorker
<1>2. CASE ResumeSession
  BY <1>2, Restarted DEF ResumeSession, Ownership
<1>3. CASE OpenFresh
  BY <1>3, Restarted DEF OpenFresh, Ownership
<1>4. CASE InitCheckpoint
  BY <1>4, Restarted DEF InitCheckpoint, Ownership
<1>5. CASE PersistOnPause
  BY <1>5 DEF PersistOnPause, Ownership, OneWriterPerChunk, Active
<1>6. CASE \/ ReturnMultipart \/ CleanUp \/ SingleCopy \/ SingleEnd \/ SingleFails
           \/ Pause \/ ServerUpdate \/ UNCHANGED vars
  <2>1. /\ UNCHANGED <<chunks, jobs, worker>>
        /\ main # "workers"
           \/ main' = "workers"
    BY <1>6 DEF ReturnMultipart, CleanUp, SingleCopy, SingleEnd, SingleFails, Pause, ServerUpdate, vars
  <2>2. QED
    BY <2>1 DEF Ownership, OneWriterPerChunk
<1>7. CASE Crash
  BY <1>7, Restarted DEF Crash, Ownership
<1>8. QED
  BY <1>1, <1>2, <1>3, <1>4, <1>5, <1>6, <1>7 DEF Next, StartSession, CallerStep

\* What a step of worker w does to the position of its attempt and to its
\* chunk's counts.
SameAttempt(w) ==
  /\ worker[w].pc \in Fetching /\ worker'[w].chunk = worker[w].chunk
  /\ worker'[w].req = worker[w].req /\ worker'[w].read = worker[w].read
  /\ UNCHANGED chunks
  /\ worker'[w].pc = "count" => WriteBody(w)

NewAttempt(w) ==
  /\ worker'[w].chunk = worker[w].chunk /\ worker'[w].read = 0
  /\ worker'[w].req = Start[worker[w].chunk] + chunks[worker[w].chunk].downloaded
  /\ worker'[w].pc = "request"
  /\ UNCHANGED chunks

NoAttempt(w) == worker'[w].pc \notin Fetching /\ UNCHANGED chunks

Counted(w) ==
  LET c == worker[w].chunk
      d == worker[w].read + worker[w].n + worker[w].req - Start[c]
  IN /\ worker[w].pc = "count"
     /\ chunks' = [chunks EXCEPT ![c] = [chunks[c] EXCEPT !.downloaded = IF d > Size(c) THEN Size(c) ELSE d]]
     /\ worker'[w].chunk = c /\ worker'[w].req = worker[w].req
     /\ worker'[w].read = worker[w].read + worker[w].n
     /\ worker'[w].pc # "count"

LEMMA RetryOrFailNoAttempt ==
  ASSUME TypeOK, NEW w \in Workers, RetryOrFail(w)
  PROVE  worker'[w].pc \notin Fetching
<1>1. CASE MayRetry(w)
  BY <1>1 DEF RetryOrFail, Attempt, TypeOK, Fetching
<1>2. CASE ~MayRetry(w)
  BY <1>2 DEF RetryOrFail, FailWorker, Locals, Attempt, TypeOK, Fetching
<1>3. QED
  BY <1>1, <1>2

LEMMA AttemptEffect ==
  ASSUME TypeOK, WorkersBounded, NEW w \in Workers, WorkerStep(w)
  PROVE  SameAttempt(w) \/ NewAttempt(w) \/ NoAttempt(w) \/ Counted(w) \/ Completes(w)
<1> USE DEF session, memory, ckpt, server, names
<1>0. FailWorker(w) => worker'[w].pc \notin Fetching
  BY DEF FailWorker, Locals, Attempt, TypeOK, Fetching
<1>1. CASE TakeJob(w)
  BY <1>1 DEF TakeJob, NoAttempt, Locals, Attempt, TypeOK, Fetching
<1>2. CASE BeginAttempt(w)
  <2>1. CASE worker' = [worker EXCEPT ![w].pc = "request", ![w].woff = WriterOffset(worker[w].chunk),
                                      ![w].req = RequestStart(worker[w].chunk)]
    <3>1. worker[w].read = 0
      BY <1>2 DEF BeginAttempt, WorkersBounded, AttemptBounds
    <3>2. QED
      BY <1>2, <2>1, <3>1 DEF BeginAttempt, NewAttempt, TypeOK, RequestStart
  <2>2. CASE FailWorker(w) \/ RetryOrFail(w)
    BY <1>2, <2>2, <1>0, RetryOrFailNoAttempt DEF BeginAttempt, NoAttempt
  <2>3. QED
    BY <1>2, <2>1, <2>2 DEF BeginAttempt
<1>3. CASE PartialContent(w)
  BY <1>3 DEF PartialContent, SameAttempt, TypeOK, Fetching
<1>4. CASE FullContent(w)
  <2>1. CASE worker[w].req > 0
    BY <1>4, <2>1, <1>0 DEF FullContent, NoAttempt
  <2>2. CASE ~(worker[w].req > 0)
    BY <1>4, <2>2 DEF FullContent, SameAttempt, TypeOK, Fetching
  <2>3. QED
    BY <2>1, <2>2
<1>5. CASE FatalStatus(w)
  BY <1>5, <1>0 DEF FatalStatus, NoAttempt
<1>6. CASE RequestFails(w)
  BY <1>6, RetryOrFailNoAttempt DEF RequestFails, NoAttempt
<1>7. CASE ReadBody(w)
  BY <1>7 DEF ReadBody, SameAttempt, TypeOK, Fetching
<1>8. CASE WriteBody(w)
  BY <1>8 DEF WriteBody, SameAttempt, TypeOK, Fetching
<1>9. CASE WriteFails(w)
  BY <1>9, RetryOrFailNoAttempt DEF WriteFails, NoAttempt
<1>10. CASE CountBytes(w)
  BY <1>10 DEF CountBytes, Counted, TypeOK, Downloaded
<1>11. CASE EndBody(w)
  BY <1>11 DEF EndBody, SameAttempt, TypeOK, Fetching
<1>12. CASE ReadCancelled(w)
  BY <1>12, RetryOrFailNoAttempt DEF ReadCancelled, NoAttempt
<1>13. CASE FinishAttempt(w)
  <2>1. CASE worker[w].read = End[worker[w].chunk] - worker[w].req + 1
    BY <1>13, <2>1 DEF FinishAttempt, Completes, Locals, Attempt, TypeOK
  <2>2. CASE worker[w].read # End[worker[w].chunk] - worker[w].req + 1
    BY <1>13, <2>2, RetryOrFailNoAttempt DEF FinishAttempt, NoAttempt
  <2>3. QED
    BY <2>1, <2>2
<1>14. CASE LockCheckpoint(w)
  BY <1>14 DEF LockCheckpoint, NoAttempt, Fetching, TypeOK
<1>15. CASE SyncDownloaded(w)
  BY <1>15 DEF SyncDownloaded, NoAttempt, Fetching, TypeOK
<1>16. CASE SyncCompleted(w)
  BY <1>16 DEF SyncCompleted, NoAttempt, Fetching, Locals, Attempt, TypeOK
<1>17. CASE SaveCheckpoint(w)
  BY <1>17 DEF SaveCheckpoint, NoAttempt, Fetching, Locals, Attempt, TypeOK
<1>18. QED
  BY <1>1, <1>2, <1>3, <1>4, <1>5, <1>6, <1>7, <1>8, <1>9, <1>10, <1>11, <1>12, <1>13,
     <1>14, <1>15, <1>16, <1>17 DEF WorkerStep

\* A chunk never counts less, nor more than it has, and an attempt and its
\* chunk agree.
LEMMA CountsWorker ==
  ASSUME TypeOK, WorkersBounded, Ownership, Counts, NEW w \in Workers, WorkerStep(w)
  PROVE  /\ Counts'
         /\ \A c \in Chunks : /\ chunks'[c].downloaded >= chunks[c].downloaded
                              /\ chunks[c].completed => chunks'[c].completed
<1> DEFINE c == worker[w].chunk
<1>1. \A v \in Workers : v # w => worker'[v] = worker[v]
  BY WorkerEffect
<1>2. /\ c \in Chunks /\ chunks \in [Chunks -> ChunkState] /\ worker[w] \in WorkerRecord
      /\ AttemptBounds(worker[w])
  BY DEF TypeOK, WorkerRecord, WorkersBounded
<1>3. \A e \in Chunks : chunks[e].downloaded \in Int /\ Size(e) \in Int /\ Start[e] \in Int
                        /\ Size(e) = End[e] - Start[e] + 1 /\ End[e] \in Int
  BY <1>2, LayoutFacts DEF ChunkState, Size
<1>4. \A v \in Workers : worker[v].chunk \in Chunks
  BY DEF TypeOK
<1>5. \A v \in Workers : worker[v].pc \in Fetching =>
        LET e == worker[v].chunk
            d == worker[v].req + worker[v].read - Start[e]
        IN  /\ d <= Size(e) => chunks[e].downloaded = d
            /\ d > Size(e) => chunks[e].downloaded = Size(e)
  BY DEF Counts
<1>6. CASE SameAttempt(w) \/ NoAttempt(w)
  BY <1>1, <1>3, <1>4, <1>6 DEF SameAttempt, NoAttempt, Counts
<1>7. CASE NewAttempt(w)
  <2>1. worker'[w].req + worker'[w].read - Start[c] = chunks[c].downloaded /\ chunks[c].downloaded <= Size(c)
    BY <1>2, <1>3, <1>7 DEF NewAttempt, Counts
  <2>2. QED
    BY SMTT(20), <1>1, <1>2, <1>3, <1>4, <1>7, <2>1 DEF NewAttempt, Counts
<1>8. CASE Counted(w) \/ Completes(w)
  <2>1. worker[w].pc \in Fetching /\ worker[w].pc \in Active
    BY <1>8 DEF Counted, Completes, Fetching, Active
  <2>2. \A v \in Workers : v # w /\ worker[v].pc \in Fetching => worker[v].chunk # c
    BY <2>1 DEF Ownership, OneWriterPerChunk, Active, Fetching
  <2>3. ~chunks[c].completed
    BY <2>1 DEF Ownership, OneWriterPerChunk
  <2>4. /\ worker[w].req \in Int /\ worker[w].read \in Int /\ worker[w].n \in Int
        /\ 0 <= worker[w].read /\ 0 <= worker[w].n
    BY <1>2, <2>1, AttemptFacts
  <2>5. \A e \in Chunks : e # c => chunks'[e] = chunks[e]
    BY <1>2, <1>8 DEF Counted, Completes
  <2>6. /\ chunks'[c].downloaded >= chunks[c].downloaded /\ chunks'[c].downloaded <= Size(c)
        /\ chunks'[c].completed => chunks'[c].downloaded = Size(c)
        /\ worker'[w].pc \in Fetching =>
             LET d == worker'[w].req + worker'[w].read - Start[c]
             IN  /\ worker'[w].chunk = c
                 /\ d <= Size(c) => chunks'[c].downloaded = d
                 /\ d > Size(c) => chunks'[c].downloaded = Size(c)
    <3>1. chunks[c].downloaded \in Int /\ chunks[c].downloaded <= Size(c) /\ Size(c) \in Int /\ Start[c] \in Int
      BY <1>2, <1>3 DEF Counts
    <3>2. CASE Counted(w)
      <4>1. PICK d : /\ d = worker[w].read + worker[w].n + worker[w].req - Start[c]
                     /\ chunks'[c].downloaded = IF d > Size(c) THEN Size(c) ELSE d
                     /\ chunks'[c].completed = chunks[c].completed
                     /\ worker'[w].chunk = c
                     /\ worker'[w].req = worker[w].req
                     /\ worker'[w].read = worker[w].read + worker[w].n
        BY <1>2, <3>2 DEF Counted, ChunkState
      <4>2. LET x == worker[w].req + worker[w].read - Start[c]
            IN  /\ x <= Size(c) => chunks[c].downloaded = x
                /\ x > Size(c) => chunks[c].downloaded = Size(c)
        BY <1>5, <2>1
      <4>3. d \in Int /\ d = worker'[w].req + worker'[w].read - Start[c]
        BY <2>4, <3>1, <4>1
      <4> HIDE DEF c
      <4>4. chunks'[c].downloaded >= chunks[c].downloaded /\ chunks'[c].downloaded <= Size(c)
        BY <2>4, <3>1, <4>1, <4>2, <4>3
      <4>5. QED
        BY <2>3, <3>1, <4>1, <4>3, <4>4
    <3>3. CASE Completes(w)
      <4>1. chunks'[c].downloaded = Size(c) /\ worker'[w].pc \notin Fetching
        BY <1>2, <3>3 DEF Completes, Fetching
      <4>2. QED
        BY <3>1, <4>1
    <3>4. QED
      BY <1>8, <3>2, <3>3
  <2>8. Counts'
    BY SMTT(20), <1>1, <1>2, <1>3, <1>4, <2>2, <2>5, <2>6 DEF Counts
  <2>9. QED
    BY <1>3, <2>3, <2>5, <2>6, <2>8
<1>9. QED
  BY <1>6, <1>7, <1>8, AttemptEffect

\* A write puts bytes of the current content at their own offsets, and all of
\* the last Read if it is not cut short.
LEMMA WrittenBytes ==
  ASSUME TypeOK, WorkersBounded, NEW w \in Workers, worker[w].pc = "write",
         NEW n \in 0..worker[w].n, NEW o \in Offsets
  PROVE  /\ Written(w, n)[o] \in {file[o], Byte(version, o)}
         /\ worker[w].req + worker[w].read <= o /\ o < worker[w].req + worker[w].read + n =>
              Written(w, n)[o] = Byte(version, o)
<1> DEFINE s == worker[w]
<1>1. s \in WorkerRecord /\ AttemptBounds(s) /\ s.pc = "write"
  BY DEF TypeOK, WorkerRecord, WorkersBounded
<1>2. Written(w, n)[o] = IF o \in s.woff..(s.woff + n - 1)
                         THEN Byte(version, s.req + s.read + (o - s.woff))
                         ELSE file[o]
  BY DEF Written
<1>3. n \in Int /\ o \in Int
  <2>1. s.n \in Int
    BY <1>1 DEF WorkerRecord
  <2>2. QED
    BY <2>1, LayoutFacts
<1> HIDE DEF s
<1>4. s.woff \in Int /\ s.req \in Int /\ s.read \in Int /\ s.woff = s.req + s.read
  BY <1>1, AttemptFacts DEF Fetching
<1>5. s.req + s.read + (o - s.woff) = o
  BY <1>3, <1>4
<1>6. Written(w, n)[o] = IF o \in s.woff..(s.woff + n - 1) THEN Byte(version, o) ELSE file[o]
  BY <1>2, <1>5
<1>7. s.req + s.read <= o /\ o < s.req + s.read + n => o \in s.woff..(s.woff + n - 1)
  BY <1>3, <1>4
<1>8. QED
  BY <1>6, <1>7 DEF s

LEMMA WorkerWrites ==
  ASSUME TypeOK, WorkersBounded, NEW w \in Workers, WorkerStep(w), NEW o \in Offsets
  PROVE  file'[o] \in {file[o], Byte(version, o)}
<1> USE DEF session, memory, ckpt, server, names
<1>1. CASE WriteBody(w)
  <2>1. worker[w].n \in 0..worker[w].n
    BY <1>1 DEF WriteBody, TypeOK
  <2>2. QED
    BY <1>1, <2>1, WrittenBytes DEF WriteBody
<1>2. CASE WriteFails(w)
  <2>1. worker[w].n \in Int
    BY DEF TypeOK
  <2>2. \A n \in 0..(worker[w].n - 1) : n \in 0..worker[w].n
    BY <2>1
  <2>3. QED
    BY <1>2, <2>2, WrittenBytes DEF WriteFails
<1>3. CASE ~WriteBody(w) /\ ~WriteFails(w)
  <2>1. file' = file
    BY <1>3 DEF WorkerStep, TakeJob, BeginAttempt, PartialContent, FullContent, FatalStatus, RequestFails,
         ReadBody, CountBytes, EndBody, ReadCancelled, FinishAttempt,
         LockCheckpoint, SyncDownloaded, SyncCompleted, SaveCheckpoint
  <2>2. QED
    BY <2>1
<1>4. QED
  BY <1>1, <1>2, <1>3

\* Only the start of a session may cross files, and none undoes that.
LEMMA CrossedKept ==
  ASSUME [Next]_vars
  PROVE  /\ crossed => crossed'
         /\ ~crossed' /\ ResumeSession => ~renamed
         /\ ~StartSession => UNCHANGED names
<1> USE DEF session, memory, ckpt, server, names
<1>1. CASE StartSession
  <2>1. ASSUME ResumeSession PROVE (crossed => crossed') /\ (renamed => crossed')
    BY <2>1 DEF ResumeSession, RequestedName
  <2>2. ASSUME OpenFresh PROVE crossed' = crossed /\ ~ResumeSession
    BY <2>2 DEF OpenFresh, FreeName, ResumeSession
  <2>3. QED
    BY <1>1, <2>1, <2>2 DEF StartSession
<1>2. CASE ~StartSession
  <2>1. UNCHANGED names
    BY <1>2 DEF Next, CallerStep, WorkerStep, TakeJob, BeginAttempt, PartialContent, FullContent,
         FatalStatus, RequestFails, ReadBody, WriteBody, WriteFails, CountBytes, EndBody, ReadCancelled,
         FinishAttempt, LockCheckpoint, SyncDownloaded, SyncCompleted, SaveCheckpoint, InitCheckpoint,
         PersistOnPause, ReturnMultipart, CleanUp, SingleCopy, SingleEnd, SingleFails, Pause, Crash,
         ServerUpdate, vars
  <2>2. QED
    BY <1>2, <2>1 DEF StartSession
<1>3. QED
  BY <1>1, <1>2

\* What is in the file stays in it: only a new download truncates, the content
\* is replaced only between sessions, and so is the file.
LEMMA HasKept ==
  ASSUME TypeOK, WorkersBounded, [Next]_vars, ~OpenFresh, ~ServerUpdate, ResumeSession => ~renamed
  PROVE  UNCHANGED <<version, headers, ranges>> /\ \A o \in Offsets : Has(o) => Has(o)'
<1> USE DEF session, memory, ckpt, server, names
<1>1. CASE \E w \in Workers : WorkerStep(w)
  <2>1. PICK w \in Workers : WorkerStep(w)
    BY <1>1
  <2>2. UNCHANGED <<version, ranges, headers, mixed>> /\ version # 0
    BY <2>1, WorkerEffect DEF TypeOK, Versions
  <2>3. \A o \in Offsets : file'[o] \in {file[o], Byte(version, o)}
    BY <2>1, WorkerWrites
  <2>4. QED
    BY <2>2, <2>3 DEF Has, Holds, Byte
<1>2. CASE SingleCopy
  <2>1. UNCHANGED <<version, ranges, headers, mixed>> /\ version # 0
    BY <1>2 DEF SingleCopy, TypeOK, Versions
  <2>2. \A o \in Offsets : file'[o] \in {file[o], Byte(version, o)}
    BY <1>2 DEF SingleCopy
  <2>3. QED
    BY <2>1, <2>2 DEF Has, Holds, Byte
<1>3. CASE ResumeSession
  BY <1>3 DEF ResumeSession, RequestedName, OpenToResume, Has, Holds
<1>4. CASE \/ InitCheckpoint \/ PersistOnPause \/ ReturnMultipart \/ CleanUp
           \/ SingleEnd \/ SingleFails \/ Pause \/ Crash \/ UNCHANGED vars
  <2>1. UNCHANGED <<version, headers, ranges, mixed, file>>
    BY <1>4 DEF InitCheckpoint, PersistOnPause, ReturnMultipart, CleanUp, SingleEnd, SingleFails,
                Pause, Crash, vars
  <2>2. QED
    BY <2>1 DEF Has, Holds
<1>5. QED
  BY <1>1, <1>2, <1>3, <1>4 DEF Next, StartSession, CallerStep

LEMMA BytesWrittenStep ==
  ASSUME TypeOK, WorkersBounded, Ownership, BytesWritten, [Next]_vars
  PROVE  BytesWritten'
<1> USE DEF session, memory, ckpt, server, names
<1>1. ASSUME NEW w \in Workers, WorkerStep(w)
      PROVE  BytesWritten'
  <2>1. ~OpenFresh /\ ~ServerUpdate /\ ~ResumeSession
    BY <1>1, WorkerStepMain DEF OpenFresh, ServerUpdate, ResumeSession
  <2>2. \A o \in Offsets : Has(o) => Has(o)'
    BY <1>1, <2>1, HasKept DEF Next
  <2>3. \A v \in Workers : v # w => worker'[v] = worker[v]
    BY <1>1, WorkerEffect
  <2>4. CASE worker'[w].pc # "count"
    BY <2>2, <2>3, <2>4 DEF BytesWritten
  <2>5. CASE worker'[w].pc = "count"
    <3>1. WriteBody(w)
      BY <1>1, <2>5, AttemptEffect DEF SameAttempt, NewAttempt, NoAttempt, Counted, Completes, Fetching
    <3>2. worker[w].pc = "write" /\ worker[w].n \in 0..worker[w].n
      BY <3>1 DEF WriteBody, TypeOK
    <3>3. /\ worker'[w].req = worker[w].req /\ worker'[w].read = worker[w].read
          /\ worker'[w].n = worker[w].n /\ version' = version /\ file' = Written(w, worker[w].n)
      BY <3>1 DEF WriteBody, TypeOK
    <3>4. \A o \in Offsets :
            worker[w].req + worker[w].read <= o /\ o < worker[w].req + worker[w].read + worker[w].n
            => Has(o)'
      <4>1. version # 0 /\ \A o \in Offsets : Byte(version, o).off = o /\ Byte(version, o).ver = version
        BY DEF TypeOK, Versions, Byte
      <4>2. QED
        BY <3>2, <3>3, <4>1, WrittenBytes DEF Has, Holds
    <3>5. QED
      BY <2>2, <2>3, <3>3, <3>4 DEF BytesWritten
  <2>6. QED
    BY <2>4, <2>5
<1>2. CASE \A w \in Workers : worker'[w].pc # "count"
  BY <1>2 DEF BytesWritten
<1>3. CASE worker' = worker /\ ~OpenFresh /\ ~ServerUpdate /\ ~ResumeSession
  BY <1>3, HasKept DEF BytesWritten
<1>4. CASE ResumeSession \/ OpenFresh \/ InitCheckpoint \/ Crash
  BY <1>2, <1>4 DEF ResumeSession, OpenFresh, InitCheckpoint, Crash, Locals, Attempt
<1>5. CASE ServerUpdate
  BY <1>2, <1>5 DEF ServerUpdate, Ownership
<1>6. CASE \/ PersistOnPause \/ ReturnMultipart \/ CleanUp \/ SingleCopy
           \/ SingleEnd \/ SingleFails \/ Pause
  <2>1. worker' = worker /\ main # "idle"
    BY <1>6 DEF PersistOnPause, ReturnMultipart, CleanUp, SingleCopy, SingleEnd, SingleFails, Pause
  <2>2. QED
    BY <1>3, <2>1 DEF OpenFresh, ServerUpdate, ResumeSession
<1>7. CASE UNCHANGED vars
  BY <1>7 DEF vars, BytesWritten, Has, Holds
<1>8. QED
  BY <1>1, <1>4, <1>5, <1>6, <1>7 DEF Next, StartSession, CallerStep

LEMMA CountsStep ==
  ASSUME TypeOK, WorkersBounded, Ownership, Counts, [Next]_vars
  PROVE  Counts'
<1> USE DEF session, memory, ckpt, server, names
<1>0. \A c \in Chunks : Size(c) \in Int /\ 0 <= Size(c)
  BY LayoutFacts
<1>1. CASE \E w \in Workers : WorkerStep(w)
  BY <1>1, CountsWorker
<1>2. ASSUME NEW pc \in {"take", "exited"}, worker' = [w \in Workers |-> Locals(pc)],
             NEW st \in [Chunks -> ChunkState], chunks' = st,
             \A c \in Chunks : /\ st[c].downloaded <= Size(c)
                               /\ st[c].completed => st[c].downloaded = Size(c)
      PROVE  Counts'
  <2>1. \A w \in Workers : worker'[w].pc \notin Fetching
    BY <1>2, Restarted DEF Fetching
  <2>2. QED
    BY <1>2, <2>1 DEF Counts
<1>3. FreshChunks \in [Chunks -> ChunkState] /\ \A c \in Chunks : /\ FreshChunks[c].downloaded <= Size(c)
                                                                  /\ ~FreshChunks[c].completed
  BY <1>0, LayoutFacts DEF FreshChunks, ChunkState
<1>4. CASE ResumeSession
  BY <1>2, <1>4 DEF ResumeSession, IsResumeValid, TypeOK
<1>5. CASE OpenFresh \/ Crash
  BY <1>2, <1>3, <1>5 DEF OpenFresh, Crash
<1>6. CASE InitCheckpoint
  <2>1. /\ chunks' = chunks /\ chunks \in [Chunks -> ChunkState]
        /\ worker' = [w \in Workers |-> Locals("take")]
    BY <1>6 DEF InitCheckpoint, TypeOK
  <2>2. QED
    BY <1>2, <2>1 DEF Counts
<1>7. CASE \/ PersistOnPause \/ ReturnMultipart \/ CleanUp \/ SingleCopy
           \/ SingleEnd \/ SingleFails \/ Pause \/ ServerUpdate \/ UNCHANGED vars
  <2>1. UNCHANGED <<chunks, worker>>
    BY <1>7 DEF PersistOnPause, ReturnMultipart, CleanUp, SingleCopy, SingleEnd, SingleFails, Pause,
                ServerUpdate, vars
  <2>2. QED
    BY <2>1 DEF Counts
<1>8. QED
  BY <1>1, <1>4, <1>5, <1>6, <1>7 DEF Next, StartSession, CallerStep

\* What a worker does to the checkpoint: SyncFromChunks copies a count, Save
\* writes what is in memory.
LEMMA WorkerCheckpoint ==
  ASSUME TypeOK, NEW w \in Workers, WorkerStep(w)
  PROVE  /\ \A c \in Chunks : cpMem'[c].downloaded \in {cpMem[c].downloaded, chunks[c].downloaded}
         /\ disk' = disk \/ disk' = [id |-> cpId, st |-> cpMem]
<1> USE DEF session, memory, ckpt, server, names
<1>1. CASE SyncDownloaded(w)
  BY <1>1 DEF SyncDownloaded, TypeOK, ChunkState
<1>2. CASE SyncCompleted(w)
  BY <1>2 DEF SyncCompleted, TypeOK, ChunkState
<1>3. CASE SaveCheckpoint(w)
  BY <1>3 DEF SaveCheckpoint, Save
<1>4. CASE ~SyncDownloaded(w) /\ ~SyncCompleted(w) /\ ~SaveCheckpoint(w)
  <2>1. UNCHANGED <<cpMem, disk>>
    BY <1>4 DEF WorkerStep, TakeJob, BeginAttempt, PartialContent, FullContent, FatalStatus, RequestFails,
         ReadBody, WriteBody, WriteFails, CountBytes, EndBody, ReadCancelled, FinishAttempt, LockCheckpoint
  <2>2. QED
    BY <2>1
<1>5. QED
  BY <1>1, <1>2, <1>3, <1>4

LEMMA SessionStep ==
  ASSUME TypeOK, WorkersBounded, Ownership, Counts, Session, [Next]_vars
  PROVE  Session'
<1> USE DEF session, memory, ckpt, server, names
<1>0. \A c \in Chunks : chunks[c].downloaded \in Int /\ cpMem[c].downloaded \in Int
                        /\ disk.st[c].downloaded \in Int
  BY LayoutFacts DEF TypeOK, ChunkState
<1>1. ASSUME NEW w \in Workers, WorkerStep(w)
      PROVE  Session'
  <2>1. /\ UNCHANGED <<result, cpId, version, mixed>> /\ main # "idle"
        /\ TypeOK'
    BY <1>1, WorkerStepMain, WorkerEffect, WorkerTypeStep
  <2>2. \A c \in Chunks : chunks'[c].downloaded >= chunks[c].downloaded
    BY <1>1, CountsWorker
  <2>3. \A c \in Chunks : cpMem'[c].downloaded \in {cpMem[c].downloaded, chunks[c].downloaded}
    BY <1>1, WorkerCheckpoint
  <2>4. \A c \in Chunks : chunks'[c].downloaded \in Int
    BY <2>1, LayoutFacts DEF TypeOK, ChunkState
  <2>5. QED
    BY <1>0, <2>1, <2>2, <2>3, <2>4 DEF Session
<1>2. CASE ResumeSession
  <2>1. /\ cpId' = disk.id /\ version' = version /\ result' = "none" /\ cpMem' = chunks' /\ chunks' = disk.st
        /\ disk.id.ver # version => mixed'
    BY <1>2 DEF ResumeSession, RequestedName
  <2>2. QED
    BY <1>0, <2>1 DEF Session
<1>3. CASE OpenFresh
  BY <1>3 DEF OpenFresh, Session, FreshChunks, Identity
<1>4. CASE InitCheckpoint
  BY <1>4 DEF InitCheckpoint, Session
<1>5. CASE PersistOnPause
  BY <1>0, <1>5 DEF PersistOnPause, Session
<1>6. CASE ReturnMultipart \/ CleanUp \/ SingleEnd \/ SingleFails
  BY <1>6 DEF ReturnMultipart, CleanUp, SingleEnd, SingleFails, Session
<1>7. CASE SingleCopy \/ Pause \/ UNCHANGED vars
  BY <1>7 DEF SingleCopy, Pause, Session, vars
<1>8. CASE Crash \/ ServerUpdate
  BY <1>8 DEF Crash, ServerUpdate, Session
<1>9. QED
  BY <1>1, <1>2, <1>3, <1>4, <1>5, <1>6, <1>7, <1>8 DEF Next, StartSession, CallerStep

\* A chunk ends inside the resource.
LEMMA ChunkInside ==
  \A c \in Chunks : /\ Start[c] \in Int /\ 0 <= Start[c]
                    /\ Size(c) \in Int /\ Start[c] + Size(c) <= Length
<1>1. ASSUME NEW c \in Chunks
      PROVE  /\ Start[c] \in Int /\ 0 <= Start[c]
             /\ Size(c) \in Int /\ Start[c] + Size(c) <= Length
  <2> DEFINE s == Start[c]
             e == End[c]
  <2>1. s \in Int /\ e \in Int /\ 0 <= s /\ s <= e /\ e < Length /\ Length \in Nat
    BY LayoutFacts
  <2>2. Size(c) = e - s + 1
    BY DEF Size
  <2> HIDE DEF s, e
  <2>3. /\ s \in Int /\ 0 <= s
        /\ Size(c) \in Int /\ s + Size(c) <= Length
    BY <2>1, <2>2
  <2>4. QED
    BY <2>3 DEF s
<1>2. QED
  BY <1>1

LEMMA BackedOffsets ==
  ASSUME TypeOK, Counts
  PROVE  \A c \in Chunks : \A o \in Start[c]..(Start[c] + chunks[c].downloaded - 1) : o \in Offsets
<1>1. \A c \in Chunks : chunks[c].downloaded \in Int /\ chunks[c].downloaded <= Size(c)
  BY LayoutFacts DEF TypeOK, ChunkState, Counts
<1>2. \A c \in Chunks : /\ Start[c] \in Int /\ 0 <= Start[c]
                        /\ Size(c) \in Int /\ Start[c] + Size(c) <= Length
  BY ChunkInside
<1>3. ASSUME NEW c \in Chunks, NEW o \in Start[c]..(Start[c] + chunks[c].downloaded - 1)
      PROVE  o \in Offsets
  <2> DEFINE s == Start[c]
             z == Size(c)
             d == chunks[c].downloaded
  <2>1. s \in Int /\ 0 <= s /\ z \in Int /\ s + z <= Length /\ d \in Int /\ d <= z
    BY <1>1, <1>2
  <2>2. o \in s..(s + d - 1)
    BY <1>3
  <2>3. Length \in Nat
    BY LayoutFacts
  <2> HIDE DEF s, z, d
  <2>4. o \in Int /\ 0 <= o /\ o < Length
    BY <2>1, <2>2, <2>3
  <2>5. QED
    BY <2>3, <2>4 DEF Offsets
<1>4. QED
  BY <1>3

\* The counts of every chunk after a step of a worker are in the file.
LEMMA BackedWorker ==
  ASSUME TypeOK, WorkersBounded, Ownership, Counts, BytesWritten,
         \A c \in Chunks : HasAll(chunks, c),
         NEW w \in Workers, WorkerStep(w)
  PROVE  \A c \in Chunks : HasAll(chunks, c)'
<1>1. /\ version' = version
      /\ \A o \in Offsets : Has(o) => Has(o)'
  BY WorkerStepMain, HasKept DEF Next, OpenFresh, ServerUpdate, ResumeSession
<1>2. \A c \in Chunks : \A o \in Start[c]..(Start[c] + chunks[c].downloaded - 1) : o \in Offsets
  BY BackedOffsets
<1>3. ASSUME NEW c \in Chunks, chunks'[c].downloaded = chunks[c].downloaded
      PROVE  HasAll(chunks, c)'
  BY <1>1, <1>2, <1>3 DEF HasAll
<1>4. CASE chunks' = chunks
  BY <1>3, <1>4
<1>5. CASE Completes(w)
  <2> DEFINE e == worker[w].chunk
  <2>1. /\ worker[w] \in WorkerRecord /\ AttemptBounds(worker[w]) /\ worker[w].pc \in Fetching
        /\ e \in Chunks
    BY <1>5 DEF TypeOK, WorkersBounded, WorkerRecord, Completes, Fetching
  <2>2. /\ worker[w].req \in Int /\ Start[e] \in Int /\ End[e] \in Int
    BY <2>1, AttemptFacts
  <2>3. worker[w].req + worker[w].read - Start[e] = Size(e)
    BY <1>5, <2>2 DEF Completes, Size
  <2>4. Size(e) \in Int
    BY <2>2 DEF Size
  <2>5. chunks[e].downloaded = Size(e)
    BY <2>1, <2>3, <2>4 DEF Counts
  <2>6. \A c \in Chunks : chunks'[c].downloaded = chunks[c].downloaded
    BY <1>5, <2>5 DEF Completes, TypeOK
  <2>7. QED
    BY <1>3, <2>6
<1>6. CASE Counted(w)
  <2>0. PICK e \in Chunks : e = worker[w].chunk
    BY DEF TypeOK
  <2> DEFINE first == worker[w].req + worker[w].read
             d == worker[w].read + worker[w].n + worker[w].req - Start[e]
  <2>1. /\ worker[w] \in WorkerRecord /\ AttemptBounds(worker[w]) /\ worker[w].pc \in Fetching
        /\ chunks \in [Chunks -> ChunkState]
    BY <1>6 DEF TypeOK, WorkersBounded, WorkerRecord, Counted, Fetching
  <2>2. /\ worker[w].req \in Int /\ worker[w].read \in Int /\ worker[w].n \in Int
        /\ Start[e] \in Int /\ Size(e) \in Int
        /\ 0 <= worker[w].n /\ 0 <= Start[e] /\ Start[e] + Size(e) <= Length
    <3>1. /\ Start[e] \in Int /\ End[e] \in Int /\ 0 <= Start[e] /\ End[e] < Length
      BY LayoutFacts
    <3>2. QED
      BY <2>0, <2>1, <3>1, AttemptFacts, LayoutFacts DEF Size
  <2>3. \A c \in Chunks : c # e => chunks'[c].downloaded = chunks[c].downloaded
    BY <1>6, <2>0, <2>1 DEF Counted
  <2>4. chunks'[e].downloaded = IF d > Size(e) THEN Size(e) ELSE d
    BY <1>6, <2>0, <2>1 DEF Counted, ChunkState
  <2>5. /\ first - Start[e] <= Size(e) => chunks[e].downloaded = first - Start[e]
        /\ first - Start[e] > Size(e) => chunks[e].downloaded = Size(e)
    <3>1. \A v \in Workers : worker[v].pc \in Fetching =>
            LET c == worker[v].chunk
                x == worker[v].req + worker[v].read - Start[c]
            IN  /\ x <= Size(c) => chunks[c].downloaded = x
                /\ x > Size(c) => chunks[c].downloaded = Size(c)
      BY DEF Counts
    <3>2. QED
      BY <2>0, <2>1, <2>2, <3>1
  <2>6. \A o \in Offsets : first <= o /\ o < first + worker[w].n => Has(o)
    BY <1>6 DEF BytesWritten, Counted
  <2>7. \A o \in Start[e]..(Start[e] + chunks[e].downloaded - 1) : Has(o)
    BY DEF HasAll
  <2>8. ASSUME NEW o \in Start[e]..(Start[e] + chunks'[e].downloaded - 1)
        PROVE  Has(o)'
    <3>1. o \in Int /\ Start[e] <= o /\ o < Start[e] + Size(e) /\ o < first + worker[w].n
      BY <2>2, <2>4
    <3>2. o \in Offsets
      BY <2>2, <3>1, LayoutFacts DEF Offsets
    <3>3. ASSUME o < first
          PROVE  Has(o)
      <4>1. o \in Start[e]..(Start[e] + chunks[e].downloaded - 1)
        BY <2>2, <2>5, <3>1, <3>3
      <4>2. QED
        BY <2>7, <3>2, <4>1
    <3>4. ASSUME first <= o
          PROVE  Has(o)
      BY <2>6, <3>1, <3>2, <3>4
    <3>5. Has(o)
      BY <2>2, <3>1, <3>3, <3>4
    <3>6. QED
      BY <1>1, <3>2, <3>5
  <2>9. HasAll(chunks, e)'
    BY <2>8 DEF HasAll
  <2>10. QED
    BY <1>3, <2>3, <2>9
<1>7. QED
  BY <1>4, <1>5, <1>6, AttemptEffect DEF SameAttempt, NewAttempt, NoAttempt

\* A checkpoint whose counts the chunks reach is backed by the file.
LEMMA BackedBelow ==
  ASSUME TypeOK, NEW st \in [Chunks -> ChunkState],
         \A c \in Chunks : HasAll(chunks, c) /\ st[c].downloaded <= chunks[c].downloaded
  PROVE  \A c \in Chunks : HasAll(st, c)
<1>1. \A c \in Chunks : st[c].downloaded \in Int /\ chunks[c].downloaded \in Int /\ Start[c] \in Int
  BY LayoutFacts DEF TypeOK, ChunkState
<1>2. \A c \in Chunks : \A o \in Start[c]..(Start[c] + st[c].downloaded - 1) :
        o \in Start[c]..(Start[c] + chunks[c].downloaded - 1)
  BY <1>1
<1>3. QED
  BY <1>2 DEF HasAll

LEMMA BackingChunks ==
  ASSUME TypeOK, WorkersBounded, Ownership, Counts, BytesWritten, Backing, [Next]_vars,
         main' # "idle", ~crossed'
  PROVE  \A c \in Chunks : HasAll(chunks, c)'
<1> USE DEF session, memory, ckpt, server, names
<1>0. ~crossed /\ (ResumeSession => ~renamed)
  BY CrossedKept
<1>1. CASE \E w \in Workers : WorkerStep(w)
  <2>1. PICK w \in Workers : WorkerStep(w)
    BY <1>1
  <2>2. main # "idle" /\ \A c \in Chunks : HasAll(chunks, c)
    BY <1>0, <2>1, WorkerStepMain DEF Backing
  <2>3. QED
    BY <2>1, <2>2, BackedWorker
<1>2. CASE ResumeSession
  <2>1. UNCHANGED <<file, version>> /\ chunks' = disk.st /\ mixed' = (mixed \/ disk.id.ver # version)
    BY <1>0, <1>2 DEF ResumeSession, RequestedName, OpenToResume
  <2>2. Backed(disk.id.ver, disk.st)
    BY <1>0, <1>2 DEF ResumeSession, Backing, CheckpointBacked
  <2>3. \A o : Holds(disk.id.ver, o) => Has(o)'
    BY <2>1 DEF Has, Holds
  <2>4. QED
    BY <2>1, <2>2, <2>3 DEF HasAll, Backed
<1>3. CASE OpenFresh
  <2>1. \A c \in Chunks : chunks'[c].downloaded = 0 /\ Start[c] \in Int
    BY <1>3, LayoutFacts DEF OpenFresh, FreshChunks
  <2>2. QED
    BY <2>1 DEF HasAll
<1>4. CASE \/ InitCheckpoint \/ PersistOnPause \/ ReturnMultipart \/ CleanUp \/ SingleCopy
           \/ SingleEnd \/ SingleFails \/ Pause
  <2>1. chunks' = chunks /\ main # "idle"
    BY <1>4 DEF InitCheckpoint, PersistOnPause, ReturnMultipart, CleanUp, SingleCopy, SingleEnd,
                SingleFails, Pause
  <2>2. \A o \in Offsets : Has(o) => Has(o)'
    BY <2>1, HasKept DEF OpenFresh, ServerUpdate, ResumeSession
  <2>3. \A c \in Chunks : \A o \in Start[c]..(Start[c] + chunks[c].downloaded - 1) : o \in Offsets
    BY BackedOffsets
  <2>4. QED
    BY <1>0, <2>1, <2>2, <2>3 DEF Backing, HasAll
<1>5. CASE Crash \/ ServerUpdate
  BY <1>5 DEF Crash, ServerUpdate
<1>6. CASE UNCHANGED vars
  BY <1>0, <1>6 DEF vars, Backing, HasAll, Has, Holds
<1>7. QED
  BY <1>1, <1>2, <1>3, <1>4, <1>5, <1>6 DEF Next, StartSession, CallerStep

\* A session does not find the mixing out either.
LEMMA BackingNoticed ==
  ASSUME TypeOK, WorkersBounded, Ownership, Backing, [Next]_vars, main' # "idle", ~crossed'
  PROVE  NotNoticed(cpId)'
<1> USE DEF session, memory, ckpt, server, names
<1>0. ~crossed /\ (ResumeSession => ~renamed) /\ (~StartSession => UNCHANGED names)
  BY CrossedKept
<1>1. CASE ResumeSession
  <2>1. /\ IsResumeValid(disk) /\ cpId' = disk.id
        /\ mixed' = (mixed \/ disk.id.ver # version)
    BY <1>1 DEF ResumeSession, RequestedName
  <2>2. NotNoticed(disk.id)
    BY <1>0, <1>1, <2>1 DEF Backing, CheckpointBacked
  <2>3. disk.id.ver # version => "ETag" \notin disk.id.headers
    BY <2>1 DEF IsResumeValid, SameContent
  <2>4. QED
    BY <2>1, <2>2, <2>3 DEF NotNoticed
<1>2. CASE OpenFresh
  BY <1>2 DEF OpenFresh, FreeName, NotNoticed
<1>3. CASE ~StartSession
  <2>1. UNCHANGED <<mixed, cpId>> /\ main # "idle"
    <3>1. CASE \E w \in Workers : WorkerStep(w)
      BY <3>1, <1>0, <1>3, WorkerEffect, WorkerStepMain
    <3>2. CASE CallerStep \/ Pause
      BY <3>2, <1>0, <1>3 DEF CallerStep, InitCheckpoint, PersistOnPause, ReturnMultipart, CleanUp,
         SingleCopy, SingleEnd, SingleFails, Pause
    <3>3. CASE Crash \/ ServerUpdate
      BY <3>3 DEF Crash, ServerUpdate
    <3>4. CASE UNCHANGED vars
      BY <3>4 DEF vars
    <3>5. QED
      BY <1>3, <3>1, <3>2, <3>3, <3>4 DEF Next
  <2>2. NotNoticed(cpId)
    BY <1>0, <2>1 DEF Backing
  <2>3. QED
    BY <2>1, <2>2 DEF NotNoticed
<1>4. QED
  BY <1>1, <1>2, <1>3 DEF StartSession

\* The checkpoint on disk after a Save.
LEMMA BackingSaved ==
  ASSUME TypeOK', NEW i, NEW st \in [Chunks -> ChunkState], disk' = [id |-> i, st |-> st],
         (i.ver = version \/ mixed)', NotNoticed(i)',
         \A c \in Chunks : HasAll(chunks, c)',
         \A c \in Chunks : st[c].downloaded <= chunks'[c].downloaded
  PROVE  /\ (Backed(disk.id.ver, disk.st) /\ NotNoticed(disk.id))'
         /\ \A c \in Chunks : \A o \in Start[c]..(Start[c] + st[c].downloaded - 1) : Holds(i.ver, o)'
<1>1. \A c \in Chunks : st[c].downloaded \in Int /\ chunks'[c].downloaded \in Int /\ Start[c] \in Int
  BY LayoutFacts DEF TypeOK, ChunkState
<1>2. \A c \in Chunks : \A o \in Start[c]..(Start[c] + st[c].downloaded - 1) :
        o \in Start[c]..(Start[c] + chunks'[c].downloaded - 1)
  BY <1>1
<1>3. disk'.st = st /\ disk'.id = i
  OBVIOUS
<1>4. \A o : Has(o)' => Holds(i.ver, o)'
  BY DEF Has, Holds
<1>5. \A c \in Chunks : \A o \in Start[c]..(Start[c] + st[c].downloaded - 1) : Holds(i.ver, o)'
  BY <1>2, <1>4 DEF HasAll
<1>6. Backed(disk.id.ver, disk.st)'
  BY <1>3, <1>5 DEF Backed, Holds
<1>7. QED
  BY <1>3, <1>5, <1>6 DEF NotNoticed

\* Between sessions only a new one or the server takes a step.
LEMMA IdleStep ==
  ASSUME TypeOK, Ownership, [Next]_vars, main = "idle"
  PROVE  StartSession \/ ServerUpdate \/ UNCHANGED vars
<1>1. \A w \in Workers : ~WorkerStep(w)
  BY WorkerStepMain
<1>2. ~CallerStep /\ ~Pause /\ ~Crash
  BY DEF CallerStep, InitCheckpoint, PersistOnPause, ReturnMultipart, CleanUp, SingleCopy, SingleEnd,
         SingleFails, Pause, Crash
<1>3. QED
  BY <1>1, <1>2 DEF Next

\* What a step of a session makes of the checkpoint on disk: it stays, is
\* removed at the end, or is replaced by one the chunks reach.
LEMMA DiskStep ==
  ASSUME TypeOK, WorkersBounded, Ownership, Counts, Session, [Next]_vars, main # "idle"
  PROVE  /\ UNCHANGED <<version, headers, ranges>> /\ (main' # "idle" => cpId' = cpId)
         /\ \/ disk' = disk
            \/ disk' = NoCheckpoint /\ main' = "idle"
            \/ /\ main' # "idle"
               /\ \E st \in [Chunks -> ChunkState] :
                    /\ disk' = [id |-> cpId, st |-> st]
                    /\ \A c \in Chunks : st[c].downloaded <= chunks'[c].downloaded
<1> USE DEF session, memory, ckpt, server, names
<1>0. TypeOK' /\ cpMem \in [Chunks -> ChunkState] /\ chunks \in [Chunks -> ChunkState]
  BY TypeStep DEF TypeOK
<1>1. \A c \in Chunks : /\ chunks[c].downloaded \in Int /\ chunks'[c].downloaded \in Int
                        /\ cpMem[c].downloaded \in Int
  BY <1>0, LayoutFacts DEF TypeOK, ChunkState
<1>2. UNCHANGED <<version, headers, ranges>>
  BY HasKept DEF OpenFresh, ServerUpdate, ResumeSession
<1>3. \A c \in Chunks : cpMem[c].downloaded <= chunks[c].downloaded
  BY DEF Session
<1>4. CASE \E w \in Workers : WorkerStep(w)
  <2>1. PICK w \in Workers : WorkerStep(w)
    BY <1>4
  <2>2. disk' = disk \/ disk' = [id |-> cpId, st |-> cpMem]
    BY <1>0, <2>1, WorkerCheckpoint
  <2>3. \A c \in Chunks : cpMem[c].downloaded <= chunks'[c].downloaded
    BY <1>1, <1>3, <2>1, CountsWorker
  <2>4. main' # "idle" /\ cpId' = cpId
    BY <2>1, WorkerStepMain, WorkerEffect
  <2>5. QED
    BY <1>0, <1>2, <2>2, <2>3, <2>4
<1>5. CASE InitCheckpoint
  <2>1. chunks' = chunks /\ main' # "idle" /\ cpId' = cpId /\ (disk' = disk \/ disk' = [id |-> cpId, st |-> cpMem])
    BY <1>0, <1>5 DEF InitCheckpoint, Save
  <2>2. QED
    BY <1>0, <1>2, <1>3, <2>1
<1>6. CASE PersistOnPause
  <2>1. chunks' = chunks /\ main' # "idle" /\ cpId' = cpId /\ (disk' = disk \/ disk' = [id |-> cpId, st |-> chunks])
    BY <1>0, <1>6 DEF PersistOnPause, Save
  <2>2. QED
    BY <1>0, <1>1, <1>2, <2>1
<1>7. CASE CleanUp
  BY <1>2, <1>7 DEF CleanUp
<1>8. CASE ReturnMultipart \/ SingleCopy \/ SingleEnd \/ SingleFails \/ Pause \/ Crash \/ UNCHANGED vars
  <2>1. disk' = disk /\ (main' # "idle" => cpId' = cpId)
    BY <1>8 DEF ReturnMultipart, SingleCopy, SingleEnd, SingleFails, Pause, Crash, vars
  <2>2. QED
    BY <1>2, <2>1
<1>9. ~StartSession /\ ~ServerUpdate
  BY DEF StartSession, ResumeSession, OpenFresh, ServerUpdate
<1>10. QED
  BY <1>4, <1>5, <1>6, <1>7, <1>8, <1>9 DEF Next, CallerStep

\* The offsets a consistent checkpoint counts are offsets of the resource.
LEMMA DiskOffsets ==
  ASSUME TypeOK, \A c \in Chunks : disk.st[c].downloaded <= Size(c)
  PROVE  \A c \in Chunks : \A o \in Start[c]..(Start[c] + disk.st[c].downloaded - 1) :
           o \in Offsets /\ Start[c] <= o /\ o < Start[c] + disk.st[c].downloaded
<1>1. \A c \in Chunks : disk.st[c].downloaded \in Int /\ disk.st[c].downloaded <= Size(c)
  BY LayoutFacts DEF TypeOK, ChunkState
<1>2. \A c \in Chunks : /\ Start[c] \in Int /\ 0 <= Start[c]
                        /\ Size(c) \in Int /\ Start[c] + Size(c) <= Length
  BY ChunkInside
<1>3. ASSUME NEW c \in Chunks, NEW o \in Start[c]..(Start[c] + disk.st[c].downloaded - 1)
      PROVE  o \in Offsets /\ Start[c] <= o /\ o < Start[c] + disk.st[c].downloaded
  <2> DEFINE s == Start[c]
             z == Size(c)
             d == disk.st[c].downloaded
  <2>1. s \in Int /\ 0 <= s /\ z \in Int /\ s + z <= Length /\ d \in Int /\ d <= z
    BY <1>1, <1>2
  <2>2. o \in s..(s + d - 1)
    BY <1>3
  <2>3. Length \in Nat
    BY LayoutFacts
  <2> HIDE DEF s, z, d
  <2>4. o \in Int /\ s <= o /\ o < s + d /\ 0 <= o /\ o < Length
    BY <2>1, <2>2, <2>3
  <2>5. o \in Offsets
    BY <2>3, <2>4 DEF Offsets
  <2>6. QED
    BY <2>4, <2>5 DEF s, d
<1>4. QED
  BY <1>3

LEMMA BelongsStep ==
  ASSUME AutoRename, TypeOK, WorkersBounded, Ownership, Counts, BytesWritten, Session, Backing,
         [Next]_vars, ~crossed', ~renamed'
  PROVE  Belongs'
<1> USE DEF session, memory, ckpt, server, names
<1>0. ~crossed /\ (ResumeSession => ~renamed) /\ (~StartSession => UNCHANGED names)
  BY CrossedKept
<1>1. CASE ResumeSession
  <2>1. Belongs /\ requested = "session"
    BY <1>0, <1>1 DEF Backing, Belongs, ResumeSession, IsResumeValid
  <2>2. /\ UNCHANGED <<file, disk, version, requested>> /\ disk # NoCheckpoint
        /\ mixed' = (mixed \/ disk.id.ver # version)
        /\ "ETag" \in disk.id.headers => disk.id.ver = version
    BY <1>0, <1>1 DEF ResumeSession, RequestedName, OpenToResume, IsResumeValid, SameContent
  <2>3. \A o \in Offsets : Holds(disk.id.ver, o) => Holds(disk.id.ver, o)'
    BY <2>2 DEF Holds
  <2>4. Held(disk.id.ver, disk.st)' /\ NotNoticed(disk.id)'
    BY <2>1, <2>2, <2>3 DEF Belongs, Held, NotNoticed
  <2>5. QED
    BY <2>1, <2>2, <2>4 DEF Belongs
<1>2. CASE OpenFresh
  <2>1. requested = "nobody" /\ requested' = "session"
    BY <1>2 DEF OpenFresh, FreeName
  <2>2. disk = NoCheckpoint
    BY <1>0, <2>1 DEF Backing, Belongs
  <2>3. disk' = NoCheckpoint
    BY <1>2, <2>2 DEF OpenFresh
  <2>4. QED
    BY <2>1, <2>3 DEF Belongs
<1>3. ASSUME ~StartSession
      PROVE  Belongs /\ UNCHANGED requested
  BY <1>0, <1>3 DEF Backing
<1>4. CASE ServerUpdate
  <2>1. Belongs /\ UNCHANGED <<requested, main, disk, file, mixed>> /\ main = "idle"
    BY <1>3, <1>4 DEF ServerUpdate, StartSession, ResumeSession, OpenFresh
  <2>2. QED
    BY <2>1 DEF Belongs, Held, Holds, NotNoticed
<1>5. CASE UNCHANGED vars
  BY <1>0, <1>5 DEF vars, Backing, Belongs, Held, Holds, NotNoticed
<1>6. CASE main # "idle"
  <2>0. ~StartSession /\ ~OpenFresh /\ ~ResumeSession /\ ~ServerUpdate
    BY <1>6 DEF StartSession, ResumeSession, OpenFresh, ServerUpdate
  <2>1. Belongs /\ requested = "session" /\ requested' = "session"
    BY <1>3, <1>6, <2>0 DEF Belongs
  <2>2. UNCHANGED <<version, mixed>> /\ \A o \in Offsets : Has(o) => Has(o)'
    BY <1>0, <2>0, HasKept
  <2>3. CASE disk' = disk
    <3>1. CASE disk = NoCheckpoint
      BY <2>1, <2>3, <3>1 DEF Belongs
    <3>2. CASE disk # NoCheckpoint
      <4>1. disk.id.ver = version \/ mixed
        BY <1>6, <2>1, <3>2 DEF Belongs
      <4>2. \A o \in Offsets : Holds(disk.id.ver, o) => Holds(disk.id.ver, o)'
        BY <2>2, <2>3, <4>1 DEF Has, Holds
      <4>3. Held(disk.id.ver, disk.st)'
        BY <2>1, <2>3, <3>2, <4>2 DEF Belongs, Held
      <4>4. QED
        BY <2>1, <2>2, <2>3, <3>2, <4>1, <4>3 DEF Belongs, NotNoticed
    <3>3. QED
      BY <3>1, <3>2
  <2>4. CASE disk' = NoCheckpoint
    BY <2>1, <2>4 DEF Belongs
  <2>5. CASE main' # "idle" /\ \E st \in [Chunks -> ChunkState] :
                    /\ disk' = [id |-> cpId, st |-> st]
                    /\ \A c \in Chunks : st[c].downloaded <= chunks'[c].downloaded
    <3>1. PICK st \in [Chunks -> ChunkState] :
                    /\ disk' = [id |-> cpId, st |-> st]
                    /\ \A c \in Chunks : st[c].downloaded <= chunks'[c].downloaded
      BY <2>5
    <3>2. \A c \in Chunks : HasAll(chunks, c)'
      BY <2>5, BackingChunks
    <3>i. /\ cpId' = cpId /\ (cpId.ver = version \/ mixed)' /\ NotNoticed(cpId)'
      BY <1>6, <2>2, <2>5, DiskStep, BackingNoticed DEF Session
    <3>d. disk'.id = cpId /\ disk'.st = st
      BY <3>1
    <3>3. \A c \in Chunks : /\ st[c].downloaded \in Int /\ chunks'[c].downloaded \in Int
                            /\ Start[c] \in Int
      BY TypeStep, LayoutFacts DEF TypeOK, ChunkState
    <3>4. \A o \in Offsets : o \in Int
      BY LayoutFacts DEF Offsets
    <3>5. ASSUME NEW c \in Chunks, NEW o \in Offsets, Start[c] <= o, o < Start[c] + st[c].downloaded
          PROVE  Holds(disk.id.ver, o)'
      <4>1. o \in Start[c]..(Start[c] + chunks'[c].downloaded - 1)
        BY <3>1, <3>3, <3>4, <3>5
      <4>2. Has(o)'
        BY <3>2, <4>1 DEF HasAll
      <4>3. QED
        BY <4>2, <3>i, <3>d DEF Has, Holds
    <3>7. Held(disk.id.ver, disk.st)'
      BY <3>5, <3>d DEF Held
    <3>8. NotNoticed(disk.id)' /\ (disk.id.ver = version \/ mixed)'
      BY <3>i, <3>d DEF NotNoticed
    <3>9. QED
      BY <2>1, <3>7, <3>8 DEF Belongs
  <2>6. QED
    BY <1>6, <2>3, <2>4, <2>5, DiskStep
<1>7. QED
  BY <1>1, <1>2, <1>4, <1>5, <1>6, IdleStep DEF StartSession

LEMMA BackingStep ==
  ASSUME ~Flapping \/ AutoRename, TypeOK, WorkersBounded, Ownership, Counts, BytesWritten, Session, Backing,
         [Next]_vars
  PROVE  Backing'
<1> USE DEF session, memory, ckpt, server, names
<1>0. TypeOK' /\ version \in Int /\ version' \in Int /\ disk.id.ver \in Int
  BY TypeStep DEF TypeOK, Versions, Identities
<1>1. ~crossed' /\ main' # "idle" => NotNoticed(cpId)' /\ \A c \in Chunks : HasAll(chunks, c)'
  BY BackingChunks, BackingNoticed
<1>2. AutoRename /\ ~crossed' /\ ~renamed' => Belongs'
  BY BelongsStep
<1>3. (requested = "nobody" => ~renamed)'
  BY CrossedKept DEF Backing, StartSession, ResumeSession, OpenFresh, RequestedName, FreeName
<1> DEFINE Current == main # "idle" /\ IsResumeValid(disk) => disk.id.ver = version \/ mixed
           Aged == ~Flapping => /\ disk # NoCheckpoint => Older(disk.id)
                                /\ main # "idle" => Older(cpId)
<1>i. Current /\ Aged
  BY DEF Backing
<1>q. ASSUME CheckpointBacked', Current', Aged'
      PROVE  Backing'
  BY <1>q, <1>1, <1>2, <1>3 DEF Backing
<1>k. ASSUME UNCHANGED <<disk, file, mixed, crossed, renamed>>, IsResumeValid(disk)' => IsResumeValid(disk)
      PROVE  CheckpointBacked'
  BY <1>k DEF Backing, CheckpointBacked, Backed, Holds, NotNoticed
<1>4. CASE UNCHANGED vars
  <2>1. IsResumeValid(disk)' => IsResumeValid(disk)
    BY <1>4 DEF vars, IsResumeValid, SameContent
  <2>2. Current' /\ Aged'
    BY <1>i, <1>4, <2>1 DEF vars, Older
  <2>3. QED
    BY <1>4, <1>k, <1>q, <2>1, <2>2 DEF vars
<1>5. CASE ServerUpdate
  <2>1. UNCHANGED <<disk, file, requested, renamed, crossed, mixed, main>> /\ main = "idle"
    BY <1>5 DEF ServerUpdate
  <2>2. ~Flapping => version < version' /\ headers' = headers /\ ranges' = ranges
    BY <1>5 DEF ServerUpdate
  <2>3. Current' /\ Aged'
    BY <1>0, <1>i, <2>1, <2>2 DEF Older
  <2>4. CASE ~Flapping
    <3>1. IsResumeValid(disk)' => IsResumeValid(disk)
      <4>1. SUFFICES ASSUME IsResumeValid(disk)'
                     PROVE  IsResumeValid(disk)
        OBVIOUS
      <4>2. disk # NoCheckpoint /\ Older(disk.id) /\ SameContent(disk.id)'
        BY <1>i, <2>1, <2>4, <4>1 DEF IsResumeValid
      <4>3. SameContent(disk.id)
        BY <1>0, <2>1, <2>2, <2>4, <4>2 DEF SameContent, Older
      <4>4. QED
        BY <2>1, <2>2, <2>4, <4>1, <4>3 DEF IsResumeValid
    <3>2. QED
      BY <1>k, <1>q, <2>1, <2>3, <3>1
  <2>5. CASE AutoRename
    <3>1. SUFFICES ASSUME ~crossed, ~renamed, IsResumeValid(disk)'
                   PROVE  (Backed(disk.id.ver, disk.st) /\ NotNoticed(disk.id))'
      BY <1>q, <2>1, <2>3 DEF CheckpointBacked
    <3>2. disk # NoCheckpoint
      BY <2>1, <3>1 DEF IsResumeValid
    <3>3. Held(disk.id.ver, disk.st) /\ NotNoticed(disk.id)
      BY <2>5, <3>1, <3>2 DEF Backing, Belongs
    <3>4. \A c \in Chunks : \A o \in Start[c]..(Start[c] + disk.st[c].downloaded - 1) :
            o \in Offsets /\ Start[c] <= o /\ o < Start[c] + disk.st[c].downloaded
      BY <2>1, <3>1, DiskOffsets DEF IsResumeValid
    <3>5. Backed(disk.id.ver, disk.st)
      BY <3>3, <3>4 DEF Backed, Held
    <3>6. QED
      BY <2>1, <3>3, <3>5 DEF Backed, Holds, NotNoticed
  <2>6. QED
    BY <2>4, <2>5
<1>6. CASE ResumeSession
  <2>1. ~crossed' => ~crossed /\ ~renamed
    BY <1>6, CrossedKept
  <2>2. /\ UNCHANGED <<disk, version, headers, ranges>> /\ (~renamed => file' = file)
        /\ mixed' = (mixed \/ disk.id.ver # version) /\ cpId' = disk.id /\ IsResumeValid(disk)
    BY <1>6 DEF ResumeSession, RequestedName, OpenToResume
  <2>3. disk # NoCheckpoint /\ (disk.id.ver # version => "ETag" \notin disk.id.headers)
    BY <2>2 DEF IsResumeValid, SameContent
  <2>4. CheckpointBacked'
    <3>1. SUFFICES ASSUME ~crossed'
                   PROVE  (Backed(disk.id.ver, disk.st) /\ NotNoticed(disk.id))'
      BY DEF CheckpointBacked
    <3>2. Backed(disk.id.ver, disk.st) /\ NotNoticed(disk.id)
      BY <2>1, <2>2, <3>1 DEF Backing, CheckpointBacked
    <3>3. \A o : Holds(disk.id.ver, o) => Holds(disk.id.ver, o)'
      BY <2>1, <2>2, <3>1 DEF Holds
    <3>4. Backed(disk.id.ver, disk.st)'
      BY <2>2, <3>2, <3>3 DEF Backed
    <3>5. QED
      BY <2>2, <2>3, <3>2, <3>4 DEF NotNoticed
  <2>5. Current' /\ Aged'
    BY <1>i, <2>2, <2>3 DEF Older
  <2>6. QED
    BY <1>q, <2>4, <2>5
<1>7. CASE OpenFresh
  <2>1. /\ UNCHANGED <<disk, version, headers, ranges>> /\ ~IsResumeValid(disk) /\ cpId' = Identity
    BY <1>7 DEF OpenFresh
  <2>2. ~IsResumeValid(disk)'
    BY <2>1 DEF IsResumeValid, SameContent
  <2>3. CheckpointBacked' /\ Current'
    BY <2>2 DEF CheckpointBacked
  <2>4. Aged'
    BY <1>0, <1>i, <2>1 DEF Older, Identity
  <2>5. QED
    BY <1>q, <2>3, <2>4
<1>8. CASE main # "idle"
  <2>0. ~StartSession /\ ~OpenFresh /\ ~ResumeSession /\ ~ServerUpdate
    BY <1>8 DEF StartSession, ResumeSession, OpenFresh, ServerUpdate
  <2>1. /\ UNCHANGED <<version, headers, ranges, crossed, renamed, mixed>>
        /\ \A o \in Offsets : Has(o) => Has(o)'
        /\ main' # "idle" => cpId' = cpId
    BY <1>8, <2>0, HasKept, CrossedKept, DiskStep
  <2>2. CASE disk' = disk
    <3>1. IsResumeValid(disk)' => IsResumeValid(disk)
      BY <2>1, <2>2 DEF IsResumeValid, SameContent
    <3>2. CheckpointBacked'
      <4>1. SUFFICES ASSUME ~crossed, ~renamed, IsResumeValid(disk)
                     PROVE  (Backed(disk.id.ver, disk.st) /\ NotNoticed(disk.id))'
        BY <2>1, <3>1 DEF CheckpointBacked
      <4>2. Backed(disk.id.ver, disk.st) /\ NotNoticed(disk.id) /\ (disk.id.ver = version \/ mixed)
        BY <1>8, <4>1 DEF Backing, CheckpointBacked
      <4>3. \A c \in Chunks : \A o \in Start[c]..(Start[c] + disk.st[c].downloaded - 1) : o \in Offsets
        BY <4>1, DiskOffsets DEF IsResumeValid
      <4>4. \A o \in Offsets : Holds(disk.id.ver, o) => Holds(disk.id.ver, o)'
        BY <2>1, <2>2, <4>2 DEF Has, Holds
      <4>5. Backed(disk.id.ver, disk.st)'
        BY <2>2, <4>2, <4>3, <4>4 DEF Backed
      <4>6. QED
        BY <2>1, <2>2, <4>2, <4>5 DEF NotNoticed
    <3>3. Current' /\ Aged'
      BY <1>i, <1>8, <2>1, <2>2, <3>1 DEF Older
    <3>4. QED
      BY <1>q, <3>2, <3>3
  <2>3. CASE disk' = NoCheckpoint /\ main' = "idle"
    <3>1. ~IsResumeValid(disk)'
      BY <2>3 DEF IsResumeValid
    <3>2. CheckpointBacked' /\ Current' /\ Aged'
      BY <2>3, <3>1 DEF CheckpointBacked
    <3>3. QED
      BY <1>q, <3>2
  <2>4. CASE main' # "idle" /\ \E st \in [Chunks -> ChunkState] :
                    /\ disk' = [id |-> cpId, st |-> st]
                    /\ \A c \in Chunks : st[c].downloaded <= chunks'[c].downloaded
    <3>1. PICK st \in [Chunks -> ChunkState] :
                    /\ disk' = [id |-> cpId, st |-> st]
                    /\ \A c \in Chunks : st[c].downloaded <= chunks'[c].downloaded
      BY <2>4
    <3>2. PICK i : i = cpId
      OBVIOUS
    <3>3. disk' = [id |-> i, st |-> st] /\ cpId' = i /\ disk'.id = i /\ (i.ver = version \/ mixed)'
      BY <1>8, <2>1, <2>4, <3>1, <3>2 DEF Session
    <3>4. ~crossed' => CheckpointBacked'
      <4>1. ASSUME ~crossed'
            PROVE  NotNoticed(i)' /\ \A c \in Chunks : HasAll(chunks, c)'
        BY <1>1, <2>4, <3>3, <4>1 DEF NotNoticed
      <4>2. QED
        BY <1>0, <3>1, <3>3, <4>1, BackingSaved DEF CheckpointBacked
    <3>5. CheckpointBacked'
      BY <3>4 DEF CheckpointBacked
    <3>6. Current' /\ Aged'
      BY <1>i, <1>8, <2>1, <3>2, <3>3 DEF Older
    <3>7. QED
      BY <1>q, <3>5, <3>6
  <2>5. QED
    BY <1>8, <2>2, <2>3, <2>4, DiskStep
<1>9. QED
  BY <1>4, <1>5, <1>6, <1>7, <1>8, IdleStep DEF StartSession

\* A step of a worker forgets no chunk.
LEMMA AccountedWorker ==
  ASSUME TypeOK, Ownership, Accounted, Session, NEW w \in Workers, WorkerStep(w)
  PROVE  Accounted'
<1>1. /\ main = "workers" /\ main' = "workers" /\ worker[w].pc # "exited"
      /\ UNCHANGED <<result, paused>>
      /\ \A v \in Workers : v # w => worker'[v] = worker[v]
  BY WorkerStepMain, WorkerEffect
<1>2. result' # "success"
  BY <1>1 DEF Session
<1>3. TypeOK => chunks \in [Chunks -> ChunkState] /\ worker[w].chunk \in Chunks /\ jobs \subseteq Chunks
  BY DEF TypeOK
<1> DEFINE InHands(c) == \/ chunks[c].completed \/ c \in jobs
                         \/ \E v \in Workers : worker[v].pc \in Active /\ worker[v].chunk = c
<1>4. CASE GivesUp(w)
  BY <1>1, <1>2, <1>4 DEF GivesUp, Accounted, SuccessComplete
<1>5. ASSUME UNCHANGED <<stopped, downloadErr>>,
             ~paused /\ ~stopped => (\A c \in Chunks : InHands(c) => InHands(c)'),
             ~paused /\ ~stopped => jobs' \subseteq jobs,
             worker'[w].pc = "exited" => paused \/ stopped \/ jobs' = {}
      PROVE  Accounted'
  BY <1>1, <1>2, <1>5 DEF Accounted, SuccessComplete
<1>6. CASE GoesOn(w)
  <2>1. \A c \in Chunks : InHands(c) => InHands(c)'
    BY <1>1, <1>6 DEF GoesOn
  <2>2. QED
    BY <1>5, <1>6, <2>1 DEF GoesOn, Active
<1>7. CASE Takes(w)
  <2>1. ~paused /\ ~stopped => (\A c \in Chunks : InHands(c) => InHands(c)')
    BY <1>1, <1>7 DEF Takes, CtxDone, Active
  <2>2. worker'[w].pc = "exited" => paused \/ stopped \/ jobs' = {}
    BY <1>7 DEF Takes, CtxDone
  <2>3. QED
    BY <1>5, <1>7, <2>1, <2>2 DEF Takes
<1>8. CASE Completes(w)
  <2>1. chunks'[worker[w].chunk].completed /\ \A c \in Chunks : chunks[c].completed => chunks'[c].completed
    BY <1>3, <1>8 DEF Completes
  <2>2. \A c \in Chunks : InHands(c) => InHands(c)'
    BY <1>1, <1>8, <2>1 DEF Completes
  <2>3. QED
    BY <1>5, <1>8, <2>2 DEF Completes
<1>9. CASE Persists(w)
  <2>1. worker[w].pc \notin Active
    BY <1>9 DEF Persists, Syncing, Active
  <2>2. \A c \in Chunks : InHands(c) => InHands(c)'
    BY <1>1, <1>9, <2>1 DEF Persists
  <2>3. worker'[w].pc # "exited"
    BY <1>9 DEF Persists, Syncing
  <2>4. QED
    BY <1>5, <1>9, <2>2, <2>3 DEF Persists
<1>10. QED
  BY <1>4, <1>6, <1>7, <1>8, <1>9, WorkerEffect

LEMMA AccountedStep ==
  ASSUME TypeOK, WorkersBounded, Ownership, Counts, Session, Backing, Accounted, [Next]_vars
  PROVE  Accounted'
<1> USE DEF session, memory, ckpt, server, names
<1>0. TypeOK'
  BY TypeStep
<1>1. CASE \E w \in Workers : WorkerStep(w)
  BY <1>1, AccountedWorker
<1>2. ASSUME NEW pc, pc = "take", worker' = [w \in Workers |-> Locals(pc)], main' = "workers",
             jobs' = {c \in Chunks : ~chunks'[c].completed}, result' # "success",
             stopped' => downloadErr'
      PROVE  Accounted'
  <2>1. \A w \in Workers : worker'[w].pc # "exited"
    BY <1>2, Restarted
  <2>2. \A c \in Chunks : chunks'[c].completed \/ c \in jobs'
    BY <1>2
  <2>3. QED
    BY <1>2, <2>1, <2>2 DEF Accounted, SuccessComplete
<1>3. CASE ResumeSession
  BY <1>2, <1>3 DEF ResumeSession
<1>4. CASE InitCheckpoint
  <2>1. chunks' = chunks /\ result' = "none" /\ UNCHANGED <<stopped, downloadErr>>
    BY <1>4 DEF InitCheckpoint, Session
  <2>2. QED
    BY <1>2, <1>4, <2>1 DEF InitCheckpoint, Accounted
<1>5. CASE OpenFresh
  BY <1>5, LayoutFacts DEF OpenFresh, Accounted, SuccessComplete, Offsets
<1>6. CASE PersistOnPause
  <2>1. ~paused /\ ~downloadErr => \A c \in Chunks : chunks[c].completed
    <3>1. \E w \in Workers : worker[w].pc = "exited"
      BY <1>6, ParameterAssumption DEF PersistOnPause
    <3>2. \A w \in Workers : worker[w].pc \notin Active
      BY <1>6 DEF PersistOnPause, Active
    <3>3. QED
      BY <1>6, <3>1, <3>2 DEF PersistOnPause, Accounted
  <2>2. QED
    BY <1>6, <2>1 DEF PersistOnPause, Accounted, Session, SuccessComplete
<1>7. CASE ReturnMultipart
  <2>1. CASE downloadErr \/ paused
    BY <1>7, <2>1 DEF ReturnMultipart, Accounted, SuccessComplete
  <2>2. CASE ~downloadErr /\ ~paused
    <3>1. \A c \in Chunks : chunks[c].downloaded = Size(c) /\ Start[c] \in Int /\ End[c] \in Int
      BY <1>7, <2>2, LayoutFacts DEF ReturnMultipart, Accounted, Counts
    <3>2. ASSUME NEW o \in Offsets, ~crossed
          PROVE  Has(o)
      <4>1. PICK c \in Chunks : o \in RangeOf(c)
        BY LayoutAssumption
      <4>2. o \in Start[c]..(Start[c] + chunks[c].downloaded - 1)
        BY <3>1, <4>1, LayoutFacts DEF RangeOf, Size
      <4>3. QED
        BY <1>7, <3>2, <4>2 DEF Backing, HasAll, ReturnMultipart
    <3>3. UNCHANGED <<file, version, result, stopped, downloadErr, crossed, mixed>> /\ main' = "cleanup"
          /\ result # "success"
      BY <1>7, <2>2 DEF ReturnMultipart, Session
    <3>4. ~crossed => \A o \in Delivered' : Has(o)'
      BY <3>2, <3>3 DEF Has, Holds, Delivered
    <3>5. QED
      BY <3>3, <3>4 DEF Accounted, SuccessComplete
  <2>3. QED
    BY <2>1, <2>2
<1>8. CASE CleanUp
  <2>1. ~crossed => /\ \A o \in Delivered : Has(o)
                    /\ NotNoticed(cpId)
    BY <1>8 DEF CleanUp, Accounted, Backing
  <2>2. UNCHANGED <<file, version, mixed, cpId, crossed, chunks, counted>> /\ version \in Versions
        /\ main' = "idle" /\ UNCHANGED <<stopped, downloadErr>>
    BY <1>8 DEF CleanUp, TypeOK
  <2>3. ~crossed => (\A o \in Delivered' : Holds(version, o)') /\ NotNoticed(cpId)'
    BY <2>1, <2>2 DEF Has, Holds, Delivered, NotNoticed
  <2>4. QED
    BY <2>2, <2>3 DEF Accounted, SuccessComplete
<1>9. CASE SingleCopy
  <2>1. PICK n \in 1..(Length - counted) :
          /\ file' = [o \in Offsets |->
                     IF o \in counted..(counted + n - 1) THEN Byte(version, o) ELSE file[o]]
          /\ counted' = counted + n
    BY <1>9 DEF SingleCopy
  <2>2. /\ chunks = FreshChunks /\ counted \in 0..Length
        /\ \A o \in Offsets : o < counted => Has(o)
    BY <1>9 DEF SingleCopy, Accounted
  <2>3. n \in Int /\ counted' \in 0..Length
    BY <2>1, <2>2, LayoutFacts
  <2>4. ASSUME NEW o \in Offsets, o < counted'
        PROVE  Has(o)'
    <3>1. o \in Int /\ (o < counted \/ o \in counted..(counted + n - 1))
      BY <2>1, <2>2, <2>3, <2>4, LayoutFacts
    <3>2. UNCHANGED <<version, mixed>> /\ version # 0
      BY <1>9 DEF SingleCopy, TypeOK, Versions
    <3>3. file'[o] = Byte(version, o) \/ (o < counted /\ file'[o] = file[o])
      BY <2>1, <3>1
    <3>4. QED
      BY <2>2, <3>2, <3>3 DEF Has, Holds, Byte
  <2>5. UNCHANGED <<main, result, stopped, downloadErr, chunks>> /\ main = "single" /\ result # "success"
    BY <1>9 DEF SingleCopy, Session
  <2>6. QED
    BY <2>2, <2>3, <2>4, <2>5 DEF Accounted, SuccessComplete
<1>10. CASE SingleEnd
  <2>1. /\ UNCHANGED <<file, version, mixed, chunks, counted, result, stopped, downloadErr>>
        /\ main' = "cleanup" /\ result # "success" /\ main = "single"
    BY <1>10 DEF SingleEnd, Session
  <2>2. chunks = FreshChunks /\ \A o \in Offsets : o < counted => Has(o)
    BY <2>1 DEF Accounted
  <2>3. \A o \in Delivered : Has(o)
    BY <2>2, LayoutFacts DEF Delivered, FreshChunks
  <2>4. \A o \in Delivered' : Has(o)'
    BY <2>1, <2>3 DEF Has, Holds, Delivered
  <2>5. QED
    BY <2>1, <2>4 DEF Accounted, SuccessComplete
<1>11. CASE SingleFails
  BY <1>11 DEF SingleFails, Accounted, SuccessComplete
<1>12. CASE Pause
  <2>1. /\ UNCHANGED <<main, result, stopped, downloadErr, chunks, counted, file, version, crossed, mixed>>
        /\ paused' /\ result # "success"
    BY <1>12 DEF Pause, Session
  <2>2. (\A o : Has(o) => Has(o)') /\ Delivered' = Delivered
    BY <2>1 DEF Has, Holds, Delivered
  <2>3. QED
    BY <2>1, <2>2 DEF Accounted, SuccessComplete
<1>13. CASE Crash
  BY <1>13 DEF Crash, Accounted, SuccessComplete
<1>14. CASE ServerUpdate
  <2>1. main' = "idle" /\ UNCHANGED <<stopped, downloadErr, result, file, crossed, mixed, chunks, counted, cpId>>
    BY <1>14 DEF ServerUpdate
  <2>2. SuccessComplete'
    BY <2>1 DEF Accounted, SuccessComplete, Holds, NotNoticed, Delivered
  <2>3. QED
    BY <2>1, <2>2 DEF Accounted
<1>15. CASE UNCHANGED vars
  <2>1. SuccessComplete'
    BY <1>15 DEF vars, Accounted, SuccessComplete, Holds, NotNoticed, Delivered
  <2>2. (\A o : Has(o) => Has(o)') /\ Delivered' = Delivered
    BY <1>15 DEF vars, Has, Holds, Delivered
  <2>3. QED
    BY <1>15, <2>1, <2>2 DEF vars, Accounted
<1>16. QED
  BY <1>1, <1>3, <1>4, <1>5, <1>6, <1>7, <1>8, <1>9, <1>10, <1>11, <1>12, <1>13, <1>14, <1>15
     DEF Next, StartSession, CallerStep
-----------------------------------------------------------------------------
(* The theorems.                                                           *)

\* What holds whatever the server does, and what in addition holds on a server
\* that never returns to an earlier content, or with AutoRename.
Control == TypeOK /\ WorkersBounded /\ Ownership /\ Counts
Data == Control /\ BytesWritten /\ Session /\ Backing

LEMMA RestInit == Init => Ownership /\ Counts /\ BytesWritten /\ Session /\ Backing /\ Accounted
<1> SUFFICES ASSUME Init
             PROVE  Ownership /\ Counts /\ BytesWritten /\ Session /\ Backing /\ Accounted
  OBVIOUS
<1>1. /\ main = "idle" /\ result = "none" /\ ~stopped /\ jobs = {} /\ version = 1
      /\ disk = NoCheckpoint
      /\ chunks = FreshChunks /\ ~renamed /\ ~crossed
      /\ \A w \in Workers : worker[w].pc = "exited"
  BY DEF Init, Locals, Attempt, NoCheckpoint
<1>2. Ownership
  BY <1>1 DEF Ownership, OneWriterPerChunk, Active
<1>3. Counts
  BY <1>1, LayoutFacts DEF Counts, FreshChunks, Fetching
<1>4. BytesWritten /\ Session
  BY <1>1 DEF BytesWritten, Session
<1>5. Backing
  BY <1>1 DEF Backing, CheckpointBacked, IsResumeValid, Belongs
<1>6. Accounted
  BY <1>1 DEF Accounted, SuccessComplete
<1>7. QED
  BY <1>2, <1>3, <1>4, <1>5, <1>6

\* Nothing about the server or the environment is assumed: at every moment a
\* chunk is written by at most one worker, which holds it alone.
THEOREM ExclusiveChunks == Spec => []OneWriterPerChunk
<1>1. Init => Control
  BY TypeInit, RestInit DEF Control
<1>2. Control /\ [Next]_vars => Control'
  BY TypeStep, OwnershipStep, CountsStep DEF Control
<1>3. Control => OneWriterPerChunk
  BY DEF Control, Ownership
<1>4. QED
  BY <1>1, <1>2, <1>3, PTL DEF Spec

\* Within a session no chunk ever goes back, on any server and under any
\* interleaving of retries, failures and cancellations.
THEOREM ProgressKept == Spec => NeverLosesProgress
<1> USE DEF session, memory, ckpt, server, names
<1>1. Init => Control
  BY TypeInit, RestInit DEF Control
<1>2. Control /\ [Next]_vars => Control'
  BY TypeStep, OwnershipStep, CountsStep DEF Control
<1>3. ASSUME Control, [Next]_vars
      PROVE  KeepsProgress
  <2>1. CASE \E w \in Workers : WorkerStep(w)
    BY <1>3, <2>1, CountsWorker DEF Control, KeepsProgress
  <2>2. CASE chunks' = chunks
    <3>1. \A c \in Chunks : chunks[c].downloaded \in Int
      BY <1>3, LayoutFacts DEF Control, TypeOK, ChunkState
    <3>2. QED
      BY <2>2, <3>1 DEF KeepsProgress
  <2>3. CASE PersistOnPause \/ ReturnMultipart \/ Pause \/ UNCHANGED vars
    BY <2>2, <2>3 DEF PersistOnPause, ReturnMultipart, Pause, vars
  <2>4. CASE \/ StartSession \/ InitCheckpoint \/ CleanUp \/ SingleCopy \/ SingleEnd \/ SingleFails
             \/ Crash \/ ServerUpdate
    BY <2>4 DEF StartSession, ResumeSession, OpenFresh, InitCheckpoint, CleanUp, SingleCopy, SingleEnd,
                SingleFails, Crash, ServerUpdate, KeepsProgress
  <2>5. QED
    BY <1>3, <2>1, <2>3, <2>4 DEF Next, CallerStep
<1>4. QED
  BY <1>1, <1>2, <1>3, PTL DEF Spec, NeverLosesProgress

\* The inductive invariant of the data.
LEMMA DataInvariant ==
  ASSUME ~Flapping \/ AutoRename
  PROVE  Spec => []Data
<1>1. Init => Data
  BY TypeInit, RestInit DEF Data, Control
<1>2. Data /\ [Next]_vars => Data'
  BY TypeStep, OwnershipStep, CountsStep, BytesWrittenStep, SessionStep, BackingStep DEF Data, Control
<1>3. QED
  BY <1>1, <1>2, PTL DEF Spec

\* On a server that keeps its headers and does not return to an earlier content,
\* or with AutoRename, every byte a chunk counts is in the file, at its own
\* offset, and of the content being served unless contents were mixed, which
\* happens only to a download that began without an ETag.
THEOREM CountedBytesInFile ==
  ASSUME ~Flapping \/ AutoRename
  PROVE  Spec => []DownloadedOnDisk
<1>1. Data => DownloadedOnDisk
  BY DEF Data, Backing, DownloadedOnDisk, Backed, HasAll, Has
<1>2. QED
  BY <1>1, DataInvariant, PTL

\* Under the same assumption a crash at any point leaves only checkpoints that
\* the file backs, with bytes of the content they were made for.
THEOREM CheckpointsBacked ==
  ASSUME ~Flapping \/ AutoRename
  PROVE  Spec => []CheckpointBacked
<1>1. Data => CheckpointBacked
  BY DEF Data, Backing
<1>2. QED
  BY <1>1, DataInvariant, PTL

\* Under the same assumption, success means that the file is the resource, byte
\* for byte, but for the two losses the code cannot see: a single body that
\* ended early, and contents mixed where the server sent no ETag. TLC finds a
\* counterexample when the assumption is dropped.
THEOREM SuccessMeansComplete ==
  ASSUME ~Flapping \/ AutoRename
  PROVE  Spec => []SuccessComplete
<1>1. Init => Accounted
  BY RestInit
<1>2. Data /\ Accounted /\ [Next]_vars => Accounted'
  BY AccountedStep DEF Data, Control
<1>3. Accounted => SuccessComplete
  BY DEF Accounted
<1>4. QED
  BY <1>1, <1>2, <1>3, DataInvariant, PTL DEF Spec
=============================================================================
