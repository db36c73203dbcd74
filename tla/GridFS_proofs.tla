---------------------------- MODULE GridFS_proofs ----------------------------
(***************************************************************************)
(* Proofs about the two modules of GridFS, for any clients, files, chunk     *)
(* sizes, write concerns and faults.                                        *)
(*                                                                         *)
(* GridStore first.  Every chunk and file carries the number of the store    *)
(* that wrote it, and a store no removal may have touched can only lose      *)
(* what its own client takes back.  The invariant follows a store through    *)
(* its loop: the chunks it has sent are the first n of its bytes, full but    *)
(* for the last, as long as nobody removes and no insert of its own is        *)
(* dropped in silence (Progress), and its file is inserted behind all of      *)
(* them.  A failure of its own ends the store.  A step of one client leaves the *)
(* calls of the others true to this when it is Mild: it takes only its own    *)
(* chunks, or those of ids whose stores are disturbed.                       *)
(***************************************************************************)
EXTENDS GridStore, GridStream, SequenceTheorems, TLAPS

(* The inductive invariant.                                                 *)

Job ==
  [op : {"none", "store", "remove", "drop", "getBytes", "write"},
   pc : {"idle", "source", "gle", "md5", "file", "undo", "next", "find", "chunks", "files", "read"},
   result : {"none", "done", "bytes"}, criteria : SUBSET Ids, by : Nat,
   kind : {"bytes", "file", "pipe"}, len : Nat,
   w : [chunk : {0, 1}, file : {0, 1}, undo : {0, 1}],
   pos : Nat, n : Nat, undo : SUBSET Nat, source : {"more", "end"},
   err : {"none", "refused"}, more : Int, limit : {"one", "all"},
   todo : SUBSET Ids, found : SUBSET Nat, doc : [by : Nat, len : Nat], gap : {"none", "some"},
   silent : BOOLEAN]

StoreRecord == [id : Ids, len : Nat, kind : {"bytes", "file", "pipe"},
          w : [chunk : {0, 1}, file : {0, 1}, undo : {0, 1}]]

Typed ==
  /\ files \in [Ids -> [by : Nat, len : Nat]]
  /\ chunks \subseteq [by : Nat, n : Nat, id : Ids, size : Nat]
  /\ index \in {"none", "unique"}
  /\ link \in [Clients -> {"up", "broken"}]
  /\ job \in [Clients -> Job]
  /\ stores \in Seq(StoreRecord)
  /\ succeeded \subseteq DOMAIN stores /\ disturbed \subseteq DOMAIN stores

\* A store that has not sent its file, and one that may still change chunks.
Sending(j) == j.op = "store" /\ j.pc \in {"source", "gle", "md5", "file"}
Storing(j) == j.op = "store" /\ j.pc # "next"

\* What the files and the other calls know of a store.
Seen(s) ==
  \/ \E i \in Ids : files[i].by = s
  \/ \E c \in Clients : job[c].doc.by = s \/ s \in job[c].found

\* What a store works on is on record as its own, under a number of its own.
StoreOf(j) ==
  j.op = "store" =>
    /\ j.pc \in {"source", "gle", "md5", "file", "undo", "next"}
    /\ j.by \in DOMAIN stores /\ j.criteria = {stores[j.by].id}
    /\ j.len = stores[j.by].len /\ j.kind = stores[j.by].kind /\ j.w = stores[j.by].w
    /\ j.pos <= j.len
    /\ j.pc # "next" => j.by \notin succeeded
    /\ Sending(j) => ~Seen(j.by)
    /\ j.by \in disturbed \/ index = "unique"

OwnNumbers ==
  \A c, d \in Clients :
    job[c].op = "store" /\ job[d].op = "store" /\ job[c].by = job[d].by => c = d

FilesAreStored ==
  \A i \in Ids :
    IF files[i].by = 0 THEN files[i] = NoFile
    ELSE files[i].by \in DOMAIN stores /\ stores[files[i].by].id = i

ChunksAreStored ==
  \A k \in chunks : k.by \in DOMAIN stores /\ k.id = stores[k.by].id /\ k.size <= ChunkSize

\* The index is there for a store that ended well and nothing has disturbed.
Indexed ==
  /\ succeeded \subseteq disturbed \/ index = "unique"
  /\ index = "unique" => \A k, l \in chunks : k.id = l.id /\ k.n = l.n => k = l

\* The first n chunks of a store are there, in full, and hold pos bytes.
Prefix(s, n, pos) ==
  /\ \A m \in 0..(n - 1) : \E k \in chunks : k.by = s /\ k.n = m
  /\ \A k \in chunks : k.by = s =>
       /\ k.n < n /\ (k.n < n - 1 => k.size = ChunkSize)
       /\ k.n = n - 1 => Offset(k.n) + k.size = pos
  /\ n = 0 => pos = 0

\* How far an undisturbed, acknowledged store has come.
Progress(c, j) ==
  j.op = "store" /\ j.by \notin disturbed /\ Acknowledged(j.by) /\ ~j.silent =>
    /\ j.pc = "source" => Prefix(j.by, j.n, j.pos) /\ j.pos = Offset(j.n)
    /\ j.pc = "gle" =>
         /\ Prefix(j.by, j.n, j.pos) \/ j.err = "refused"
         /\ j.kind = "bytes" => Prefix(j.by, j.n, j.pos)
         /\ IF j.kind = "bytes" \/ j.source = "end" THEN j.kind # "pipe" => j.pos = j.len
            ELSE j.pos = Offset(j.n)
    /\ j.pc \in {"md5", "file"} =>
         Prefix(j.by, j.n, j.pos) /\ (j.kind # "pipe" => j.pos = j.len)

Whole(s) ==
  LET file == files[stores[s].id]
  IN  /\ file.by = s /\ (stores[s].kind # "pipe" => file.len = stores[s].len)
      /\ \E n \in Nat : Prefix(s, n, file.len)

\* Nobody knows of a store that did not begin.
KnownStores == \A s : Seen(s) => s = 0 \/ s \in DOMAIN stores

Bounds == faults \in 0..MaxFaults /\ calls \in 0..MaxCalls /\ Len(stores) <= calls

StoresAreWhole ==
  \A s \in succeeded \ disturbed : Acknowledged(s) => Whole(s)

\* A read of such a file is at the place its count of chunks says.
ReaderOf(j) ==
  j.op \in {"getBytes", "write"} =>
    /\ j.pc \in {"read", "idle"} /\ (j.pc = "idle" <=> j.result = "bytes")
    /\ LET s == j.doc.by
       IN  s \in succeeded \ disturbed /\ Acknowledged(s) =>
             /\ j.gap = "none"
             /\ j.pc = "read" =>
                  /\ j.criteria = {stores[s].id} /\ j.doc = files[stores[s].id]
                  /\ j.pos < j.doc.len => j.pos = Offset(j.n)

\* What a removal found is to come or gone, unless a delete was lost in silence.
NoChunks(s) == \A k \in chunks : k.by # s

RemoverOf(c, j) ==
  j.op = "remove" =>
    /\ j.pc \in {"find", "chunks", "files", "idle"} /\ (j.pc = "idle" <=> j.result = "done")
    /\ j.todo \subseteq j.criteria
    /\ j.pc = "find" => j.found = {} /\ j.todo = {}
    /\ j.pc = "files" => j.todo = {}
    /\ j.pc \in {"chunks", "files"} =>
         /\ \A s \in DOMAIN stores : stores[s].id \in j.todo => s \in disturbed
         /\ \A s \in j.found \cap succeeded :
              /\ stores[s].id \in j.criteria
              /\ stores[s].id \in j.todo \/ NoChunks(s) \/ j.silent
              /\ j.limit = "one" => j.criteria = {stores[s].id}
    /\ j.pc = "idle" /\ ~j.silent =>
         \A s \in j.found \cap succeeded : NoChunks(s) /\ files[stores[s].id].by # s

ResultsOf(j) ==
  /\ j.result = "done" => j.op \in {"remove", "drop"} /\ j.pc = "idle"
  /\ j.result = "bytes" => j.op \in {"getBytes", "write"} /\ j.pc = "idle"
  /\ j.op = "none" => j.found = {} /\ j.doc = NoFile
  /\ j.op # "remove" => j.todo = {}
  /\ j.op = "drop" /\ j.pc # "idle" => j.criteria = Ids

JobInv(c, j) ==
  StoreOf(j) /\ Progress(c, j) /\ ReaderOf(j) /\ RemoverOf(c, j) /\ ResultsOf(j)

WorldInv ==
  /\ Typed /\ OwnNumbers /\ FilesAreStored /\ ChunksAreStored /\ Indexed
  /\ KnownStores /\ Bounds /\ StoresAreWhole

Invariant == WorldInv /\ \A c \in Clients : JobInv(c, job[c])


-----------------------------------------------------------------------------
(* A step of a client as the others see it.                                 *)

\* Nobody else moves, and what the client changes is its own or disturbed.
Mild(c) ==
  /\ \A d \in Clients : d # c => job'[d] = job[d] /\ link'[d] = link[d]
  /\ DOMAIN stores \subseteq DOMAIN stores'
  /\ \A s \in DOMAIN stores : stores'[s] = stores[s]
  /\ disturbed \subseteq disturbed' /\ succeeded \subseteq succeeded'
  /\ \A s \in succeeded' : s \in succeeded \/ (Sending(job[c]) /\ job[c].by = s)
  /\ \A k \in chunks' : k \in chunks \/ (Sending(job[c]) /\ k.by = job[c].by)
  /\ \A k \in chunks :
       k \in chunks' \/ k.by \in disturbed' \/ (Storing(job[c]) /\ k.by = job[c].by)
  /\ \A i \in Ids :
       \/ files'[i] = files[i]
       \/ files[i] = NoFile /\ Sending(job[c]) /\ files'[i].by = job[c].by
       \/ files'[i] = NoFile /\ files[i].by \in disturbed'
  /\ \A s \in DOMAIN stores' :
       s \in DOMAIN stores \/ (BeingRemoved(stores'[s].id) => s \in disturbed')
  /\ index' \in {index, "unique"} \/ DOMAIN stores \subseteq disturbed'
  /\ \A s : job'[c].doc.by = s \/ s \in job'[c].found => s = 0 \/ Seen(s)

LEMMA StoreFields ==
  ASSUME Typed, NEW s \in DOMAIN stores
  PROVE  /\ stores[s] \in StoreRecord /\ stores[s].id \in Ids /\ stores[s].len \in Nat
         /\ stores[s].kind \in {"bytes", "file", "pipe"}
         /\ stores[s].w.chunk \in {0, 1} /\ stores[s].w.file \in {0, 1} /\ stores[s].w.undo \in {0, 1}
<1>1. stores[s] \in StoreRecord
  BY DEF Typed
<1> QED
  BY <1>1 DEF StoreRecord

LEMMA StoreNumbers ==
  ASSUME Typed
  PROVE  DOMAIN stores = 1..Len(stores) /\ Len(stores) \in Nat /\ 0 \notin DOMAIN stores
BY DEF Typed

\* Only a store that sends makes itself known.
LEMMA SeenStays ==
  ASSUME NEW c \in Clients, Mild(c), NEW s, s # 0, ~(Sending(job[c]) /\ job[c].by = s),
         Seen(s)'
  PROVE  Seen(s)
<1>1. CASE \E i \in Ids : files'[i].by = s
  <2>1. PICK i \in Ids : files'[i].by = s
    BY <1>1
  <2>2. files'[i] = files[i]
    BY <2>1 DEF Mild, NoFile
  <2> QED
    BY <2>1, <2>2 DEF Seen
<1>2. CASE \E e \in Clients : job'[e].doc.by = s \/ s \in job'[e].found
  <2>1. PICK e \in Clients : job'[e].doc.by = s \/ s \in job'[e].found
    BY <1>2
  <2>2. CASE e = c
    BY <2>1, <2>2 DEF Mild
  <2>3. CASE e # c
    BY <2>1, <2>3 DEF Mild, Seen
  <2> QED
    BY <2>2, <2>3
<1> QED
  BY <1>1, <1>2 DEF Seen

LEMMA OthersStore ==
  ASSUME Invariant, NEW c \in Clients, Mild(c), NEW d \in Clients, d # c
  PROVE  StoreOf(job[d])'
<1> PICK b : b = job[d].by
  OBVIOUS
<1>1. job'[d] = job[d]
  BY DEF Mild
<1>2. StoreOf(job[d]) /\ WorldInv
  BY DEF Invariant, JobInv
<1>3. SUFFICES ASSUME job[d].op = "store"
               PROVE  /\ b \in DOMAIN stores' /\ stores'[b] = stores[b]
                      /\ b \notin succeeded => b \notin succeeded'
                      /\ ~Seen(b) => ~Seen(b)'
                      /\ b \in disturbed \/ index = "unique" => b \in disturbed' \/ index' = "unique"
  BY <1>1, <1>2 DEF StoreOf, Sending, Mild
<1>4. b \in DOMAIN stores /\ b # 0
  BY <1>2, <1>3, StoreNumbers DEF StoreOf, WorldInv
<1>5. b \in DOMAIN stores' /\ stores'[b] = stores[b]
  BY <1>4 DEF Mild
<1>6. ~(Sending(job[c]) /\ job[c].by = b)
  BY <1>2, <1>3 DEF Sending, WorldInv, OwnNumbers
<1>7. b \notin succeeded => b \notin succeeded'
  BY <1>6 DEF Mild
<1>8. ~Seen(b) => ~Seen(b)'
  BY <1>4, <1>6, SeenStays
<1>9. b \in disturbed \/ index = "unique" => b \in disturbed' \/ index' = "unique"
  BY <1>4 DEF Mild
<1> QED
  BY <1>5, <1>7, <1>8, <1>9

\* The chunks of a store that is not the one at work stay until it is disturbed.
LEMMA PrefixStays ==
  ASSUME NEW c \in Clients, Mild(c), NEW s, NEW n, NEW pos, s \notin disturbed',
         ~(Storing(job[c]) /\ job[c].by = s)
  PROVE  Prefix(s, n, pos) => Prefix(s, n, pos)'
<1>1. \A k : k.by = s => (k \in chunks <=> k \in chunks')
  BY DEF Mild, Sending, Storing
<1> QED
  BY <1>1 DEF Prefix, Offset

LEMMA OthersProgress ==
  ASSUME Invariant, NEW c \in Clients, Mild(c), NEW d \in Clients, d # c
  PROVE  Progress(d, job[d])'
<1> PICK b, n, pos : b = job[d].by /\ n = job[d].n /\ pos = job[d].pos
  OBVIOUS
<1>1. job'[d] = job[d] /\ link'[d] = link[d]
  BY DEF Mild
<1>2. StoreOf(job[d]) /\ Progress(d, job[d]) /\ WorldInv
  BY DEF Invariant, JobInv
<1>3. SUFFICES ASSUME job[d].op = "store", b \notin disturbed'
               PROVE  /\ b \notin disturbed
                      /\ Prefix(b, n, pos) => Prefix(b, n, pos)'
                      /\ Acknowledged(b)' => Acknowledged(b)
  BY <1>1, <1>2 DEF Progress, Offset
<1>4. b \in DOMAIN stores /\ b \notin disturbed
  BY <1>2, <1>3 DEF StoreOf, Mild
<1>5. ~(Storing(job[c]) /\ job[c].by = b)
  BY <1>2, <1>3 DEF Storing, WorldInv, OwnNumbers
<1>6. Prefix(b, n, pos) => Prefix(b, n, pos)'
  BY <1>3, <1>5, PrefixStays
<1>7. Acknowledged(b)' => Acknowledged(b)
  BY <1>4 DEF Acknowledged, Mild
<1> QED
  BY <1>4, <1>6, <1>7

\* What is known of a store is known of it before it ends well, or after.
LEMMA SucceededBefore ==
  ASSUME Invariant, NEW c \in Clients, Mild(c), NEW s, s # 0, Seen(s)
  PROVE  s \in succeeded' <=> s \in succeeded
<1>1. ~(Sending(job[c]) /\ job[c].by = s)
  BY DEF Invariant, JobInv, StoreOf, Sending
<1> QED
  BY <1>1 DEF Mild

LEMMA SeenBy ==
  ASSUME NEW d \in Clients, NEW s, job[d].doc.by = s \/ s \in job[d].found
  PROVE  Seen(s)
BY DEF Seen

\* A store that ended well and is not disturbed keeps its file.
LEMMA FileStays ==
  ASSUME Invariant, NEW c \in Clients, Mild(c), NEW s \in succeeded, s \notin disturbed',
         Acknowledged(s)
  PROVE  files'[stores[s].id] = files[stores[s].id] /\ files[stores[s].id].by = s
<1>1. s \in DOMAIN stores /\ s # 0 /\ s \notin disturbed /\ stores[s].id \in Ids
  BY StoreNumbers, StoreFields DEF Invariant, WorldInv, Typed, Mild
<1>2. files[stores[s].id].by = s
  BY <1>1 DEF Invariant, WorldInv, StoresAreWhole, Whole
<1> QED
  BY <1>1, <1>2 DEF Mild, NoFile

LEMMA OthersReader ==
  ASSUME Invariant, NEW c \in Clients, Mild(c), NEW d \in Clients, d # c
  PROVE  ReaderOf(job[d])'
<1> PICK s : s = job[d].doc.by
  OBVIOUS
<1>1. job'[d] = job[d]
  BY DEF Mild
<1>2. ReaderOf(job[d]) /\ WorldInv
  BY DEF Invariant, JobInv
<1>3. ASSUME s \in succeeded' \ disturbed', Acknowledged(s)'
      PROVE  /\ s \in succeeded \ disturbed /\ Acknowledged(s)
             /\ stores'[s] = stores[s] /\ files'[stores[s].id] = files[stores[s].id]
  <2>2. Seen(s)
    BY SeenBy
  <2>3. 0 \notin succeeded'
    <3>1. 0 \notin succeeded
      BY <1>2, StoreNumbers DEF WorldInv, Typed
    <3>2. Sending(job[c]) => job[c].by # 0
      BY <1>2, StoreNumbers DEF Invariant, JobInv, StoreOf, Sending, WorldInv
    <3> QED
      BY <3>1, <3>2 DEF Mild
  <2>4. s \in succeeded
    BY <1>3, <2>2, <2>3, SucceededBefore
  <2>5. s \in DOMAIN stores
    BY <1>2, <2>4 DEF WorldInv, Typed
  <2>6. stores'[s] = stores[s] /\ Acknowledged(s)
    BY <1>3, <2>5 DEF Mild, Acknowledged
  <2> QED
    BY <1>3, <2>4, <2>6, FileStays DEF Mild
<1> QED
  BY <1>1, <1>2, <1>3 DEF ReaderOf, Offset

LEMMA OthersRemover ==
  ASSUME Invariant, NEW c \in Clients, Mild(c), NEW d \in Clients, d # c
  PROVE  RemoverOf(d, job[d])'
<1>1. job'[d] = job[d] /\ link'[d] = link[d]
  BY DEF Mild
<1>2. RemoverOf(d, job[d]) /\ WorldInv
  BY DEF Invariant, JobInv
<1>3. ASSUME NEW s \in job[d].found \cap succeeded'
      PROVE  /\ s \in succeeded /\ stores'[s] = stores[s] /\ stores[s].id \in Ids
             /\ NoChunks(s) => NoChunks(s)'
             /\ files[stores[s].id].by # s => files'[stores[s].id].by # s
  <2>1. s # 0
    <3>1. 0 \notin succeeded
      BY <1>2, StoreNumbers DEF WorldInv, Typed
    <3>2. Sending(job[c]) => job[c].by # 0
      BY <1>2, StoreNumbers DEF Invariant, JobInv, StoreOf, Sending, WorldInv
    <3> QED
      BY <3>1, <3>2 DEF Mild
  <2>2. s \in succeeded
    BY <2>1, SeenBy, SucceededBefore
  <2>3. s \in DOMAIN stores /\ stores'[s] = stores[s] /\ stores[s].id \in Ids
    BY <1>2, <2>2, StoreFields DEF WorldInv, Typed, Mild
  <2>4. ~(Sending(job[c]) /\ job[c].by = s)
    BY <2>2 DEF Invariant, JobInv, StoreOf, Sending
  <2>5. NoChunks(s) => NoChunks(s)'
    BY <2>4 DEF NoChunks, Mild
  <2>6. files[stores[s].id].by # s => files'[stores[s].id].by # s
    BY <2>1, <2>3, <2>4 DEF Mild, NoFile
  <2> QED
    BY <2>2, <2>3, <2>5, <2>6
<1>4. ASSUME job[d].op = "remove", job[d].pc \in {"chunks", "files"}, NEW s \in DOMAIN stores',
             stores'[s].id \in job[d].todo
      PROVE  s \in disturbed'
  <2>1. CASE s \in DOMAIN stores
    BY <1>2, <1>4, <2>1 DEF RemoverOf, Mild
  <2>2. CASE s \notin DOMAIN stores
    <3>1. BeingRemoved(stores'[s].id)
      BY <1>2, <1>4 DEF RemoverOf, BeingRemoved
    <3> QED
      BY <2>2, <3>1 DEF Mild
  <2> QED
    BY <2>1, <2>2
<1>5. SUFFICES ASSUME job[d].op = "remove"
               PROVE  RemoverOf(d, job[d])'
  BY <1>1 DEF RemoverOf
<1>6. job[d].pc \in {"chunks", "files"} =>
        /\ \A s \in DOMAIN stores' : stores'[s].id \in job[d].todo => s \in disturbed'
        /\ \A s \in job[d].found \cap succeeded' :
             /\ stores'[s].id \in job[d].criteria
             /\ stores'[s].id \in job[d].todo \/ NoChunks(s)' \/ job[d].silent
             /\ job[d].limit = "one" => job[d].criteria = {stores'[s].id}
  BY <1>1, <1>2, <1>3, <1>4, <1>5 DEF RemoverOf
<1>7. job[d].pc = "idle" /\ ~job[d].silent =>
        \A s \in job[d].found \cap succeeded' : NoChunks(s)' /\ files'[stores'[s].id].by # s
  BY <1>2, <1>3, <1>5 DEF RemoverOf
<1> QED
  BY <1>1, <1>2, <1>5, <1>6, <1>7 DEF RemoverOf

LEMMA OthersKeep ==
  ASSUME Invariant, NEW c \in Clients, Mild(c)
  PROVE  \A d \in Clients : d # c => JobInv(d, job[d])'
<1> SUFFICES ASSUME NEW d \in Clients, d # c
             PROVE  JobInv(d, job[d])'
  OBVIOUS
<1>1. ResultsOf(job[d])'
  BY DEF Invariant, JobInv, Mild, ResultsOf, NoFile
<1> QED
  BY <1>1, OthersStore, OthersProgress, OthersReader, OthersRemover DEF JobInv

LEMMA WholeStays ==
  ASSUME Invariant, NEW c \in Clients, Mild(c),
         \A s \in succeeded' \ succeeded : s \in disturbed' \/ ~Acknowledged(s)' \/ Whole(s)'
  PROVE  StoresAreWhole'
<1> SUFFICES ASSUME NEW s \in succeeded' \ disturbed', Acknowledged(s)'
             PROVE  Whole(s)'
  BY DEF StoresAreWhole
<1>1. CASE s \notin succeeded
  BY <1>1
<1>2. CASE s \in succeeded
  <2>1. s \in DOMAIN stores /\ stores'[s] = stores[s] /\ Acknowledged(s)
    BY <1>2 DEF Invariant, WorldInv, Typed, Mild, Acknowledged
  <2>2. Whole(s)
    BY <1>2, <2>1 DEF Invariant, WorldInv, StoresAreWhole, Mild
  <2>3. files'[stores[s].id] = files[stores[s].id]
    BY <1>2, <2>1, FileStays
  <2>4. ~(Storing(job[c]) /\ job[c].by = s)
    BY <1>2 DEF Invariant, JobInv, StoreOf, Storing
  <2>5. PICK n \in Nat : Prefix(s, n, files[stores[s].id].len)
    BY <2>2 DEF Whole
  <2>6. PICK len : len = files[stores[s].id].len
    OBVIOUS
  <2>7. Prefix(s, n, len)'
    BY <2>4, <2>5, <2>6, PrefixStays
  <2>8. files'[stores'[s].id].len = len
    BY <2>1, <2>3, <2>6
  <2>9. \E m \in Nat : Prefix(s, m, files[stores[s].id].len)'
    BY <2>7, <2>8
  <2> QED
    BY <2>1, <2>2, <2>3, <2>9 DEF Whole
<1> QED
  BY <1>1, <1>2


-----------------------------------------------------------------------------
(* What the steps have in common.                                           *)

\* What a step of a client has to show for the invariant to hold after it.
Step(c) ==
  /\ Typed' /\ OwnNumbers' /\ FilesAreStored' /\ ChunksAreStored' /\ Indexed' /\ Bounds'
  /\ Mild(c) /\ JobInv(c, job[c])'
  /\ \A s \in succeeded' \ succeeded : s \in disturbed' \/ ~Acknowledged(s)' \/ Whole(s)'

LEMMA StepKeeps ==
  ASSUME Invariant, NEW c \in Clients, Step(c)
  PROVE  Invariant'
<1>1. \A d \in Clients : JobInv(d, job[d])'
  <2> SUFFICES ASSUME NEW d \in Clients
               PROVE  JobInv(d, job[d])'
    OBVIOUS
  <2>1. CASE d = c
    BY <2>1 DEF Step
  <2>2. CASE d # c
    BY <2>2, OthersKeep DEF Step
  <2> QED
    BY <2>1, <2>2
<1>2. KnownStores'
  <2> SUFFICES ASSUME NEW s, Seen(s)', s # 0
               PROVE  s \in DOMAIN stores'
    BY DEF KnownStores
  <2>1. CASE Sending(job[c]) /\ job[c].by = s
    BY <2>1 DEF Invariant, JobInv, StoreOf, Sending, Step, Mild
  <2>2. CASE ~(Sending(job[c]) /\ job[c].by = s)
    BY <2>2, SeenStays DEF Step, Invariant, WorldInv, KnownStores, Mild
  <2> QED
    BY <2>1, <2>2
<1>3. StoresAreWhole'
  BY WholeStays DEF Step
<1> QED
  BY <1>1, <1>2, <1>3 DEF Invariant, WorldInv, Step

LEMMA ExchangeFacts ==
  ASSUME Typed, NEW c \in Clients, NEW w, NEW o, Exchange(c, w, o)
  PROVE  /\ link' \in [Clients -> {"up", "broken"}]
         /\ \A d \in Clients : d # c => link'[d] = link[d]
         /\ o \in Outcomes /\ (w = Command => ~Silent(o))
         /\ o = "refused" => w = 0
         /\ o = "lost" => w # 0
         /\ Bounds => faults' \in 0..MaxFaults
<1>1. MaxFaults \in Nat
  BY ParameterAssumption
<1>2. /\ link' \in [Clients -> {"up", "broken"}]
      /\ \A d \in Clients : d # c => link'[d] = link[d]
  BY DEF Typed, Exchange
<1>3. /\ o \in Outcomes /\ (w = Command => ~Silent(o))
      /\ o = "refused" => w = 0
      /\ o = "lost" => w # 0
  BY DEF Exchange, Outcomes, Command, Silent
<1>4. faults' = faults \/ (faults < MaxFaults /\ faults' = faults + 1)
  BY DEF Exchange
<1>5. Bounds => faults' \in 0..MaxFaults
  BY <1>1, <1>4 DEF Bounds
<1> QED
  BY <1>2, <1>3, <1>5

LEMMA ConcernFacts ==
  ASSUME NEW concern \in [db : {0, 1}, option : {0, 1, 2}]
  PROVE  WriteConcern(concern) \in [chunk : {0, 1}, file : {0, 1}, undo : {0, 1}]
BY DEF WriteConcern

LEMMA IdleTyped == Idle \in Job
BY DEF Idle, Job, NoFile

LEMMA JobFields ==
  ASSUME Typed, NEW c \in Clients
  PROVE  /\ job[c] \in Job
         /\ job[c].by \in Nat /\ job[c].n \in Nat /\ job[c].pos \in Nat /\ job[c].len \in Nat
         /\ job[c].criteria \subseteq Ids /\ job[c].todo \subseteq Ids /\ job[c].undo \subseteq Nat
         /\ job[c].found \subseteq Nat /\ job[c].doc \in [by : Nat, len : Nat]
         /\ job[c].w.chunk \in {0, 1} /\ job[c].w.file \in {0, 1} /\ job[c].w.undo \in {0, 1}
         /\ job[c].kind \in {"bytes", "file", "pipe"}
         /\ job[c].op \in {"none", "store", "remove", "drop", "getBytes", "write"}
         /\ job[c].limit \in {"one", "all"} /\ job[c].err \in {"none", "refused"}
         /\ job[c].source \in {"more", "end"} /\ job[c].silent \in BOOLEAN
<1>1. job[c] \in Job
  BY DEF Typed
<1> QED
  BY <1>1 DEF Job

\* A job of which one field changes.
LEMMA JobExcept ==
  ASSUME NEW j \in Job
  PROVE  /\ \A x \in {"none", "store", "remove", "drop", "getBytes", "write"} : [j EXCEPT !.op = x] \in Job
         /\ \A x \in {"idle", "source", "gle", "md5", "file", "undo", "next", "find", "chunks", "files", "read"} :
              [j EXCEPT !.pc = x] \in Job
         /\ \A x \in {"none", "done", "bytes"} : [j EXCEPT !.result = x] \in Job
         /\ \A x \in SUBSET Ids : [j EXCEPT !.criteria = x] \in Job
         /\ \A x \in Nat : [j EXCEPT !.by = x] \in Job
         /\ \A x \in {"bytes", "file", "pipe"} : [j EXCEPT !.kind = x] \in Job
         /\ \A x \in Nat : [j EXCEPT !.len = x] \in Job
         /\ \A x \in [chunk : {0, 1}, file : {0, 1}, undo : {0, 1}] : [j EXCEPT !.w = x] \in Job
         /\ \A x \in Nat : [j EXCEPT !.pos = x] \in Job
         /\ \A x \in Nat : [j EXCEPT !.n = x] \in Job
         /\ \A x \in SUBSET Nat : [j EXCEPT !.undo = x] \in Job
         /\ \A x \in {"more", "end"} : [j EXCEPT !.source = x] \in Job
         /\ \A x \in {"none", "refused"} : [j EXCEPT !.err = x] \in Job
         /\ \A x \in Int : [j EXCEPT !.more = x] \in Job
         /\ \A x \in {"one", "all"} : [j EXCEPT !.limit = x] \in Job
         /\ \A x \in SUBSET Ids : [j EXCEPT !.todo = x] \in Job
         /\ \A x \in SUBSET Nat : [j EXCEPT !.found = x] \in Job
         /\ \A x \in [by : Nat, len : Nat] : [j EXCEPT !.doc = x] \in Job
         /\ \A x \in {"none", "some"} : [j EXCEPT !.gap = x] \in Job
<1>1. ASSUME NEW x \in {"none", "store", "remove", "drop", "getBytes", "write"}
      PROVE  [j EXCEPT !.op = x] \in Job
  BY DEF Job
<1>2. ASSUME NEW x \in {"idle", "source", "gle", "md5", "file", "undo", "next", "find", "chunks", "files",
                 "read"}
      PROVE  [j EXCEPT !.pc = x] \in Job
  BY DEF Job
<1>3. ASSUME NEW x \in {"none", "done", "bytes"} PROVE [j EXCEPT !.result = x] \in Job
  BY DEF Job
<1>4. ASSUME NEW x \in SUBSET Ids PROVE [j EXCEPT !.criteria = x] \in Job
  BY DEF Job
<1>5. ASSUME NEW x \in Nat PROVE [j EXCEPT !.by = x] \in Job
  BY DEF Job
<1>6. ASSUME NEW x \in {"bytes", "file", "pipe"} PROVE [j EXCEPT !.kind = x] \in Job
  BY DEF Job
<1>7. ASSUME NEW x \in Nat PROVE [j EXCEPT !.len = x] \in Job
  BY DEF Job
<1>8. ASSUME NEW x \in [chunk : {0, 1}, file : {0, 1}, undo : {0, 1}] PROVE [j EXCEPT !.w = x] \in Job
  BY DEF Job
<1>9. ASSUME NEW x \in Nat PROVE [j EXCEPT !.pos = x] \in Job
  BY DEF Job
<1>10. ASSUME NEW x \in Nat PROVE [j EXCEPT !.n = x] \in Job
  BY DEF Job
<1>11. ASSUME NEW x \in SUBSET Nat PROVE [j EXCEPT !.undo = x] \in Job
  BY DEF Job
<1>12. ASSUME NEW x \in {"more", "end"} PROVE [j EXCEPT !.source = x] \in Job
  BY DEF Job
<1>13. ASSUME NEW x \in {"none", "refused"} PROVE [j EXCEPT !.err = x] \in Job
  BY DEF Job
<1>14. ASSUME NEW x \in Int PROVE [j EXCEPT !.more = x] \in Job
  BY DEF Job
<1>15. ASSUME NEW x \in {"one", "all"} PROVE [j EXCEPT !.limit = x] \in Job
  BY DEF Job
<1>16. ASSUME NEW x \in SUBSET Ids PROVE [j EXCEPT !.todo = x] \in Job
  BY DEF Job
<1>17. ASSUME NEW x \in SUBSET Nat PROVE [j EXCEPT !.found = x] \in Job
  BY DEF Job
<1>18. ASSUME NEW x \in [by : Nat, len : Nat] PROVE [j EXCEPT !.doc = x] \in Job
  BY DEF Job
<1>19. ASSUME NEW x \in {"none", "some"} PROVE [j EXCEPT !.gap = x] \in Job
  BY DEF Job
<1> QED
  BY <1>1, <1>2, <1>3, <1>4, <1>5, <1>6, <1>7, <1>8, <1>9,
     <1>10, <1>11, <1>12, <1>13, <1>14, <1>15, <1>16, <1>17, <1>18, <1>19

LEMMA JobSilent ==
  ASSUME NEW j \in Job, NEW x \in BOOLEAN
  PROVE  [j EXCEPT !.silent = x] \in Job
BY DEF Job

LEMMA ReturnedFacts ==
  ASSUME NEW j \in Job, NEW what
  PROVE  /\ Returned(j, what) \in Job
         /\ what \notin {"done", "bytes"} => Returned(j, what) = Idle
         /\ what \in {"done", "bytes"} =>
              LET r == Returned(j, what)
              IN  /\ r.op = j.op /\ r.pc = "idle" /\ r.result = what /\ r.silent = j.silent
                  /\ r.found = j.found /\ r.doc = j.doc /\ r.gap = j.gap
                  /\ r.todo = {} /\ r.criteria = {}
<1>1. CASE what \in {"done", "bytes"}
  <2>1. Returned(j, what) = [Idle EXCEPT !.op = j.op, !.result = what, !.found = j.found,
                                         !.doc = j.doc, !.gap = j.gap, !.silent = j.silent]
    BY <1>1 DEF Returned
  <2>2. Returned(j, what) \in Job
    <3>1. /\ j.op \in {"none", "store", "remove", "drop", "getBytes", "write"}
          /\ j.silent \in BOOLEAN
          /\ j.found \in SUBSET Nat /\ j.doc \in [by : Nat, len : Nat] /\ j.gap \in {"none", "some"}
      BY DEF Job
    <3>2. what \in {"none", "done", "bytes"}
      BY <1>1
    <3>3. [Idle EXCEPT !.op = j.op, !.result = what, !.found = j.found] \in Job
      BY <3>1, <3>2, IdleTyped, JobExcept
    <3>4. PICK r \in Job : r = [Idle EXCEPT !.op = j.op, !.result = what, !.found = j.found]
      BY <3>3
    <3>5. PICK t \in Job : t = [r EXCEPT !.doc = j.doc, !.gap = j.gap]
      BY <3>1, JobExcept
    <3>6. [t EXCEPT !.silent = j.silent] \in Job
      BY <3>1, JobSilent
    <3> QED
      BY <2>1, <3>4, <3>5, <3>6
  <2>3. /\ Returned(j, what).op = j.op /\ Returned(j, what).pc = "idle"
        /\ Returned(j, what).result = what /\ Returned(j, what).silent = j.silent
        /\ Returned(j, what).found = j.found /\ Returned(j, what).doc = j.doc
        /\ Returned(j, what).gap = j.gap /\ Returned(j, what).todo = {}
        /\ Returned(j, what).criteria = {}
    BY <2>1 DEF Idle
  <2> QED
    BY <1>1, <2>2, <2>3
<1>2. CASE what \notin {"done", "bytes"}
  BY <1>2, IdleTyped DEF Returned
<1> QED
  BY <1>1, <1>2

LEMMA RevertFacts ==
  ASSUME NEW j \in Job
  PROVE  /\ Revert(j) \in Job
         /\ Revert(j) = Idle \/ Revert(j) = [j EXCEPT !.pc = "undo"]
<1>1. CASE j.undo = {}
  BY <1>1, ReturnedFacts DEF Revert
<1>2. CASE j.undo # {}
  BY <1>2 DEF Revert, Job
<1> QED
  BY <1>1, <1>2

LEMMA GoesFacts ==
  ASSUME Typed, NEW c \in Clients, NEW j \in Job, Goes(c, j)
  PROVE  /\ job' \in [Clients -> Job] /\ job'[c] = j
         /\ \A d \in Clients : d # c => job'[d] = job[d]
BY DEF Typed, Goes

\* A call that has returned without anything to keep.
LEMMA IdleFine ==
  ASSUME NEW c \in Clients, job'[c] = Idle
  PROVE  JobInv(c, job[c])'
BY DEF JobInv, StoreOf, Progress, ReaderOf, RemoverOf, ResultsOf, Idle

\* A store goes on under the number it has, a new one under a number of its own.
LEMMA NumbersStay ==
  ASSUME OwnNumbers, NEW c \in Clients, \A d \in Clients : d # c => job'[d] = job[d],
         job'[c].op = "store" =>
           \/ job[c].op = "store" /\ job[c].by = job'[c].by
           \/ \A d \in Clients : job[d].op = "store" => job[d].by # job'[c].by
  PROVE  OwnNumbers'
BY DEF OwnNumbers

\* A step that changes neither the collections nor the history.
LEMMA QuietStep ==
  ASSUME Invariant, NEW c \in Clients, NEW j \in Job, Goes(c, j),
         link' \in [Clients -> {"up", "broken"}],
         \A d \in Clients : d # c => link'[d] = link[d],
         UNCHANGED <<files, chunks, index, stores, succeeded>>,
         disturbed \subseteq disturbed', disturbed' \subseteq DOMAIN stores, Bounds',
         j.op = "store" => job[c].op = "store" /\ job[c].by = j.by,
         \A s : j.doc.by = s \/ s \in j.found => s = 0 \/ Seen(s)
  PROVE  JobInv(c, job[c])' => Step(c)
<1>1. WorldInv
  BY DEF Invariant
<1>2. job' \in [Clients -> Job] /\ job'[c] = j /\ \A d \in Clients : d # c => job'[d] = job[d]
  BY <1>1, GoesFacts DEF WorldInv
<1>3. Typed'
  BY <1>1, <1>2 DEF WorldInv, Typed
<1>4. OwnNumbers'
  BY <1>1, <1>2, NumbersStay DEF WorldInv
<1>5. FilesAreStored' /\ ChunksAreStored' /\ Indexed'
  BY <1>1 DEF WorldInv, FilesAreStored, ChunksAreStored, Indexed
<1>6. Mild(c)
  BY <1>2 DEF Mild
<1> QED
  BY <1>3, <1>4, <1>5, <1>6 DEF Step


-----------------------------------------------------------------------------
(* The steps of a store.                                                    *)

\* A store at work, in the words of the invariant.
LEMMA StoreFacts ==
  ASSUME Invariant, NEW c \in Clients, job[c].op = "store"
  PROVE  /\ WorldInv /\ Typed /\ StoreOf(job[c]) /\ Progress(c, job[c])
         /\ job[c].by \in DOMAIN stores /\ job[c].by \in Nat /\ job[c].by # 0
         /\ stores[job[c].by].id \in Ids /\ job[c].criteria = {stores[job[c].by].id}
         /\ job[c].result = "none" /\ job[c].pc \notin {"idle", "find", "chunks", "files", "read"}
         /\ job[c].todo = {}
<1>1. WorldInv /\ Typed /\ StoreOf(job[c]) /\ Progress(c, job[c]) /\ ResultsOf(job[c])
  BY DEF Invariant, WorldInv, JobInv
<1>2. job[c].result \in {"none", "done", "bytes"}
  BY <1>1 DEF Typed, Job
<1>3. job[c].by \in DOMAIN stores /\ job[c].by \in Nat /\ job[c].by # 0
  BY <1>1, StoreNumbers DEF StoreOf
<1> QED
  BY <1>1, <1>2, <1>3, StoreFields DEF StoreOf, ResultsOf

\* A store that goes on as it was, further down its steps.
LEMMA StoreGoesOn ==
  ASSUME Invariant, NEW c \in Clients, job[c].op = "store", UNCHANGED <<stores, index>>,
         disturbed \subseteq disturbed',
         NEW j \in Job, job'[c] = j, j.op = "store", j.by = job[c].by,
         j.criteria = job[c].criteria, j.len = job[c].len, j.kind = job[c].kind,
         j.w = job[c].w, j.result = job[c].result, j.todo = job[c].todo, j.pos <= j.len,
         j.pc \in {"source", "gle", "md5", "file", "undo", "next"},
         j.pc # "next" => UNCHANGED succeeded /\ job[c].pc # "next",
         Sending(j) => Sending(job[c]) /\ (~Seen(job[c].by) => ~Seen(job[c].by)'),
         Progress(c, job[c])'
  PROVE  JobInv(c, job[c])'
<1>1. StoreOf(job[c])'
  BY StoreFacts DEF StoreOf, Sending
<1>2. ReaderOf(job[c])' /\ RemoverOf(c, job[c])'
  BY DEF ReaderOf, RemoverOf
<1>3. ResultsOf(job[c])'
  BY StoreFacts DEF ResultsOf
<1> QED
  BY <1>1, <1>2, <1>3 DEF JobInv

\* What a failure leaves: nothing, or the chunks to take back.
LEMMA RevertFine ==
  ASSUME Invariant, NEW c \in Clients, job[c].op = "store", UNCHANGED <<stores, index, succeeded>>,
         disturbed \subseteq disturbed', job[c].pc # "next",
         job'[c] = Idle \/ job'[c] = [job[c] EXCEPT !.pc = "undo"]
  PROVE  JobInv(c, job[c])'
<1>1. CASE job'[c] = Idle
  BY <1>1, IdleFine
<1>2. CASE job'[c] = [job[c] EXCEPT !.pc = "undo"]
  <2> PICK j : j = [job[c] EXCEPT !.pc = "undo"]
    OBVIOUS
  <2>1. job[c] \in Job
    BY JobFields, StoreFacts
  <2>2. /\ j \in Job /\ job'[c] = j /\ j.pc = "undo" /\ j.op = "store" /\ j.by = job[c].by
        /\ j.criteria = job[c].criteria /\ j.len = job[c].len /\ j.kind = job[c].kind
        /\ j.w = job[c].w /\ j.result = job[c].result /\ j.todo = job[c].todo
        /\ j.pos = job[c].pos
    BY <1>2, <2>1 DEF Job
  <2>3. Progress(c, job[c])' /\ ~Sending(j)
    BY <2>2 DEF Progress, Sending
  <2>4. job[c].pos <= job[c].len
    BY StoreFacts DEF StoreOf
  <2> QED
    BY <2>2, <2>3, <2>4, StoreGoesOn
<1> QED
  BY <1>1, <1>2


\* Nobody learns of a store from a step that leaves files and finds alone.
LEMMA SeenSame ==
  ASSUME NEW c \in Clients, UNCHANGED files, \A d \in Clients : d # c => job'[d] = job[d],
         job'[c].doc = job[c].doc, job'[c].found = job[c].found, NEW b, Seen(b)'
  PROVE  Seen(b)
<1>1. ASSUME NEW i \in Ids, files'[i].by = b
      PROVE  Seen(b)
  BY <1>1 DEF Seen
<1>2. ASSUME NEW e \in Clients, job'[e].doc.by = b \/ b \in job'[e].found
      PROVE  Seen(b)
  <2>1. job'[e].doc = job[e].doc /\ job'[e].found = job[e].found
    OBVIOUS
  <2> QED
    BY <1>2, <2>1 DEF Seen
<1> QED
  BY <1>1, <1>2 DEF Seen

\* Nothing of the world changes but the links, and a failed store turns back.
LEMMA QuietRevert ==
  ASSUME Invariant, NEW c \in Clients, job[c].op = "store", job[c].pc # "next",
         Goes(c, Revert(job[c])) \/ Goes(c, Idle),
         link' \in [Clients -> {"up", "broken"}],
         \A d \in Clients : d # c => link'[d] = link[d],
         UNCHANGED server, UNCHANGED history, Bounds'
  PROVE  Step(c)
<1>1. job[c] \in Job
  BY JobFields, StoreFacts
<1>2. PICK j \in Job : Goes(c, j) /\ (j = Idle \/ j = [job[c] EXCEPT !.pc = "undo"])
  BY <1>1, RevertFacts, IdleTyped
<1>3. job'[c] = j
  BY <1>2, StoreFacts, GoesFacts
<1>4. JobInv(c, job[c])'
  BY <1>2, <1>3, RevertFine DEF server, history
<1>5. /\ j.op = "store" => j.by = job[c].by
      /\ j.doc.by = 0 \/ j.doc = job[c].doc
      /\ j.found = {} \/ j.found = job[c].found
  <2>1. CASE j = Idle
    BY <2>1 DEF Idle, NoFile
  <2>2. CASE j = [job[c] EXCEPT !.pc = "undo"]
    BY <1>1, <2>2 DEF Job
  <2> QED
    BY <1>2, <2>1, <2>2
<1>6. \A s : j.doc.by = s \/ s \in j.found => s = 0 \/ Seen(s)
  BY <1>5, SeenBy
<1>7. disturbed \subseteq disturbed' /\ disturbed' \subseteq DOMAIN stores
  BY StoreFacts DEF history, Typed
<1> QED
  BY <1>2, <1>4, <1>5, <1>6, <1>7, QuietStep DEF server, history

\* Nothing of the world changes but the links, and a store goes on.
LEMMA QuietAdvance ==
  ASSUME Invariant, NEW c \in Clients, job[c].op = "store",
         NEW pc \in {"source", "gle", "md5", "file"}, Goes(c, [job[c] EXCEPT !.pc = pc]),
         Sending(job[c]),
         link' \in [Clients -> {"up", "broken"}],
         \A d \in Clients : d # c => link'[d] = link[d],
         UNCHANGED server, UNCHANGED history, Bounds',
         Progress(c, job[c])'
  PROVE  Step(c)
<1>1. job[c] \in Job
  BY JobFields, StoreFacts
<1>2. PICK j : j = [job[c] EXCEPT !.pc = pc]
  OBVIOUS
<1>3. j \in Job
  BY <1>1, <1>2, JobExcept
<1>4. /\ j.pc = pc /\ j.op = "store" /\ j.by = job[c].by /\ j.criteria = job[c].criteria
      /\ j.len = job[c].len /\ j.kind = job[c].kind /\ j.w = job[c].w
      /\ j.result = job[c].result /\ j.todo = job[c].todo /\ j.pos = job[c].pos
      /\ j.doc = job[c].doc /\ j.found = job[c].found
  BY <1>1, <1>2 DEF Job
<1>5. job'[c] = j /\ \A d \in Clients : d # c => job'[d] = job[d]
  BY <1>2, <1>3, StoreFacts, GoesFacts
<1>6. Seen(job[c].by)' => Seen(job[c].by)
  <2> PICK b : b = job[c].by
    OBVIOUS
  <2>1. Seen(b)' => Seen(b)
    BY <1>4, <1>5, SeenSame DEF server
  <2> QED
    BY <2>1, <1>4, <1>5
<1>7. job[c].pos <= job[c].len
  BY StoreFacts DEF StoreOf
<1>8. disturbed \subseteq disturbed' /\ disturbed' \subseteq DOMAIN stores
  BY StoreFacts DEF history, Typed
<1>9. JobInv(c, job[c])'
  BY <1>3, <1>4, <1>5, <1>6, <1>7, <1>8, StoreGoesOn DEF Sending, server, history
<1>10. \A s : j.doc.by = s \/ s \in j.found => s = 0 \/ Seen(s)
  BY <1>4, SeenBy
<1> QED
  BY <1>2, <1>3, <1>4, <1>8, <1>9, <1>10, QuietStep DEF server, history


LEMMA BoundsStay ==
  ASSUME Bounds, faults' \in 0..MaxFaults, UNCHANGED <<calls, stores>>
  PROVE  Bounds'
BY DEF Bounds

LEMMA ReadErrorStep ==
  ASSUME Invariant, NEW c \in Clients, ReadError(c)
  PROVE  Step(c)
<1>1. job[c].op = "store" /\ job[c].pc = "source" /\ Goes(c, Revert(job[c]))
      /\ UNCHANGED link /\ UNCHANGED server /\ UNCHANGED history
  BY DEF ReadError, At
<1>2. link' \in [Clients -> {"up", "broken"}]
  BY <1>1, StoreFacts DEF Typed
<1>3. Bounds'
  BY ParameterAssumption DEF ReadError, Invariant, WorldInv, Bounds, history
<1> QED
  BY <1>1, <1>2, <1>3, QuietRevert

LEMMA AddMd5Step ==
  ASSUME Invariant, NEW c \in Clients, AddMd5(c)
  PROVE  Step(c)
<1>1. /\ job[c].op = "store" /\ job[c].pc = "md5" /\ UNCHANGED server /\ UNCHANGED history
      /\ UNCHANGED calls
  BY DEF AddMd5, At
<1>2. PICK o \in Outcomes :
        /\ Exchange(c, Command, o)
        /\ Goes(c, IF Thrown(o) THEN Revert(job[c]) ELSE [job[c] EXCEPT !.pc = "file"])
  BY DEF AddMd5
<1>3. /\ link' \in [Clients -> {"up", "broken"}] /\ Bounds'
      /\ \A d \in Clients : d # c => link'[d] = link[d]
  BY <1>1, <1>2, StoreFacts, ExchangeFacts, BoundsStay DEF WorldInv, history
<1>4. CASE Thrown(o)
  BY <1>1, <1>2, <1>3, <1>4, QuietRevert
<1>5. CASE ~Thrown(o)
  <2>1. PICK b, n, pos : b = job[c].by /\ n = job[c].n /\ pos = job[c].pos
    OBVIOUS
  <2>2. job'[c] = [job[c] EXCEPT !.pc = "file"] /\ job[c] \in Job
    <3>1. Typed /\ job[c] \in Job
      BY <1>1, StoreFacts, JobFields
    <3>2. PICK j \in Job : j = [job[c] EXCEPT !.pc = "file"]
      BY <3>1, JobExcept
    <3>3. Goes(c, j)
      BY <1>2, <1>5, <3>2
    <3> QED
      BY <3>1, <3>2, <3>3, GoesFacts
  <2>3. /\ job'[c].by = b /\ job'[c].n = n /\ job'[c].pos = pos /\ job'[c].kind = job[c].kind
        /\ job'[c].len = job[c].len /\ job'[c].pc = "file" /\ job'[c].silent = job[c].silent
    BY <2>1, <2>2 DEF Job
  <2>4. Prefix(b, n, pos) => Prefix(b, n, pos)'
    BY <1>1 DEF Prefix, Offset, server
  <2>5. Progress(c, job[c])
    BY <1>1, StoreFacts
  <2>6. Progress(c, job[c])'
    BY <1>1, <2>1, <2>3, <2>4, <2>5 DEF Progress, Acknowledged, server, history
  <2> QED
    BY <1>1, <1>2, <1>3, <1>5, <2>6, QuietAdvance DEF Sending
<1> QED
  BY <1>4, <1>5

LEMMA GetLastErrorStep ==
  ASSUME Invariant, NEW c \in Clients, GetLastError(c)
  PROVE  Step(c)
<1>1. /\ job[c].op = "store" /\ job[c].pc = "gle" /\ UNCHANGED server /\ UNCHANGED history
      /\ UNCHANGED calls /\ job[c] \in Job
  BY StoreFacts, JobFields DEF GetLastError, At
<1> PICK told, next, fine :
      /\ told = (IF job[c].kind = "bytes" THEN Returned(job[c], "exception") ELSE Revert(job[c]))
      /\ next = (IF job[c].kind = "bytes" \/ job[c].source = "end" THEN "md5" ELSE "source")
      /\ fine = [job[c] EXCEPT !.pc = next]
  OBVIOUS
<1>2. PICK o \in Outcomes :
        /\ Exchange(c, Command, o)
        /\ Goes(c, IF Thrown(o) THEN Revert(job[c])
                   ELSE IF job[c].err = "refused" THEN told ELSE fine)
  BY DEF GetLastError
<1>3. /\ link' \in [Clients -> {"up", "broken"}] /\ Bounds'
      /\ \A d \in Clients : d # c => link'[d] = link[d]
  BY <1>1, <1>2, StoreFacts, ExchangeFacts, BoundsStay DEF WorldInv, history
<1>4. told = Idle \/ told = Revert(job[c])
  BY <1>1, ReturnedFacts
<1>5. CASE Thrown(o) \/ job[c].err = "refused"
  BY <1>1, <1>2, <1>3, <1>4, <1>5, QuietRevert
<1>6. CASE ~Thrown(o) /\ job[c].err # "refused"
  <2>0. next \in {"md5", "source"} /\ Goes(c, fine)
    BY <1>2, <1>6
  <2>1. PICK b, n, pos : b = job[c].by /\ n = job[c].n /\ pos = job[c].pos
    OBVIOUS
  <2>2. job'[c] = fine
    BY <1>1, <2>0, StoreFacts, JobExcept, GoesFacts
  <2>3. /\ job'[c].by = b /\ job'[c].n = n /\ job'[c].pos = pos /\ job'[c].kind = job[c].kind
        /\ job'[c].len = job[c].len /\ job'[c].pc = next /\ job'[c].silent = job[c].silent
    BY <1>1, <2>1, <2>2 DEF Job
  <2>4. Prefix(b, n, pos) => Prefix(b, n, pos)'
    BY <1>1 DEF Prefix, Offset, server
  <2>5. Progress(c, job[c])
    BY <1>1, StoreFacts
  <2>6. ASSUME b \notin disturbed, Acknowledged(b), ~job[c].silent
        PROVE  /\ Prefix(b, n, pos)
               /\ IF job[c].kind = "bytes" \/ job[c].source = "end"
                  THEN job[c].kind # "pipe" => pos = job[c].len ELSE pos = Offset(n)
    BY <1>1, <1>6, <2>0, <2>1, <2>5, <2>6 DEF Progress
  <2>7. Progress(c, job[c])'
    BY <1>1, <2>0, <2>3, <2>4, <2>6 DEF Progress, Acknowledged, server, history, Offset
  <2> QED
    BY <1>1, <1>3, <2>0, <2>7, QuietAdvance DEF Sending
<1> QED
  BY <1>5, <1>6


\* What a store leaves of its call: nothing, or the call with its number and finds.
LEMMA OwnStep ==
  ASSUME Invariant, NEW c \in Clients, job[c].op = "store", NEW j \in Job, Goes(c, j),
         \/ j = Idle
         \/ j.op = "store" /\ j.by = job[c].by /\ j.doc = job[c].doc /\ j.found = job[c].found
  PROVE  /\ job' \in [Clients -> Job] /\ OwnNumbers' /\ job'[c] = j
         /\ \A d \in Clients : d # c => job'[d] = job[d]
         /\ \A s : job'[c].doc.by = s \/ s \in job'[c].found => s = 0 \/ Seen(s)
<1>1. job' \in [Clients -> Job] /\ job'[c] = j /\ \A d \in Clients : d # c => job'[d] = job[d]
  BY StoreFacts, GoesFacts
<1>2. j.op = "store" => j.by = job[c].by
  BY DEF Idle
<1>3. OwnNumbers'
  BY <1>1, <1>2, StoreFacts, NumbersStay DEF WorldInv
<1>4. \A s : j.doc.by = s \/ s \in j.found => s = 0 \/ Seen(s)
  <2>1. CASE j = Idle
    BY <2>1 DEF Idle, NoFile
  <2>2. CASE j # Idle
    BY <2>2, SeenBy
  <2> QED
    BY <2>1, <2>2
<1> QED
  BY <1>1, <1>3, <1>4

LEMMA RevertOwn ==
  ASSUME Invariant, NEW c \in Clients, job[c].op = "store", NEW j, j = Revert(job[c])
  PROVE  /\ j \in Job
         /\ \/ j = Idle
            \/ j.op = "store" /\ j.by = job[c].by /\ j.doc = job[c].doc /\ j.found = job[c].found
<1>1. job[c] \in Job
  BY StoreFacts, JobFields
<1>2. CASE j = [job[c] EXCEPT !.pc = "undo"]
  <2>1. j \in Job
    <3>1. [job[c] EXCEPT !.pc = "undo"] \in Job
      BY <1>1, JobExcept
    <3> QED
      BY <1>2, <3>1
  <2>2. j.op = "store" /\ j.by = job[c].by /\ j.doc = job[c].doc /\ j.found = job[c].found
    BY <1>1, <1>2 DEF Job
  <2> QED
    BY <2>1, <2>2
<1> QED
  BY <1>1, <1>2, RevertFacts

-----------------------------------------------------------------------------
(* The chunks of a store.                                                   *)

LEMMA MinOfTwo ==
  ASSUME NEW a \in Nat, NEW b \in Nat
  PROVE  Min({a, b}) \in {a, b} /\ Min({a, b}) <= a /\ Min({a, b}) <= b
<1>1. \E x \in {a, b} : \A y \in {a, b} : x <= y
  <2>1. CASE a <= b
    BY <2>1
  <2>2. CASE b <= a
    BY <2>2
  <2> QED
    BY <2>1, <2>2
<1>2. Min({a, b}) \in {a, b} /\ \A y \in {a, b} : Min({a, b}) <= y
  BY <1>1 DEF Min
<1> QED
  BY <1>2

LEMMA OffsetNext ==
  ASSUME NEW n \in Int
  PROVE  /\ Offset(n) \in Int /\ Offset(n + 1) = Offset(n) + ChunkSize
         /\ Offset(n) = Offset(n - 1) + ChunkSize /\ Offset(0) = 0
<1>1. ChunkSize \in Int
  BY ParameterAssumption
<1>2. Offset(n) \in Int /\ Offset(n + 1) = Offset(n) + ChunkSize /\ Offset(0) = 0
  BY <1>1 DEF Offset
<1>3. Offset(n) = Offset(n - 1) + ChunkSize
  BY <1>1 DEF Offset
<1> QED
  BY <1>2, <1>3

LEMMA PortionFacts ==
  ASSUME NEW j \in Job, j.pos <= j.len, NEW size \in Portions(j)
  PROVE  /\ size \in Nat /\ size <= ChunkSize /\ j.pos + size <= j.len
         /\ j.kind # "pipe" => size = ChunkSize \/ j.pos + size = j.len
<1>1. j.len - j.pos \in Nat /\ ChunkSize \in Nat /\ j.pos \in Nat /\ j.len \in Nat
  BY ParameterAssumption DEF Job
<1> PICK most : most = Min({ChunkSize, j.len - j.pos})
  OBVIOUS
<1>2. most \in {ChunkSize, j.len - j.pos} /\ most <= ChunkSize /\ most <= j.len - j.pos
  BY <1>1, MinOfTwo
<1>3. size \in (IF j.kind = "pipe" /\ most > 0 THEN 1..most ELSE {most})
  BY DEF Portions
<1> QED
  BY <1>1, <1>2, <1>3

\* The next chunk follows those before it, which are full.
LEMMA PrefixGrows ==
  ASSUME Typed, NEW b \in Nat, NEW n \in Nat, NEW pos \in Nat, NEW size \in Nat, NEW id \in Ids,
         Prefix(b, n, pos), pos = Offset(n), size <= ChunkSize,
         chunks' = chunks \cup {[by |-> b, n |-> n, id |-> id, size |-> size]}
  PROVE  Prefix(b, n + 1, pos + size)'
<1> PICK k : k = [by |-> b, n |-> n, id |-> id, size |-> size]
  OBVIOUS
<1>1. k.by = b /\ k.n = n /\ k.size = size /\ chunks' = chunks \cup {k}
  OBVIOUS
<1>2. ASSUME NEW m \in 0..n
      PROVE  \E l \in chunks' : l.by = b /\ l.n = m
  BY <1>1 DEF Prefix
<1>3. ASSUME NEW l \in chunks', l.by = b
      PROVE  /\ l.n < n + 1 /\ (l.n < n => l.size = ChunkSize)
             /\ l.n = n => Offset(l.n) + l.size = pos + size
  <2>1. CASE l = k
    BY <1>1, <2>1
  <2>2. CASE l \in chunks
    <3>1. l.n \in Nat /\ l.size \in Nat
      BY <2>2 DEF Typed
    <3>2. l.n < n /\ (l.n < n - 1 => l.size = ChunkSize) /\ (l.n = n - 1 => Offset(l.n) + l.size = pos)
      BY <1>3, <2>2 DEF Prefix
    <3>3. ASSUME l.n = n - 1
          PROVE  l.size = ChunkSize
      <4>1. Offset(n) = Offset(n - 1) + ChunkSize /\ Offset(n - 1) \in Int
        BY OffsetNext
      <4> QED
        BY <3>1, <3>2, <3>3, <4>1, ParameterAssumption
    <3> QED
      BY <3>1, <3>2, <3>3
  <2> QED
    BY <1>1, <1>3, <2>1, <2>2
<1> QED
  BY <1>2, <1>3 DEF Prefix, Offset


LEMMA InsertChunkStep ==
  ASSUME Invariant, NEW c \in Clients, InsertChunk(c)
  PROVE  Step(c)
<1> PICK b, n, pos, id : /\ b = job[c].by /\ n = job[c].n /\ pos = job[c].pos
                         /\ id = stores[b].id
  OBVIOUS
<1> DEFINE Taken == index = "unique" /\ \E k \in chunks : k.id \in job[c].criteria /\ k.n = job[c].n
           Refused(o) == o = "refused" \/ (o = "ok" /\ Taken)
           Last(size) == IF job[c].kind = "pipe" THEN size < ChunkSize ELSE job[c].pos + size = job[c].len
           Done(size, o) == [job[c] EXCEPT !.undo = @ \cup {job[c].n}, !.pos = @ + size, !.n = @ + 1,
                            !.source = IF Last(size) THEN "end" ELSE "more",
                            !.err = IF Refused(o) THEN "refused" ELSE "none",
                            !.silent = @ \/ o = "dropped",
                            !.pc = IF job[c].kind = "bytes" /\ ~Last(size) THEN "source" ELSE "gle"]
<1>1. /\ job[c].op = "store" /\ job[c].pc = "source"
      /\ UNCHANGED <<files, index, calls, stores, succeeded, disturbed>>
  BY DEF InsertChunk, At
<1>2. /\ WorldInv /\ Typed /\ job[c] \in Job /\ job[c].criteria = {id} /\ id \in Ids
      /\ b \in DOMAIN stores /\ b \in Nat /\ n \in Nat /\ pos \in Nat /\ pos <= job[c].len
      /\ job[c].len \in Nat
  BY <1>1, StoreFacts, JobFields DEF StoreOf
<1>3. PICK size \in Portions(job[c]), o \in Outcomes :
        /\ Exchange(c, job[c].w.chunk, o)
        /\ chunks' = chunks \cup { [by |-> job[c].by, n |-> job[c].n, id |-> i, size |-> size] :
                                   i \in IF Applied(o) /\ ~Taken THEN job[c].criteria ELSE {} }
        /\ Goes(c, IF Thrown(o) \/ (Refused(o) /\ job[c].w.chunk = 1) THEN Revert(job[c])
                   ELSE Done(size, o))
  BY DEF InsertChunk
<1>4. /\ size \in Nat /\ size <= ChunkSize /\ pos + size <= job[c].len
      /\ job[c].kind # "pipe" => size = ChunkSize \/ pos + size = job[c].len
  BY <1>2, PortionFacts
<1>5. /\ link' \in [Clients -> {"up", "broken"}] /\ Bounds'
      /\ \A d \in Clients : d # c => link'[d] = link[d]
      /\ o = "refused" => job[c].w.chunk = 0
  BY <1>1, <1>2, <1>3, ExchangeFacts, BoundsStay DEF WorldInv
<1> PICK k : k = [by |-> b, n |-> n, id |-> id, size |-> size]
  OBVIOUS
<1>6. /\ k \in [by : Nat, n : Nat, id : Ids, size : Nat] /\ k.by = b /\ k.n = n /\ k.id = id
      /\ k.size = size
  BY <1>2, <1>4
<1>7. /\ Applied(o) /\ ~Taken => chunks' = chunks \cup {k}
      /\ ~(Applied(o) /\ ~Taken) => chunks' = chunks
  BY <1>2, <1>3
<1>8. chunks' = chunks \/ (chunks' = chunks \cup {k} /\ ~Taken)
  BY <1>7
<1>9. /\ chunks' \subseteq [by : Nat, n : Nat, id : Ids, size : Nat]
      /\ ChunksAreStored' /\ Indexed' /\ FilesAreStored'
  <2>1. chunks' \subseteq [by : Nat, n : Nat, id : Ids, size : Nat]
    BY <1>2, <1>6, <1>8 DEF Typed
  <2>2. ChunksAreStored'
    BY <1>1, <1>2, <1>4, <1>6, <1>8 DEF WorldInv, ChunksAreStored
  <2>3. Indexed'
    <3>1. CASE chunks' = chunks
      BY <1>1, <1>2, <3>1 DEF WorldInv, Indexed
    <3>2. CASE chunks' = chunks \cup {k} /\ ~Taken
      <4>1. index = "unique" => \A l \in chunks : ~(l.id = k.id /\ l.n = k.n)
        BY <1>2, <1>6, <3>2
      <4> QED
        BY <1>1, <1>2, <3>2, <4>1 DEF WorldInv, Indexed
    <3> QED
      BY <1>8, <3>1, <3>2
  <2>4. FilesAreStored'
    BY <1>1, <1>2 DEF WorldInv, FilesAreStored
  <2> QED
    BY <2>1, <2>2, <2>3, <2>4
<1>10. ASSUME NEW j \in Job, Goes(c, j), JobInv(c, job[c])',
              \/ j = Idle
              \/ j.op = "store" /\ j.by = job[c].by /\ j.doc = job[c].doc /\ j.found = job[c].found
       PROVE  Step(c)
  <2>1. /\ job' \in [Clients -> Job] /\ OwnNumbers' /\ job'[c] = j
        /\ \A d \in Clients : d # c => job'[d] = job[d]
        /\ \A s : job'[c].doc.by = s \/ s \in job'[c].found => s = 0 \/ Seen(s)
    BY <1>1, <1>10, OwnStep
  <2>2. Typed'
    BY <1>1, <1>2, <1>5, <1>9, <2>1 DEF Typed
  <2>3. Mild(c)
    BY <1>1, <1>5, <1>6, <1>8, <2>1 DEF Mild, Sending
  <2> QED
    BY <1>1, <1>5, <1>9, <1>10, <2>1, <2>2, <2>3 DEF Step
<1>11. CASE Thrown(o) \/ (Refused(o) /\ job[c].w.chunk = 1)
  <2>1. PICK j : j = Revert(job[c])
    OBVIOUS
  <2>2. Goes(c, j)
    BY <1>3, <1>11, <2>1
  <2>3. JobInv(c, job[c])'
    BY <1>1, <1>2, <2>1, <2>2, RevertFine, RevertFacts, RevertOwn, GoesFacts
  <2> QED
    BY <1>1, <1>10, <2>1, <2>2, <2>3, RevertOwn
<1>12. CASE ~Thrown(o) /\ ~(Refused(o) /\ job[c].w.chunk = 1)
  <2>1. PICK j : j = Done(size, o)
    OBVIOUS
  <2>0. PICK silent \in BOOLEAN : silent = (job[c].silent \/ o = "dropped")
    OBVIOUS
  <2>2. PICK source, err, pc :
          /\ source = (IF Last(size) THEN "end" ELSE "more")
          /\ err = (IF Refused(o) THEN "refused" ELSE "none")
          /\ pc = (IF job[c].kind = "bytes" /\ ~Last(size) THEN "source" ELSE "gle")
    OBVIOUS
  <2>3. j \in Job
    <3>1. PICK undo \in SUBSET Nat : undo = job[c].undo \cup {n}
      BY <1>2, JobFields
    <3>2. pos + size \in Nat /\ n + 1 \in Nat
      BY <1>2, <1>4
    <3>3. PICK r \in Job : r = [job[c] EXCEPT !.undo = undo, !.pos = pos + size, !.n = n + 1]
      BY <1>2, <3>1, <3>2, JobExcept
    <3>4. source \in {"more", "end"} /\ err \in {"none", "refused"}
          /\ pc \in {"idle", "source", "gle", "md5", "file", "undo", "next", "find", "chunks",
                    "files", "read"}
      BY <2>2
    <3>5. PICK t \in Job : t = [r EXCEPT !.source = source, !.err = err, !.pc = pc]
      BY <3>4, JobExcept
    <3>6. [t EXCEPT !.silent = silent] \in Job
      BY JobSilent
    <3>7. j = [t EXCEPT !.silent = silent]
      BY <2>0, <2>1, <2>2, <3>1, <3>3, <3>5
    <3> QED
      BY <3>6, <3>7
  <2>4. /\ j.pc = pc /\ j.op = "store" /\ j.by = b /\ j.criteria = job[c].criteria
        /\ j.len = job[c].len /\ j.kind = job[c].kind /\ j.w = job[c].w /\ j.source = source
        /\ j.err = err /\ j.result = job[c].result /\ j.todo = job[c].todo
        /\ j.doc = job[c].doc /\ j.found = job[c].found /\ j.pos = pos + size /\ j.n = n + 1
        /\ j.silent = silent
    BY <1>1, <1>2, <2>0, <2>1, <2>2 DEF Job
  <2>5. Goes(c, j)
    BY <1>3, <1>12, <2>1
  <2>6. job'[c] = j /\ \A d \in Clients : d # c => job'[d] = job[d]
    BY <1>2, <2>3, <2>5, GoesFacts
  <2>7. Seen(b)' => Seen(b)
    BY <1>1, <2>4, <2>6, SeenSame
  <2>8. ASSUME b \notin disturbed, Acknowledged(b), ~silent
        PROVE  /\ Applied(o) /\ ~Taken => Prefix(b, n + 1, pos + size)'
               /\ pos = Offset(n)
               /\ job[c].kind = "bytes" => job[c].w.chunk = 1
    <3>1. Progress(c, job[c]) /\ StoreOf(job[c])
      BY <1>1, StoreFacts
    <3>2. Prefix(b, n, pos) /\ pos = Offset(n)
      BY <1>1, <2>0, <2>8, <3>1 DEF Progress
    <3>3. job[c].kind = "bytes" => job[c].w.chunk = 1
      BY <1>1, <2>8, <3>1 DEF StoreOf, Acknowledged
    <3> QED
      BY <1>2, <1>4, <1>7, <3>2, <3>3, PrefixGrows
  <2>9. ASSUME b \notin disturbed, Acknowledged(b), ~silent
        PROVE  /\ pc = "source" => Prefix(b, n + 1, pos + size)' /\ pos + size = Offset(n + 1)
               /\ pc = "gle" =>
                    /\ Prefix(b, n + 1, pos + size)' \/ err = "refused"
                    /\ job[c].kind = "bytes" => Prefix(b, n + 1, pos + size)'
                    /\ IF job[c].kind = "bytes" \/ source = "end"
                       THEN job[c].kind # "pipe" => pos + size = job[c].len
                       ELSE pos + size = Offset(n + 1)
    <3>1. o \in {"ok", "refused"} /\ (Refused(o) => job[c].w.chunk # 1)
      BY <1>12, <2>0, <2>9 DEF Thrown, Outcomes
    <3>2. ~Refused(o) => Applied(o) /\ ~Taken
      BY <3>1 DEF Applied
    <3>3. job[c].kind = "bytes" => Prefix(b, n + 1, pos + size)'
      BY <2>8, <2>9, <3>1, <3>2
    <3>4. Prefix(b, n + 1, pos + size)' \/ err = "refused"
      BY <2>2, <2>8, <2>9, <3>2
    <3>5. source = "more" => pos + size = Offset(n + 1)
      <4>1. source = "more" => size = ChunkSize
        BY <1>4, <2>2, ParameterAssumption
      <4>2. Offset(n + 1) = Offset(n) + ChunkSize
        BY <1>2, OffsetNext
      <4> QED
        BY <2>8, <2>9, <4>1, <4>2
    <3>6. source = "end" /\ job[c].kind # "pipe" => pos + size = job[c].len
      BY <2>2
    <3>7. /\ source \in {"more", "end"}
          /\ pc = "source" => job[c].kind = "bytes" /\ source = "more"
          /\ pc = "gle" => job[c].kind # "bytes" \/ source = "end"
      BY <2>2
    <3> HIDE DEF Last, Taken, Refused
    <3> QED
      BY <3>3, <3>4, <3>5, <3>6, <3>7
  <2>10. pc \in {"source", "gle"}
    BY <2>2
  <2>11. Acknowledged(b)' <=> Acknowledged(b)
    BY <1>1 DEF Acknowledged
  <2>12. Progress(c, job[c])'
    <3>1. Offset(n + 1)' = Offset(n + 1)
      BY DEF Offset
    <3> HIDE DEF Last, Taken, Refused, Done
    <3> QED
      BY <1>1, <2>4, <2>6, <2>9, <2>10, <2>11, <3>1 DEF Progress
  <2>13. JobInv(c, job[c])'
    <3> HIDE DEF Last, Taken, Refused, Done
    <3> QED
      BY <1>1, <1>4, <2>3, <2>4, <2>6, <2>7, <2>10, <2>12, StoreGoesOn DEF Sending
  <2> HIDE DEF Last, Taken, Refused, Done
  <2> QED
    BY <1>10, <2>3, <2>4, <2>5, <2>13
<1> QED
  BY <1>11, <1>12


-----------------------------------------------------------------------------
(* The file of a store, and the chunks taken back.                          *)

LEMMA StoredFacts ==
  ASSUME Invariant, NEW c \in Clients, job[c].op = "store", NEW j, j = Stored(job[c])
  PROVE  /\ j \in Job
         /\ \/ j = Idle
            \/ /\ j.op = "store" /\ j.by = job[c].by /\ j.doc = job[c].doc /\ j.found = job[c].found
               /\ j.pc = "next" /\ j.criteria = job[c].criteria /\ j.len = job[c].len
               /\ j.kind = job[c].kind /\ j.w = job[c].w /\ j.result = job[c].result
               /\ j.todo = job[c].todo /\ j.pos = job[c].pos
<1>1. job[c] \in Job
  BY StoreFacts, JobFields
<1>2. CASE j = [job[c] EXCEPT !.pc = "next"]
  <2>1. j \in Job
    BY <1>1, <1>2, JobExcept
  <2> QED
    BY <1>1, <1>2, <2>1 DEF Job
<1>3. CASE j = Returned(job[c], "id")
  BY <1>1, <1>3, ReturnedFacts
<1> QED
  BY <1>2, <1>3 DEF Stored

LEMMA InsertFileStep ==
  ASSUME Invariant, NEW c \in Clients, InsertFile(c)
  PROVE  Step(c)
<1> PICK b, pos, id : b = job[c].by /\ pos = job[c].pos /\ id = stores[b].id
  OBVIOUS
<1> PICK doc : doc = [by |-> job[c].by, len |-> IF job[c].kind = "pipe" THEN job[c].pos ELSE job[c].len]
  OBVIOUS
<1> DEFINE Taken == \E i \in job[c].criteria : files[i] # NoFile
           Wrong(o) == Thrown(o) \/ (o = "ok" /\ Taken /\ job[c].w.file = 1)
<1>1. /\ job[c].op = "store" /\ job[c].pc = "file"
      /\ UNCHANGED <<chunks, index, calls, stores, disturbed>>
  BY DEF InsertFile, At
<1>2. /\ WorldInv /\ Typed /\ job[c] \in Job /\ job[c].criteria = {id} /\ id \in Ids
      /\ b \in DOMAIN stores /\ b \in Nat /\ b # 0 /\ pos \in Nat /\ pos <= job[c].len
      /\ job[c].len \in Nat /\ b \notin succeeded
  BY <1>1, StoreFacts, JobFields DEF StoreOf
<1>3. PICK o \in Outcomes :
        /\ Exchange(c, job[c].w.file, o)
        /\ files' = IF Applied(o) /\ ~Taken
                    THEN [i \in Ids |-> IF i \in job[c].criteria THEN doc ELSE files[i]]
                    ELSE files
        /\ Goes(c, IF Wrong(o) THEN Revert(job[c]) ELSE Stored(job[c]))
        /\ succeeded' = IF Wrong(o) \/ Silent(o) \/ job[c].silent THEN succeeded
                        ELSE succeeded \cup {job[c].by}
  BY DEF InsertFile
<1>4. /\ link' \in [Clients -> {"up", "broken"}] /\ Bounds'
      /\ \A d \in Clients : d # c => link'[d] = link[d]
  BY <1>1, <1>2, <1>3, ExchangeFacts, BoundsStay DEF WorldInv
<1>5. doc \in [by : Nat, len : Nat] /\ doc.by = b /\ (job[c].kind # "pipe" => doc.len = job[c].len)
      /\ (job[c].kind = "pipe" => doc.len = pos)
  BY <1>2
<1>6. Taken <=> files[id] # NoFile
  BY <1>2
<1>7. /\ files' = files \/ (files' = [files EXCEPT ![id] = doc] /\ files[id] = NoFile)
      /\ Applied(o) /\ ~Taken => files' = [files EXCEPT ![id] = doc]
  <2>1. [i \in Ids |-> IF i \in job[c].criteria THEN doc ELSE files[i]] = [files EXCEPT ![id] = doc]
    BY <1>2 DEF Typed
  <2> QED
    BY <1>3, <1>6, <2>1
<1> HIDE DEF Taken, Wrong
<1>8. /\ files' \in [Ids -> [by : Nat, len : Nat]]
      /\ \A i \in Ids : files'[i] = files[i] \/ (i = id /\ files[i] = NoFile /\ files'[i] = doc)
  <2>1. files \in [Ids -> [by : Nat, len : Nat]]
    BY <1>2 DEF Typed
  <2>2. CASE files' = files
    BY <2>1, <2>2
  <2>3. CASE files' = [files EXCEPT ![id] = doc] /\ files[id] = NoFile
    BY <1>2, <1>5, <2>1, <2>3
  <2> QED
    BY <1>7, <2>2, <2>3
<1>9. FilesAreStored' /\ ChunksAreStored' /\ Indexed'
  <2>1. FilesAreStored'
    BY <1>1, <1>2, <1>5, <1>8 DEF WorldInv, FilesAreStored
  <2>2. ChunksAreStored'
    BY <1>1, <1>2 DEF WorldInv, ChunksAreStored
  <2>3. Indexed'
    <3>1. b \in disturbed \/ index = "unique"
      BY <1>1, StoreFacts DEF StoreOf
    <3> QED
      BY <1>1, <1>2, <1>3, <3>1 DEF WorldInv, Indexed
  <2> QED
    BY <2>1, <2>2, <2>3
<1>10. succeeded' = succeeded \/ succeeded' = succeeded \cup {b}
  BY <1>3
<1>11. ASSUME NEW j \in Job, Goes(c, j), JobInv(c, job[c])',
              succeeded' = succeeded \/ b \in disturbed \/ ~Acknowledged(b) \/ Whole(b)',
              \/ j = Idle
              \/ j.op = "store" /\ j.by = job[c].by /\ j.doc = job[c].doc /\ j.found = job[c].found
       PROVE  Step(c)
  <2>1. /\ job' \in [Clients -> Job] /\ OwnNumbers' /\ job'[c] = j
        /\ \A d \in Clients : d # c => job'[d] = job[d]
        /\ \A s : job'[c].doc.by = s \/ s \in job'[c].found => s = 0 \/ Seen(s)
    BY <1>1, <1>11, OwnStep
  <2>2. Typed'
    BY <1>1, <1>2, <1>4, <1>8, <1>10, <2>1 DEF Typed
  <2>3. Mild(c)
    BY <1>1, <1>4, <1>5, <1>8, <1>10, <2>1 DEF Mild, Sending
  <2>4. \A s \in succeeded' \ succeeded : s \in disturbed' \/ ~Acknowledged(s)' \/ Whole(s)'
    BY <1>1, <1>10, <1>11 DEF Acknowledged
  <2> QED
    BY <1>4, <1>9, <1>11, <2>1, <2>2, <2>3, <2>4 DEF Step
<1>12. CASE Wrong(o)
  <2>1. PICK j : j = Revert(job[c])
    OBVIOUS
  <2>2. Goes(c, j) /\ UNCHANGED <<stores, index, succeeded>> /\ disturbed \subseteq disturbed'
    BY <1>1, <1>3, <1>12, <2>1
  <2>3. JobInv(c, job[c])'
    <3>1. job'[c] = j
      BY <1>1, <1>2, <2>1, <2>2, RevertOwn, GoesFacts
    <3>2. j = Idle \/ j = [job[c] EXCEPT !.pc = "undo"]
      BY <1>2, <2>1, RevertFacts
    <3> QED
      BY <1>1, <2>2, <3>1, <3>2, RevertFine
  <2> QED
    BY <1>1, <1>11, <2>1, <2>2, <2>3, RevertOwn
<1>13. CASE ~Wrong(o)
  <2>1. PICK j : j = Stored(job[c])
    OBVIOUS
  <2>2. /\ j \in Job
        /\ \/ j = Idle
           \/ /\ j.op = "store" /\ j.by = job[c].by /\ j.doc = job[c].doc /\ j.found = job[c].found
              /\ j.pc = "next" /\ j.criteria = job[c].criteria /\ j.len = job[c].len
              /\ j.kind = job[c].kind /\ j.w = job[c].w /\ j.result = job[c].result
              /\ j.todo = job[c].todo /\ j.pos = job[c].pos
    BY <1>1, <2>1, StoredFacts
  <2>3. Goes(c, j)
    BY <1>3, <1>13, <2>1
  <2>4. job'[c] = j
    BY <1>2, <2>2, <2>3, GoesFacts
  <2>5. JobInv(c, job[c])'
    <3>1. CASE j = Idle
      BY <2>4, <3>1, IdleFine
    <3>2. CASE j # Idle
      <4>1. Progress(c, job[c])'
        BY <2>2, <2>4, <3>2 DEF Progress
      <4> QED
        BY <1>1, <1>2, <2>2, <2>4, <3>2, <4>1, StoreGoesOn DEF Sending
    <3> QED
      BY <3>1, <3>2
  <2>6. ASSUME b \notin disturbed, Acknowledged(b), succeeded' # succeeded
        PROVE  Whole(b)'
    <3>0. ~Silent(o) /\ ~job[c].silent
      BY <1>3, <2>6
    <3>1. Progress(c, job[c]) /\ StoreOf(job[c])
      BY <1>1, StoreFacts
    <3>2. job[c].w.file = 1 /\ job[c].kind = stores[b].kind /\ job[c].len = stores[b].len
      BY <1>1, <2>6, <3>1 DEF StoreOf, Acknowledged
    <3>3. Applied(o) /\ ~Taken
      BY <1>13, <3>0, <3>2 DEF Wrong, Applied, Thrown, Silent, Outcomes
    <3>4. files'[id] = doc
      BY <1>2, <1>7, <3>3 DEF Typed
    <3>5. Prefix(b, job[c].n, pos) /\ (job[c].kind # "pipe" => pos = job[c].len) /\ job[c].n \in Nat
      BY <1>1, <1>2, <2>6, <3>0, <3>1, JobFields DEF Progress
    <3>6. doc.len = pos
      BY <1>5, <3>5
    <3>7. PICK n \in Nat : Prefix(b, n, pos)
      BY <3>5
    <3>8. Prefix(b, n, pos)'
      BY <1>1, <3>7 DEF Prefix, Offset
    <3>9. stores'[b].id = id /\ stores'[b].kind = job[c].kind /\ stores'[b].len = job[c].len
      BY <1>1, <3>2
    <3>10. files'[stores'[b].id] = doc
      BY <3>4, <3>9
    <3>11. files'[stores'[b].id].len = pos
      BY <3>6, <3>10
    <3>12. \E m \in Nat : Prefix(b, m, files[stores[b].id].len)'
      BY <3>8, <3>11
    <3> QED
      BY <1>5, <3>6, <3>5, <3>9, <3>10, <3>11, <3>12 DEF Whole
  <2> QED
    BY <1>11, <2>2, <2>3, <2>5, <2>6
<1> QED
  BY <1>12, <1>13

LEMMA UndoStep ==
  ASSUME Invariant, NEW c \in Clients, Undo(c)
  PROVE  Step(c)
<1>1. /\ job[c].op = "store" /\ job[c].pc = "undo"
      /\ UNCHANGED <<files, index, calls>> /\ UNCHANGED history
  BY DEF Undo, At
<1>2. /\ WorldInv /\ Typed /\ job[c] \in Job /\ job[c].by \in DOMAIN stores
  BY <1>1, StoreFacts, JobFields
<1> PICK n, left : n = Min(job[c].undo) /\ left = [job[c] EXCEPT !.undo = @ \ {n}]
  OBVIOUS
<1>3. PICK o \in Outcomes :
        /\ Exchange(c, job[c].w.undo, o)
        /\ chunks' = IF Applied(o) THEN { k \in chunks : ~TakenBack(job[c], k, n) } ELSE chunks
        /\ Goes(c, IF Thrown(o) THEN Returned(job[c], "exception") ELSE Revert(left))
  BY DEF Undo
<1>4. /\ link' \in [Clients -> {"up", "broken"}] /\ Bounds'
      /\ \A d \in Clients : d # c => link'[d] = link[d]
  BY <1>1, <1>2, <1>3, ExchangeFacts, BoundsStay DEF WorldInv, history
<1>5. chunks' \subseteq chunks /\ \A k \in chunks : k \in chunks' \/ k.by = job[c].by
  BY <1>3 DEF TakenBack
<1> PICK turned : turned = [left EXCEPT !.pc = "undo"]
  OBVIOUS
<1>6. /\ left \in Job /\ turned \in Job
      /\ turned.op = "store" /\ turned.pc = "undo" /\ turned.by = job[c].by
      /\ turned.doc = job[c].doc /\ turned.found = job[c].found
      /\ turned.criteria = job[c].criteria /\ turned.len = job[c].len
      /\ turned.kind = job[c].kind /\ turned.w = job[c].w /\ turned.result = job[c].result
      /\ turned.todo = job[c].todo /\ turned.pos = job[c].pos
  <2>1. PICK undo \in SUBSET Nat : undo = job[c].undo \ {n}
    BY JobFields, <1>2
  <2>2. PICK r \in Job : r = [job[c] EXCEPT !.undo = undo]
    BY <1>2, <2>1, JobExcept
  <2>3. left = r
    BY <2>1, <2>2
  <2>4. PICK t \in Job : t = [r EXCEPT !.pc = "undo"]
    BY <2>2, JobExcept
  <2>5. turned = t
    BY <2>3, <2>4
  <2>6. /\ r.op = "store" /\ r.by = job[c].by /\ r.doc = job[c].doc /\ r.found = job[c].found
        /\ r.criteria = job[c].criteria /\ r.len = job[c].len /\ r.kind = job[c].kind
        /\ r.w = job[c].w /\ r.result = job[c].result /\ r.todo = job[c].todo
        /\ r.pos = job[c].pos
    BY <1>1, <1>2, <2>2 DEF Job
  <2>7. /\ t.op = r.op /\ t.pc = "undo" /\ t.by = r.by /\ t.doc = r.doc /\ t.found = r.found
        /\ t.criteria = r.criteria /\ t.len = r.len /\ t.kind = r.kind /\ t.w = r.w
        /\ t.result = r.result /\ t.todo = r.todo /\ t.pos = r.pos
    BY <2>2, <2>4 DEF Job
  <2> QED
    BY <2>2, <2>3, <2>5, <2>6, <2>7
<1>7. PICK j : j = (IF Thrown(o) THEN Returned(job[c], "exception") ELSE Revert(left))
  OBVIOUS
<1>8. /\ j \in Job /\ Goes(c, j) /\ (j = Idle \/ j = turned)
  <2>1. Returned(job[c], "exception") = Idle
    BY <1>2, ReturnedFacts
  <2>2. Revert(left) = Idle \/ Revert(left) = turned
    BY <1>6, RevertFacts
  <2> QED
    BY <1>3, <1>6, <1>7, <2>1, <2>2, IdleTyped
<1>9. /\ job' \in [Clients -> Job] /\ OwnNumbers' /\ job'[c] = j
      /\ \A d \in Clients : d # c => job'[d] = job[d]
      /\ \A s : job'[c].doc.by = s \/ s \in job'[c].found => s = 0 \/ Seen(s)
  BY <1>1, <1>6, <1>8, OwnStep
<1>10. JobInv(c, job[c])'
  <2>1. CASE j = Idle
    BY <1>9, <2>1, IdleFine
  <2>2. CASE j = turned
    <3>1. Progress(c, job[c])' /\ ~Sending(turned)
      BY <1>6, <1>9, <2>2 DEF Progress, Sending
    <3>2. job[c].pos <= job[c].len
      BY <1>1, StoreFacts DEF StoreOf
    <3> QED
      BY <1>1, <1>6, <1>9, <2>2, <3>1, <3>2, StoreGoesOn DEF history
  <2> QED
    BY <1>8, <2>1, <2>2
<1>11. Typed'
  BY <1>1, <1>2, <1>4, <1>5, <1>9 DEF Typed, history
<1>12. FilesAreStored' /\ ChunksAreStored' /\ Indexed'
  BY <1>1, <1>2, <1>5 DEF WorldInv, FilesAreStored, ChunksAreStored, Indexed, history
<1>13. Mild(c)
  BY <1>1, <1>4, <1>5, <1>9 DEF Mild, Storing, history
<1> QED
  BY <1>1, <1>4, <1>9, <1>10, <1>11, <1>12, <1>13 DEF Step, history


-----------------------------------------------------------------------------
(* The index, and the calls that begin with it.                             *)

LEMMA EnsureIndexFacts ==
  ASSUME Invariant, NEW c \in Clients, NEW next \in Job, EnsureIndex(c, next)
  PROVE  /\ UNCHANGED <<files, chunks>> /\ index' \in {index, "unique"}
         /\ index' = "unique" => \A k, l \in chunks : k.id = l.id /\ k.n = l.n => k = l
         /\ link' \in [Clients -> {"up", "broken"}] /\ faults' \in 0..MaxFaults
         /\ \A d \in Clients : d # c => link'[d] = link[d]
         /\ Goes(c, Idle) \/ (Goes(c, next) /\ index' = "unique")
<1> DEFINE Duplicated == \E k, l \in chunks : k # l /\ k.id = l.id /\ k.n = l.n
           Refused == Duplicated /\ index = "none"
<1>1. PICK o \in Outcomes :
        /\ Exchange(c, Command, o)
        /\ index' = IF Applied(o) /\ ~Refused THEN "unique" ELSE index
        /\ Goes(c, IF Thrown(o) \/ Refused THEN Returned(next, "exception") ELSE next)
        /\ UNCHANGED <<files, chunks>>
  BY DEF EnsureIndex
<1>2. Typed /\ Indexed /\ Bounds
  BY DEF Invariant, WorldInv
<1>3. /\ link' \in [Clients -> {"up", "broken"}] /\ faults' \in 0..MaxFaults
      /\ \A d \in Clients : d # c => link'[d] = link[d]
      /\ ~Silent(o)
  BY <1>1, <1>2, ExchangeFacts
<1>4. index' = "unique" => \A k, l \in chunks : k.id = l.id /\ k.n = l.n => k = l
  <2>1. index = "unique" => \A k, l \in chunks : k.id = l.id /\ k.n = l.n => k = l
    BY <1>2 DEF Indexed
  <2>2. index # "unique" /\ ~Refused => \A k, l \in chunks : k.id = l.id /\ k.n = l.n => k = l
    BY <1>2 DEF Typed
  <2> QED
    BY <1>1, <2>1, <2>2
<1>5. Goes(c, Idle) \/ (Goes(c, next) /\ index' = "unique")
  <2>1. CASE Thrown(o) \/ Refused
    BY <1>1, <2>1, ReturnedFacts
  <2>2. CASE ~(Thrown(o) \/ Refused)
    BY <1>1, <1>3, <2>2 DEF Thrown, Applied, Silent, Outcomes
  <2> QED
    BY <2>1, <2>2
<1> QED
  BY <1>1, <1>3, <1>4, <1>5

LEMMA SetUpStep ==
  ASSUME Invariant, NEW c \in Clients, NEW j \in Job, NEW i \in Ids, NEW len \in Lengths,
         SetUp(c, j, i, len), calls < MaxCalls, calls' = calls + 1, ~Sending(job[c]),
         j.todo = {}, \A s : j.doc.by = s \/ s \in j.found => s = 0 \/ Seen(s)
  PROVE  Step(c)
<1> PICK by : by = Len(stores) + 1
  OBVIOUS
<1> PICK new : new = [id |-> i, len |-> len, kind |-> j.kind, w |-> j.w]
  OBVIOUS
<1> DEFINE Begun == [j EXCEPT !.op = "store", !.criteria = {i}, !.by = Len(stores) + 1, !.len = len,
                         !.result = "none", !.pos = 0, !.n = 0, !.undo = {},
                         !.source = "more", !.err = "none", !.silent = FALSE,
                         !.pc = IF len > 0 \/ j.kind = "pipe" THEN "source"
                                ELSE IF j.kind = "bytes" THEN "gle" ELSE "md5"]
<1>1. WorldInv /\ Typed /\ Bounds /\ len \in Nat /\ Len(stores) \in Nat /\ by \in Nat
  <2>1. WorldInv /\ Typed /\ Bounds
    BY DEF Invariant, WorldInv
  <2>2. len \in Nat /\ Len(stores) \in Nat
    BY <2>1, StoreNumbers, ParameterAssumption
  <2> QED
    BY <2>1, <2>2
<1>2. /\ EnsureIndex(c, Begun) /\ stores' = Append(stores, new)
      /\ disturbed' = disturbed \cup (IF BeingRemoved(i) THEN {by} ELSE {})
      /\ UNCHANGED succeeded
  BY DEF SetUp
<1>3. PICK pc : pc = (IF len > 0 \/ j.kind = "pipe" THEN "source"
                      ELSE IF j.kind = "bytes" THEN "gle" ELSE "md5")
  OBVIOUS
<1>4. PICK g : g = Begun
  OBVIOUS
<1>5. g \in Job
  <2>1. {i} \in SUBSET Ids /\ {} \in SUBSET Nat /\ 0 \in Nat
    OBVIOUS
  <2>2. PICK r \in Job : r = [j EXCEPT !.op = "store", !.criteria = {i}, !.by = by]
    BY <1>1, <2>1, JobExcept
  <2>3. PICK s \in Job : s = [r EXCEPT !.len = len, !.result = "none", !.pos = 0, !.n = 0]
    BY <1>1, JobExcept
  <2>4. PICK t \in Job : t = [s EXCEPT !.undo = {}, !.source = "more", !.err = "none",
                                !.silent = FALSE]
    <3>1. PICK t \in Job : t = [s EXCEPT !.undo = {}, !.source = "more", !.err = "none"]
      BY <2>1, JobExcept
    <3>2. [t EXCEPT !.silent = FALSE] \in Job
      BY JobSilent
    <3> QED
      BY <3>1, <3>2
  <2>5. pc \in {"idle", "source", "gle", "md5", "file", "undo", "next", "find", "chunks",
                "files", "read"}
    BY <1>3
  <2>6. [t EXCEPT !.pc = pc] \in Job
    BY <2>5, JobExcept
  <2> QED
    BY <1>3, <1>4, <2>2, <2>3, <2>4, <2>6
<1>6. /\ g.op = "store" /\ g.criteria = {i} /\ g.by = by /\ g.len = len /\ g.result = "none"
      /\ g.pos = 0 /\ g.n = 0 /\ g.pc = pc /\ g.kind = j.kind /\ g.w = j.w
      /\ g.todo = {} /\ g.doc = j.doc /\ g.found = j.found /\ g.source = "more" /\ g.err = "none"
  BY <1>3, <1>4 DEF Job
<1> HIDE DEF Begun
<1>7. /\ new \in StoreRecord /\ new.id = i /\ new.len = len /\ new.kind = j.kind /\ new.w = j.w
  <2>1. j.kind \in {"bytes", "file", "pipe"} /\ j.w \in [chunk : {0, 1}, file : {0, 1}, undo : {0, 1}]
    BY DEF Job
  <2> QED
    BY <1>1, <2>1 DEF StoreRecord
<1>8. /\ stores' \in Seq(StoreRecord) /\ Len(stores') = by /\ DOMAIN stores' = DOMAIN stores \cup {by}
      /\ by \notin DOMAIN stores /\ by # 0 /\ stores'[by] = new
      /\ \A s \in DOMAIN stores : stores'[s] = stores[s]
  BY <1>1, <1>2, <1>7 DEF Typed
<1>9. /\ UNCHANGED <<files, chunks>> /\ index' \in {index, "unique"}
      /\ index' = "unique" => \A k, l \in chunks : k.id = l.id /\ k.n = l.n => k = l
      /\ link' \in [Clients -> {"up", "broken"}] /\ faults' \in 0..MaxFaults
      /\ \A d \in Clients : d # c => link'[d] = link[d]
      /\ Goes(c, Idle) \/ (Goes(c, g) /\ index' = "unique")
  BY <1>2, <1>4, <1>5, EnsureIndexFacts
<1>10. Bounds'
  BY <1>1, <1>8, <1>9, ParameterAssumption DEF Bounds
<1>11. PICK q \in Job : Goes(c, q) /\ (q = Idle \/ (q = g /\ index' = "unique"))
  BY <1>5, <1>9, IdleTyped
<1>12. job' \in [Clients -> Job] /\ job'[c] = q /\ \A d \in Clients : d # c => job'[d] = job[d]
  BY <1>1, <1>11, GoesFacts
<1>13. /\ disturbed \subseteq disturbed' /\ disturbed' \subseteq DOMAIN stores'
       /\ BeingRemoved(i) => by \in disturbed'
  BY <1>1, <1>2, <1>8 DEF Typed
<1>14. Typed'
  BY <1>1, <1>2, <1>8, <1>9, <1>12, <1>13 DEF Typed
<1>15. OwnNumbers'
  <2>1. \A d \in Clients : job[d].op = "store" => job[d].by # by
    BY <1>8, StoreFacts
  <2>2. job'[c].op = "store" => job'[c].by = by
    BY <1>6, <1>11, <1>12 DEF Idle
  <2> QED
    BY <1>1, <1>12, <2>1, <2>2, NumbersStay DEF WorldInv
<1>16. FilesAreStored' /\ ChunksAreStored'
  BY <1>1, <1>8, <1>9 DEF WorldInv, FilesAreStored, ChunksAreStored
<1>17. Indexed'
  BY <1>1, <1>2, <1>9, <1>13 DEF WorldInv, Indexed
<1>18. \A s : q.doc.by = s \/ s \in q.found => s = 0 \/ Seen(s)
  <2>1. CASE q = Idle
    BY <2>1 DEF Idle, NoFile
  <2>2. CASE q = g
    BY <1>6, <2>2
  <2> QED
    BY <1>11, <2>1, <2>2
<1>19. Mild(c)
  <2>1. \A s \in DOMAIN stores' :
          s \in DOMAIN stores \/ (BeingRemoved(stores'[s].id) => s \in disturbed')
    BY <1>7, <1>8, <1>13
  <2> QED
    BY <1>2, <1>8, <1>9, <1>12, <1>13, <1>18, <2>1 DEF Mild
<1>20. JobInv(c, job[c])'
  <2>1. CASE q = Idle
    BY <1>12, <2>1, IdleFine
  <2>2. CASE q = g /\ index' = "unique"
    <3>1. ~Seen(by)'
      <4>1. ~Seen(by)
        BY <1>1, <1>8 DEF WorldInv, KnownStores
      <4> QED
        BY <1>8, <1>19, <4>1, SeenStays
    <3>2. by \notin succeeded'
      BY <1>1, <1>2, <1>8 DEF Typed
    <3>3. pc \in {"source", "gle", "md5"} /\ (pc = "gle" => len = 0 /\ j.kind = "bytes")
          /\ (pc = "md5" => len = 0)
      BY <1>1, <1>3
    <3>4. StoreOf(job[c])'
      BY <1>1, <1>6, <1>7, <1>8, <1>12, <2>2, <3>1, <3>2, <3>3 DEF StoreOf
    <3>5. Prefix(by, 0, 0)'
      <4>1. \A k \in chunks : k.by # by
        BY <1>1, <1>8 DEF WorldInv, ChunksAreStored
      <4> QED
        BY <1>9, <4>1 DEF Prefix
    <3>6. Offset(0)' = 0
      BY ParameterAssumption DEF Offset
    <3>7. Progress(c, job[c])'
      BY <1>6, <1>12, <2>2, <3>3, <3>5, <3>6 DEF Progress
    <3>8. ReaderOf(job[c])' /\ RemoverOf(c, job[c])' /\ ResultsOf(job[c])'
      BY <1>6, <1>12, <2>2 DEF ReaderOf, RemoverOf, ResultsOf
    <3> QED
      BY <3>4, <3>7, <3>8 DEF JobInv
  <2> QED
    BY <1>11, <2>1, <2>2
<1> QED
  BY <1>2, <1>10, <1>14, <1>15, <1>16, <1>17, <1>19, <1>20 DEF Step


\* The calls that begin a store, from a call that has returned.
LEMMA BeginsStore ==
  ASSUME Invariant, NEW c \in Clients, Calls(c), NEW i \in Ids, NEW len \in Lengths,
         NEW j \in Job, j.todo = {}, j.found = {}, j.doc = NoFile, SetUp(c, j, i, len)
  PROVE  Step(c)
<1>1. \A s : j.doc.by = s \/ s \in j.found => s = 0 \/ Seen(s)
  BY DEF NoFile
<1>2. calls < MaxCalls /\ calls' = calls + 1 /\ ~Sending(job[c])
  BY DEF Calls, Sending
<1> QED
  BY <1>1, <1>2, SetUpStep

LEMMA FreshJob ==
  ASSUME NEW kind \in {"bytes", "file", "pipe"},
         NEW w \in [chunk : {0, 1}, file : {0, 1}, undo : {0, 1}],
         NEW j, j = [Idle EXCEPT !.kind = kind, !.w = w]
  PROVE  j \in Job /\ j.todo = {} /\ j.found = {} /\ j.doc = NoFile
<1>1. j \in Job
  BY IdleTyped, JobExcept
<1>2. j.todo = {} /\ j.found = {} /\ j.doc = NoFile
  BY DEF Idle
<1> QED
  BY <1>1, <1>2

LEMMA StoresBegin ==
  ASSUME Invariant, NEW c \in Clients, NEW i \in Ids, NEW len \in Lengths,
         NEW concern \in Concerns
  PROVE  /\ StoreBytes(c, i, len, concern) => Step(c)
         /\ \A kind \in Sources : StoreFile(c, i, len, kind, concern) => Step(c)
         /\ \A more \in Uploads : StoreUpload(c, i, len, concern.db, more) => Step(c)
<1>1. concern \in [db : {0, 1}, option : {0, 1, 2}] /\ concern.db \in {0, 1}
  BY ParameterAssumption
<1>2. PICK w \in [chunk : {0, 1}, file : {0, 1}, undo : {0, 1}] : w = WriteConcern(concern)
  BY <1>1, ConcernFacts
<1>3. PICK u \in [chunk : {0, 1}, file : {0, 1}, undo : {0, 1}] :
        u = WriteConcern([db |-> concern.db, option |-> 2])
  <2>1. [db |-> concern.db, option |-> 2] \in [db : {0, 1}, option : {0, 1, 2}]
    BY <1>1
  <2> QED
    BY <2>1, ConcernFacts
<1>4. ASSUME StoreBytes(c, i, len, concern)
      PROVE  Step(c)
  <2>1. PICK j : j = [Idle EXCEPT !.kind = "bytes", !.w = WriteConcern(concern)]
    OBVIOUS
  <2>2. Calls(c) /\ SetUp(c, j, i, len)
    BY <1>4, <2>1 DEF StoreBytes
  <2>3. j \in Job /\ j.todo = {} /\ j.found = {} /\ j.doc = NoFile
    <3>1. j = [Idle EXCEPT !.kind = "bytes", !.w = w]
      BY <1>2, <2>1
    <3> QED
      BY <3>1, FreshJob
  <2> QED
    BY <2>2, <2>3, BeginsStore
<1>5. ASSUME NEW kind \in Sources, StoreFile(c, i, len, kind, concern)
      PROVE  Step(c)
  <2>1. PICK j : j = [Idle EXCEPT !.kind = kind, !.w = WriteConcern(concern)]
    OBVIOUS
  <2>2. Calls(c) /\ SetUp(c, j, i, len) /\ kind \in {"bytes", "file", "pipe"}
    BY <1>5, <2>1 DEF StoreFile
  <2>3. j \in Job /\ j.todo = {} /\ j.found = {} /\ j.doc = NoFile
    <3>1. j = [Idle EXCEPT !.kind = kind, !.w = w]
      BY <1>2, <2>1
    <3> QED
      BY <2>2, <3>1, FreshJob
  <2> QED
    BY <2>2, <2>3, BeginsStore
<1>6. ASSUME NEW more \in Uploads, StoreUpload(c, i, len, concern.db, more)
      PROVE  Step(c)
  <2>1. PICK j : j = [Idle EXCEPT !.kind = "file", !.more = more,
                                  !.w = WriteConcern([db |-> concern.db, option |-> 2])]
    OBVIOUS
  <2>2. Calls(c) /\ SetUp(c, j, i, len)
    BY <1>6, <2>1 DEF StoreUpload
  <2>3. j \in Job /\ j.todo = {} /\ j.found = {} /\ j.doc = NoFile
    <3>1. j = [Idle EXCEPT !.kind = "file", !.more = more, !.w = u]
      BY <1>3, <2>1
    <3>2. j \in Job
      <4>1. more \in Int /\ "file" \in {"bytes", "file", "pipe"}
        BY ParameterAssumption
      <4>2. PICK r \in Job : r = [Idle EXCEPT !.kind = "file", !.more = more]
        BY <4>1, IdleTyped, JobExcept
      <4> QED
        BY <3>1, <4>2, JobExcept
    <3> QED
      BY <3>1, <3>2 DEF Idle
  <2> QED
    BY <2>2, <2>3, BeginsStore
<1> QED
  BY <1>4, <1>5, <1>6

LEMMA NextUploadStep ==
  ASSUME Invariant, NEW c \in Clients, NEW i \in Ids, NEW len \in Lengths, NextUpload(c, i, len)
  PROVE  Step(c)
<1>1. /\ job[c].op = "store" /\ job[c].pc = "next" /\ calls < MaxCalls /\ calls' = calls + 1
      /\ SetUp(c, [job[c] EXCEPT !.more = @ - 1], i, len)
  BY DEF NextUpload, At
<1>2. job[c] \in Job /\ job[c].todo = {} /\ job[c].more \in Int
  BY <1>1, StoreFacts, JobFields DEF Job
<1>3. PICK more \in Int : more = job[c].more - 1
  BY <1>2
<1>4. PICK j \in Job : j = [job[c] EXCEPT !.more = more]
  BY <1>2, JobExcept
<1>5. j.todo = {} /\ j.doc = job[c].doc /\ j.found = job[c].found
  BY <1>2, <1>4 DEF Job
<1>6. \A s : j.doc.by = s \/ s \in j.found => s = 0 \/ Seen(s)
  BY <1>5, SeenBy
<1>7. SetUp(c, j, i, len)
  BY <1>1, <1>3, <1>4
<1> QED
  BY <1>1, <1>5, <1>6, <1>7, SetUpStep DEF Sending


-----------------------------------------------------------------------------
(* Removing.                                                                *)

LEMMA RemoveStep ==
  ASSUME Invariant, NEW c \in Clients, NEW ids \in SUBSET Ids, NEW limit \in {"one", "all"},
         NEW concern \in Concerns, Remove(c, ids, limit, concern)
  PROVE  Step(c)
<1> PICK w \in [chunk : {0, 1}, file : {0, 1}, undo : {0, 1}] : w = WriteConcern(concern)
  BY ParameterAssumption, ConcernFacts
<1> PICK j : j = [Idle EXCEPT !.op = "remove", !.pc = "find", !.criteria = ids, !.limit = limit,
                              !.w = WriteConcern(concern)]
  OBVIOUS
<1>1. j \in Job
  <2>1. PICK r \in Job : r = [Idle EXCEPT !.op = "remove", !.pc = "find", !.criteria = ids]
    BY IdleTyped, JobExcept
  <2>2. [r EXCEPT !.limit = limit, !.w = w] \in Job
    BY JobExcept
  <2> QED
    BY <2>1, <2>2
<1>2. /\ j.op = "remove" /\ j.pc = "find" /\ j.todo = {} /\ j.found = {} /\ j.doc = NoFile
      /\ j.result = "none" /\ j.criteria = ids
  BY DEF Idle
<1>3. EnsureIndex(c, j) /\ UNCHANGED history /\ calls < MaxCalls /\ calls' = calls + 1
  BY DEF Remove, Calls
<1>4. WorldInv /\ Typed /\ Bounds
  BY DEF Invariant, WorldInv
<1>5. /\ UNCHANGED <<files, chunks>> /\ index' \in {index, "unique"}
      /\ index' = "unique" => \A k, l \in chunks : k.id = l.id /\ k.n = l.n => k = l
      /\ link' \in [Clients -> {"up", "broken"}] /\ faults' \in 0..MaxFaults
      /\ \A d \in Clients : d # c => link'[d] = link[d]
      /\ Goes(c, Idle) \/ Goes(c, j)
  BY <1>1, <1>3, EnsureIndexFacts
<1>6. PICK q \in Job : Goes(c, q) /\ (q = Idle \/ q = j)
  BY <1>1, <1>5, IdleTyped
<1>7. job' \in [Clients -> Job] /\ job'[c] = q /\ \A d \in Clients : d # c => job'[d] = job[d]
  BY <1>4, <1>6, GoesFacts
<1>8. q.op # "store" /\ q.found = {} /\ q.doc = NoFile
  <2>1. Idle.op # "store" /\ Idle.found = {} /\ Idle.doc = NoFile
    BY DEF Idle
  <2> QED
    BY <1>2, <1>6, <2>1
<1>9. JobInv(c, job[c])'
  <2>1. CASE q = Idle
    BY <1>7, <2>1, IdleFine
  <2>2. CASE q = j
    BY <1>2, <1>7, <2>2 DEF JobInv, StoreOf, Progress, ReaderOf, RemoverOf, ResultsOf
  <2> QED
    BY <1>6, <2>1, <2>2
<1>10. Typed' /\ Bounds'
  <2>1. Typed'
    BY <1>3, <1>4, <1>5, <1>7 DEF Typed, history
  <2>2. Bounds'
    BY <1>3, <1>4, <1>5, ParameterAssumption DEF Bounds, Typed, history
  <2> QED
    BY <2>1, <2>2
<1>11. OwnNumbers'
  BY <1>4, <1>7, <1>8, NumbersStay DEF WorldInv
<1>12. FilesAreStored' /\ ChunksAreStored' /\ Indexed'
  BY <1>3, <1>4, <1>5 DEF WorldInv, FilesAreStored, ChunksAreStored, Indexed, history
<1>13. Mild(c)
  <2>1. \A s : job'[c].doc.by = s \/ s \in job'[c].found => s = 0 \/ Seen(s)
    BY <1>7, <1>8 DEF NoFile
  <2>2. UNCHANGED <<stores, succeeded, disturbed>>
    BY <1>3 DEF history
  <2> QED
    BY <1>5, <1>7, <2>1, <2>2 DEF Mild
<1> QED
  BY <1>3, <1>9, <1>10, <1>11, <1>12, <1>13 DEF Step, history

\* A removal at work, in the words of the invariant.
LEMMA RemoverFacts ==
  ASSUME Invariant, NEW c \in Clients, job[c].op = "remove"
  PROVE  /\ WorldInv /\ Typed /\ RemoverOf(c, job[c]) /\ job[c] \in Job
         /\ job[c].todo \subseteq job[c].criteria /\ job[c].criteria \subseteq Ids
BY JobFields DEF Invariant, WorldInv, JobInv, RemoverOf

LEMMA FindFilesStep ==
  ASSUME Invariant, NEW c \in Clients, FindFiles(c)
  PROVE  Step(c)
<1>1. /\ job[c].op = "remove" /\ job[c].pc = "find"
      /\ UNCHANGED <<calls, stores, succeeded>> /\ UNCHANGED server
  BY DEF FindFiles, At
<1>2. /\ WorldInv /\ Typed /\ job[c] \in Job /\ job[c].todo = {} /\ job[c].found = {}
      /\ job[c].criteria \subseteq Ids
  BY <1>1, RemoverFacts DEF RemoverOf
<1> PICK matching : matching = { i \in job[c].criteria : files[i] # NoFile }
  OBVIOUS
<1>3. PICK o \in Outcomes, todo \in Chosen(job[c].limit, matching) :
        /\ Exchange(c, Command, o)
        /\ Goes(c, IF Thrown(o) THEN Returned(job[c], "exception")
                   ELSE [job[c] EXCEPT !.todo = todo, !.found = { files[i].by : i \in todo },
                           !.criteria = IF job[c].limit = "one" /\ todo # {} THEN todo ELSE @,
                           !.pc = IF todo = {} THEN "files" ELSE "chunks"])
        /\ disturbed' = disturbed \cup IF Thrown(o) THEN {} ELSE StoresOf(todo)
  BY DEF FindFiles
<1>4. /\ link' \in [Clients -> {"up", "broken"}] /\ Bounds'
      /\ \A d \in Clients : d # c => link'[d] = link[d]
  BY <1>1, <1>2, <1>3, ExchangeFacts, BoundsStay DEF WorldInv
<1>5. /\ todo \subseteq matching /\ (job[c].limit = "one" /\ todo # {} => \E i : todo = {i})
  BY <1>3 DEF Chosen
<1>6. /\ disturbed \subseteq disturbed' /\ disturbed' \subseteq DOMAIN stores
      /\ ~Thrown(o) => \A s \in DOMAIN stores : stores[s].id \in todo => s \in disturbed'
  BY <1>2, <1>3 DEF StoresOf, Typed
<1>7. CASE Thrown(o)
  <2>1. Goes(c, Idle)
    BY <1>2, <1>3, <1>7, ReturnedFacts
  <2>2. JobInv(c, job[c])'
    BY <1>2, <2>1, IdleFine, IdleTyped, GoesFacts
  <2>3. Idle.op # "store" /\ Idle.doc.by = 0 /\ Idle.found = {}
    BY DEF Idle, NoFile
  <2> QED
    BY <1>1, <1>4, <1>6, <2>1, <2>2, <2>3, IdleTyped, QuietStep DEF server
<1>8. CASE ~Thrown(o)
  <2>1. PICK found : found = { files[i].by : i \in todo }
    OBVIOUS
  <2>2. PICK criteria : criteria = (IF job[c].limit = "one" /\ todo # {} THEN todo
                                    ELSE job[c].criteria)
    OBVIOUS
  <2>3. PICK pc : pc = (IF todo = {} THEN "files" ELSE "chunks")
    OBVIOUS
  <2>4. todo \subseteq criteria /\ todo \subseteq job[c].criteria /\ criteria \subseteq Ids
    BY <1>2, <1>5, <2>2
  <2>5. \A i \in todo : /\ i \in Ids /\ files[i].by \in DOMAIN stores /\ files[i].by # 0
                        /\ stores[files[i].by].id = i
    BY <1>2, <1>5, <2>4, StoreNumbers DEF WorldInv, FilesAreStored
  <2>6. found \subseteq DOMAIN stores /\ found \subseteq Nat
    BY <1>2, <2>1, <2>5, StoreNumbers
  <2>7. PICK j : j = [job[c] EXCEPT !.todo = todo, !.found = found, !.criteria = criteria, !.pc = pc]
    OBVIOUS
  <2>8. j \in Job
    <3>1. /\ todo \in SUBSET Ids /\ found \in SUBSET Nat /\ criteria \in SUBSET Ids
          /\ pc \in {"idle", "source", "gle", "md5", "file", "undo", "next", "find", "chunks",
                     "files", "read"}
      BY <2>3, <2>4, <2>6
    <3> QED
      BY <1>2, <2>7, <3>1, JobExcept
  <2>9. /\ j.op = "remove" /\ j.pc = pc /\ j.todo = todo /\ j.found = found /\ j.result = job[c].result
        /\ j.criteria = criteria /\ j.limit = job[c].limit /\ j.doc = job[c].doc
    BY <1>1, <1>2, <2>7 DEF Job
  <2>10. Goes(c, j)
    BY <1>3, <1>8, <2>1, <2>2, <2>3, <2>7
  <2>11. job'[c] = j
    BY <1>2, <2>8, <2>10, GoesFacts
  <2>12. ASSUME NEW s \in found
         PROVE  stores[s].id \in todo /\ (job[c].limit = "one" => criteria = {stores[s].id})
    <3>1. PICK i \in todo : s = files[i].by
      BY <2>1
    <3> QED
      BY <1>5, <2>2, <2>5, <3>1
  <2>13. RemoverOf(c, job[c])'
    <3>1. job[c].result # "done"
      BY <1>1, RemoverFacts DEF RemoverOf
    <3>2. pc \in {"chunks", "files"} /\ (pc = "files" => todo = {})
      BY <2>3
    <3> QED
      BY <1>1, <1>6, <1>8, <2>4, <2>9, <2>11, <2>12, <3>1, <3>2 DEF RemoverOf
  <2>14. ResultsOf(job[c])'
    <3>1. ResultsOf(job[c]) /\ job[c].result # "done"
      BY <1>1, RemoverFacts DEF RemoverOf, Invariant, JobInv
    <3> QED
      BY <1>1, <2>9, <2>11, <3>1 DEF ResultsOf
  <2>15. JobInv(c, job[c])'
    BY <2>9, <2>11, <2>13, <2>14 DEF JobInv, StoreOf, Progress, ReaderOf
  <2>16. \A s : j.doc.by = s \/ s \in j.found => s = 0 \/ Seen(s)
    <3>1. \A s \in found : Seen(s)
      BY <2>1, <2>5 DEF Seen
    <3> QED
      BY <2>9, <3>1, SeenBy
  <2> QED
    BY <1>1, <1>4, <1>6, <2>8, <2>9, <2>10, <2>15, <2>16, QuietStep DEF server
<1> QED
  BY <1>7, <1>8


LEMMA RemoveChunksStep ==
  ASSUME Invariant, NEW c \in Clients, RemoveChunks(c)
  PROVE  Step(c)
<1>1. /\ job[c].op = "remove" /\ job[c].pc = "chunks"
      /\ UNCHANGED <<files, index, calls>> /\ UNCHANGED history
  BY DEF RemoveChunks, At
<1>2. /\ WorldInv /\ Typed /\ job[c] \in Job /\ RemoverOf(c, job[c])
      /\ job[c].todo \subseteq job[c].criteria /\ job[c].criteria \subseteq Ids
  BY <1>1, RemoverFacts
<1>3. PICK o \in Outcomes, i \in job[c].todo :
        /\ Exchange(c, job[c].w.chunk, o)
        /\ chunks' = IF Applied(o) THEN { k \in chunks : ~TakenWith(job[c], k, i) } ELSE chunks
        /\ Goes(c, IF Thrown(o) THEN Returned(job[c], "exception")
                   ELSE [job[c] EXCEPT !.todo = @ \ {i}, !.silent = @ \/ Silent(o),
                                       !.pc = IF job[c].todo = {i} THEN "files" ELSE "chunks"])
  BY DEF RemoveChunks
<1>4. /\ link' \in [Clients -> {"up", "broken"}] /\ Bounds'
      /\ \A d \in Clients : d # c => link'[d] = link[d]
  BY <1>1, <1>2, <1>3, ExchangeFacts, BoundsStay DEF WorldInv, history
<1>5. /\ chunks' \subseteq chunks /\ \A k \in chunks : k \in chunks' \/ k.id = i
      /\ Applied(o) => \A k \in chunks' : k.id # i
  BY <1>3 DEF TakenWith
<1>6. \A k \in chunks : k \in chunks' \/ k.by \in disturbed
  <2>1. \A k \in chunks : k.by \in DOMAIN stores /\ k.id = stores[k.by].id
    BY <1>2 DEF WorldInv, ChunksAreStored
  <2>2. \A s \in DOMAIN stores : stores[s].id \in job[c].todo => s \in disturbed
    BY <1>1, <1>2 DEF RemoverOf
  <2> QED
    BY <1>3, <1>5, <2>1, <2>2
<1>7. PICK todo, pc : todo = job[c].todo \ {i}
                      /\ pc = (IF job[c].todo = {i} THEN "files" ELSE "chunks")
  OBVIOUS
<1> PICK silent \in BOOLEAN : silent = (job[c].silent \/ Silent(o))
  OBVIOUS
<1>8. PICK j : j = [job[c] EXCEPT !.todo = todo, !.silent = silent, !.pc = pc]
  OBVIOUS
<1>9. j \in Job
  <2>1. /\ todo \in SUBSET Ids
        /\ pc \in {"idle", "source", "gle", "md5", "file", "undo", "next", "find", "chunks",
                   "files", "read"}
    BY <1>2, <1>7
  <2>2. PICK r \in Job : r = [job[c] EXCEPT !.todo = todo, !.pc = pc]
    BY <1>2, <2>1, JobExcept
  <2>3. [r EXCEPT !.silent = silent] \in Job
    BY JobSilent
  <2> QED
    BY <1>8, <2>2, <2>3
<1>10. /\ j.op = "remove" /\ j.pc = pc /\ j.todo = todo /\ j.found = job[c].found
       /\ j.result = job[c].result /\ j.criteria = job[c].criteria /\ j.limit = job[c].limit
       /\ j.doc = job[c].doc /\ j.silent = silent
  BY <1>1, <1>2, <1>8 DEF Job
<1>11. PICK q \in Job : Goes(c, q) /\ ((Thrown(o) /\ q = Idle) \/ (~Thrown(o) /\ q = j))
  <2>1. Returned(job[c], "exception") = Idle
    BY <1>2, ReturnedFacts
  <2> QED
    BY <1>3, <1>7, <1>8, <1>9, <2>1, IdleTyped
<1>12. job' \in [Clients -> Job] /\ job'[c] = q /\ \A d \in Clients : d # c => job'[d] = job[d]
  BY <1>2, <1>11, GoesFacts
<1>13. JobInv(c, job[c])'
  <2>1. CASE q = Idle
    BY <1>12, <2>1, IdleFine
  <2>2. CASE ~Thrown(o) /\ q = j
    <3>1. ASSUME NEW s \in job[c].found \cap succeeded
          PROVE  stores[s].id \in todo \/ NoChunks(s)' \/ silent
      <4>1. stores[s].id \in job[c].todo \/ NoChunks(s) \/ job[c].silent
        BY <1>1, <1>2 DEF RemoverOf
      <4>2. CASE NoChunks(s)
        BY <1>5, <4>2 DEF NoChunks
      <4>3. CASE stores[s].id = i /\ Applied(o)
        BY <1>2, <1>5, <4>3 DEF NoChunks, WorldInv, ChunksAreStored
      <4>4. CASE stores[s].id = i /\ ~Applied(o)
        BY <2>2, <4>4 DEF Thrown, Applied, Silent, Outcomes
      <4> QED
        BY <1>7, <4>1, <4>2, <4>3, <4>4
    <3>2. todo \subseteq job[c].todo /\ (pc = "files" => todo = {}) /\ pc \in {"chunks", "files"}
      BY <1>7
    <3>3. RemoverOf(c, job[c])'
      <4>1. job[c].result # "done"
        BY <1>1, <1>2 DEF RemoverOf
      <4>2. \A s \in DOMAIN stores : stores[s].id \in job[c].todo => s \in disturbed
        BY <1>1, <1>2 DEF RemoverOf
      <4>3. \A s \in job[c].found \cap succeeded :
              /\ stores[s].id \in job[c].criteria
              /\ job[c].limit = "one" => job[c].criteria = {stores[s].id}
        BY <1>1, <1>2 DEF RemoverOf
      <4>4. /\ UNCHANGED <<stores, succeeded, disturbed>> /\ job'[c] = j
        BY <1>1, <1>12, <2>2 DEF history
      <4> QED
        BY <1>2, <1>10, <3>1, <3>2, <4>1, <4>2, <4>3, <4>4 DEF RemoverOf
    <3>4. ResultsOf(job[c])'
      <4>1. ResultsOf(job[c]) /\ job[c].result # "done"
        BY <1>1, <1>2 DEF RemoverOf, Invariant, JobInv
      <4> QED
        BY <1>1, <1>10, <1>12, <2>2, <4>1 DEF ResultsOf
    <3> QED
      BY <1>10, <1>12, <2>2, <3>3, <3>4 DEF JobInv, StoreOf, Progress, ReaderOf
  <2> QED
    BY <1>11, <2>1, <2>2
<1>14. Typed'
  BY <1>1, <1>2, <1>4, <1>5, <1>12 DEF Typed, history
<1>15. OwnNumbers'
  <2>1. q.op # "store"
    BY <1>10, <1>11 DEF Idle
  <2> QED
    BY <1>2, <1>12, <2>1, NumbersStay DEF WorldInv
<1>16. FilesAreStored' /\ ChunksAreStored' /\ Indexed'
  BY <1>1, <1>2, <1>5 DEF WorldInv, FilesAreStored, ChunksAreStored, Indexed, history
<1>17. Mild(c)
  <2>1. \A s : q.doc.by = s \/ s \in q.found => s = 0 \/ Seen(s)
    <3>1. CASE q = Idle
      BY <3>1 DEF Idle, NoFile
    <3>2. CASE q = j
      BY <1>10, <3>2, SeenBy
    <3> QED
      BY <1>11, <3>1, <3>2
  <2> QED
    BY <1>1, <1>4, <1>5, <1>6, <1>12, <2>1 DEF Mild, history
<1> QED
  BY <1>1, <1>4, <1>13, <1>14, <1>15, <1>16, <1>17 DEF Step, history

\* A call that keeps what it found, and the file it read, when it returns.
LEMMA ReturnsStep ==
  ASSUME Invariant, NEW c \in Clients, NEW j \in Job, Goes(c, j),
         j.op # "store", j.doc = NoFile \/ j.doc = job[c].doc, j.found = {} \/ j.found = job[c].found
  PROVE  /\ job' \in [Clients -> Job] /\ OwnNumbers' /\ job'[c] = j
         /\ \A d \in Clients : d # c => job'[d] = job[d]
         /\ \A s : job'[c].doc.by = s \/ s \in job'[c].found => s = 0 \/ Seen(s)
<1>1. WorldInv /\ Typed
  BY DEF Invariant, WorldInv
<1>2. job' \in [Clients -> Job] /\ job'[c] = j /\ \A d \in Clients : d # c => job'[d] = job[d]
  BY <1>1, GoesFacts
<1>3. OwnNumbers'
  BY <1>1, <1>2, NumbersStay DEF WorldInv
<1>4. \A s : j.doc.by = s \/ s \in j.found => s = 0 \/ Seen(s)
  BY SeenBy DEF NoFile
<1> QED
  BY <1>2, <1>3, <1>4

LEMMA RemoveFilesStep ==
  ASSUME Invariant, NEW c \in Clients, RemoveFiles(c)
  PROVE  Step(c)
<1>1. /\ job[c].op = "remove" /\ job[c].pc = "files"
      /\ UNCHANGED <<chunks, index, calls, stores, succeeded>>
  BY DEF RemoveFiles, At
<1>2. /\ WorldInv /\ Typed /\ job[c] \in Job /\ RemoverOf(c, job[c]) /\ job[c].todo = {}
      /\ job[c].criteria \subseteq Ids
  BY <1>1, RemoverFacts DEF RemoverOf
<1> PICK matching : matching = { i \in job[c].criteria : files[i] # NoFile }
  OBVIOUS
<1>3. PICK o \in Outcomes, gone \in Chosen(job[c].limit, matching) :
        /\ Exchange(c, job[c].w.file, o)
        /\ files' = IF Applied(o) THEN [i \in Ids |-> IF i \in gone THEN NoFile ELSE files[i]]
                    ELSE files
        /\ disturbed' = disturbed \cup { files[i].by : i \in IF Applied(o) THEN gone ELSE {} }
        /\ Goes(c, Returned([job[c] EXCEPT !.silent = @ \/ Silent(o)],
                            IF Thrown(o) THEN "exception" ELSE "done"))
  BY DEF RemoveFiles
<1>4. /\ link' \in [Clients -> {"up", "broken"}] /\ Bounds'
      /\ \A d \in Clients : d # c => link'[d] = link[d]
  BY <1>1, <1>2, <1>3, ExchangeFacts, BoundsStay DEF WorldInv
<1>5. gone \subseteq matching /\ (job[c].limit = "all" => gone = matching)
      /\ \A i : matching = {i} => gone = matching
  BY <1>3 DEF Chosen
<1>6. /\ \A i \in Ids : \/ files'[i] = files[i]
                        \/ files'[i] = NoFile /\ files[i].by \in disturbed'
      /\ files' \in [Ids -> [by : Nat, len : Nat]]
      /\ Applied(o) => \A i \in gone : files'[i] = NoFile
  <2>1. NoFile \in [by : Nat, len : Nat]
    BY DEF NoFile
  <2>2. CASE Applied(o)
    BY <1>2, <1>3, <1>5, <2>1, <2>2 DEF Typed
  <2>3. CASE ~Applied(o)
    BY <1>2, <1>3, <2>3 DEF Typed
  <2> QED
    BY <2>2, <2>3
<1>7. disturbed \subseteq disturbed' /\ disturbed' \subseteq DOMAIN stores
  <2>1. \A i \in gone : files[i].by \in DOMAIN stores
    BY <1>2, <1>5 DEF WorldInv, FilesAreStored
  <2> QED
    BY <1>2, <1>3, <2>1 DEF Typed
<1> PICK silent \in BOOLEAN : silent = (job[c].silent \/ Silent(o))
  OBVIOUS
<1>20. PICK j \in Job :
         /\ Goes(c, Returned(j, IF Thrown(o) THEN "exception" ELSE "done"))
         /\ j.silent = silent /\ j.op = "remove"
         /\ j.found = job[c].found /\ j.doc = job[c].doc
  <2>1. PICK j : j = [job[c] EXCEPT !.silent = silent]
    OBVIOUS
  <2>2. j \in Job
    BY <1>2, <2>1, JobSilent
  <2>3. /\ j.silent = silent /\ j.op = "remove" /\ j.found = job[c].found
        /\ j.doc = job[c].doc
    BY <1>1, <1>2, <2>1 DEF Job
  <2>4. j = [job[c] EXCEPT !.silent = @ \/ Silent(o)]
    BY <2>1
  <2>5. Goes(c, Returned(j, IF Thrown(o) THEN "exception" ELSE "done"))
    BY <1>3, <2>4
  <2> QED
    BY <2>2, <2>3, <2>5
<1>8. PICK q : /\ q = Returned(j, IF Thrown(o) THEN "exception" ELSE "done")
               /\ Goes(c, q) /\ j \in Job /\ j.silent = silent
               /\ j.op = "remove" /\ j.found = job[c].found /\ j.doc = job[c].doc
  BY <1>20
<1>9. /\ q \in Job /\ Goes(c, q) /\ (q = Idle \/ ~Thrown(o))
      /\ q.op # "store" /\ (q.doc = NoFile \/ q.doc = job[c].doc)
      /\ q.found = {} \/ q.found = job[c].found
      /\ q # Idle => /\ q.op = "remove" /\ q.pc = "idle" /\ q.result = "done" /\ q.silent = silent
                     /\ q.found = job[c].found /\ q.todo = {} /\ q.criteria = {}
  <2>1. CASE Thrown(o)
    <3>1. q = Idle
      BY <1>8, <2>1, ReturnedFacts
    <3>2. Idle.op # "store" /\ Idle.doc = NoFile /\ Idle.found = {}
      BY DEF Idle
    <3> QED
      BY <1>8, <3>1, <3>2, IdleTyped
  <2>2. CASE ~Thrown(o)
    <3>1. q = Returned(j, "done")
      BY <1>8, <2>2
    <3>2. /\ q \in Job /\ q.op = j.op /\ q.pc = "idle" /\ q.result = "done"
          /\ q.silent = j.silent /\ q.found = j.found /\ q.doc = j.doc
          /\ q.todo = {} /\ q.criteria = {}
      BY <3>1, ReturnedFacts
    <3>3. q.silent = silent
      BY <1>8, <3>2
    <3>4. q.op = "remove" /\ q.found = job[c].found /\ q.doc = job[c].doc
      BY <1>8, <3>2
    <3> QED
      BY <1>8, <2>2, <3>2, <3>3, <3>4
  <2> QED
    BY <2>1, <2>2
<1>10. /\ job' \in [Clients -> Job] /\ OwnNumbers' /\ job'[c] = q
       /\ \A d \in Clients : d # c => job'[d] = job[d]
       /\ \A s : job'[c].doc.by = s \/ s \in job'[c].found => s = 0 \/ Seen(s)
  BY <1>9, ReturnsStep
<1>11. JobInv(c, job[c])'
  <2>1. CASE q = Idle
    BY <1>10, <2>1, IdleFine
  <2>2. CASE q # Idle
    <3>1. ASSUME ~silent, NEW s \in job[c].found \cap succeeded
          PROVE  NoChunks(s) /\ files'[stores[s].id].by # s
      <4>1. Applied(o)
        BY <1>9, <2>2, <3>1 DEF Thrown, Applied, Silent, Outcomes
      <4>2. /\ stores[s].id \in job[c].criteria
            /\ job[c].limit = "one" => job[c].criteria = {stores[s].id}
            /\ NoChunks(s)
        BY <1>1, <1>2, <3>1 DEF RemoverOf
      <4>3. s # 0
        BY <1>2, <3>1, StoreNumbers DEF Typed
      <4>4. stores[s].id \in gone \/ files[stores[s].id] = NoFile
        <5>1. job[c].limit \in {"one", "all"}
          BY <1>2, JobFields
        <5>2. CASE job[c].limit = "all"
          BY <1>5, <4>2, <5>2
        <5>3. CASE job[c].limit = "one" /\ files[stores[s].id] # NoFile
          BY <1>5, <4>2, <5>3
        <5> QED
          BY <5>1, <5>2, <5>3
      <4>5. files'[stores[s].id] = NoFile
        BY <1>2, <1>6, <4>1, <4>2, <4>4
      <4> QED
        BY <4>2, <4>3, <4>5 DEF NoFile
    <3>2. RemoverOf(c, job[c])'
      BY <1>1, <1>9, <1>10, <2>2, <3>1 DEF RemoverOf, NoChunks
    <3> QED
      BY <1>9, <1>10, <2>2, <3>2 DEF JobInv, StoreOf, Progress, ReaderOf, ResultsOf
  <2> QED
    BY <2>1, <2>2
<1>12. Typed'
  BY <1>1, <1>2, <1>4, <1>6, <1>7, <1>10 DEF Typed
<1>13. FilesAreStored' /\ ChunksAreStored' /\ Indexed'
  BY <1>1, <1>2, <1>6, <1>7 DEF WorldInv, FilesAreStored, ChunksAreStored, Indexed, NoFile
<1>14. Mild(c)
  BY <1>1, <1>4, <1>6, <1>7, <1>10 DEF Mild
<1> QED
  BY <1>1, <1>4, <1>10, <1>11, <1>12, <1>13, <1>14 DEF Step


LEMMA DropStep ==
  ASSUME Invariant, NEW c \in Clients, Drop(c)
  PROVE  Step(c)
<1> PICK j : j = [Idle EXCEPT !.op = "drop", !.pc = "files", !.criteria = Ids]
  OBVIOUS
<1>1. /\ calls < MaxCalls /\ calls' = calls + 1 /\ disturbed' = DOMAIN stores
      /\ UNCHANGED <<files, stores, succeeded>>
  BY DEF Drop, Calls
<1>2. PICK o \in Outcomes :
        /\ Exchange(c, Command, o)
        /\ IF Applied(o) THEN chunks' = {} /\ index' = "none" ELSE UNCHANGED <<chunks, index>>
        /\ Goes(c, IF Thrown(o) THEN Returned(j, "exception") ELSE j)
  BY DEF Drop
<1>3. WorldInv /\ Typed /\ Bounds
  BY DEF Invariant, WorldInv
<1>4. /\ j \in Job /\ j.op = "drop" /\ j.pc = "files" /\ j.criteria = Ids /\ j.result = "none"
      /\ j.todo = {} /\ j.found = {} /\ j.doc = NoFile
  <2>1. j \in Job
    BY IdleTyped, JobExcept
  <2> QED
    BY <2>1 DEF Idle
<1>5. /\ link' \in [Clients -> {"up", "broken"}] /\ faults' \in 0..MaxFaults
      /\ \A d \in Clients : d # c => link'[d] = link[d]
  BY <1>2, <1>3, ExchangeFacts
<1>6. PICK q \in Job : Goes(c, q) /\ (q = Idle \/ q = j)
  <2>1. Returned(j, "exception") = Idle
    BY <1>4, ReturnedFacts
  <2> QED
    BY <1>2, <1>4, <2>1, IdleTyped
<1>7. q.op # "store" /\ q.found = {} /\ q.doc = NoFile
  <2>1. Idle.op # "store" /\ Idle.found = {} /\ Idle.doc = NoFile
    BY DEF Idle
  <2> QED
    BY <1>4, <1>6, <2>1
<1>8. /\ job' \in [Clients -> Job] /\ OwnNumbers' /\ job'[c] = q
      /\ \A d \in Clients : d # c => job'[d] = job[d]
      /\ \A s : job'[c].doc.by = s \/ s \in job'[c].found => s = 0 \/ Seen(s)
  BY <1>6, <1>7, ReturnsStep
<1>9. JobInv(c, job[c])'
  <2>1. CASE q = Idle
    BY <1>8, <2>1, IdleFine
  <2>2. CASE q = j
    BY <1>4, <1>8, <2>2 DEF JobInv, StoreOf, Progress, ReaderOf, RemoverOf, ResultsOf
  <2> QED
    BY <1>6, <2>1, <2>2
<1>10. /\ chunks' \subseteq chunks /\ index' \in {index, "none"}
       /\ disturbed \subseteq disturbed' /\ disturbed' = DOMAIN stores
  BY <1>1, <1>2, <1>3 DEF Typed
<1>11. Typed'
  BY <1>1, <1>3, <1>5, <1>8, <1>10 DEF Typed
<1>12. Bounds'
  BY <1>1, <1>3, <1>5, ParameterAssumption, StoreNumbers DEF Bounds
<1>13. FilesAreStored' /\ ChunksAreStored' /\ Indexed'
  <2>1. succeeded' \subseteq disturbed'
    BY <1>1, <1>3 DEF Typed
  <2> QED
    BY <1>1, <1>3, <1>10, <2>1 DEF WorldInv, FilesAreStored, ChunksAreStored, Indexed
<1>14. \A k \in chunks : k.by \in disturbed'
  BY <1>3, <1>10 DEF WorldInv, ChunksAreStored
<1>15. Mild(c)
  BY <1>1, <1>5, <1>8, <1>10, <1>14 DEF Mild
<1> QED
  BY <1>1, <1>8, <1>9, <1>11, <1>12, <1>13, <1>15 DEF Step

LEMMA DropFilesStep ==
  ASSUME Invariant, NEW c \in Clients, DropFiles(c)
  PROVE  Step(c)
<1>1. /\ job[c].op = "drop" /\ job[c].pc = "files" /\ disturbed' = DOMAIN stores
      /\ UNCHANGED <<chunks, index, calls, stores, succeeded>>
  BY DEF DropFiles, At
<1>2. PICK o \in Outcomes :
        /\ Exchange(c, Command, o)
        /\ files' = IF Applied(o) THEN [i \in Ids |-> NoFile] ELSE files
        /\ Goes(c, Returned(job[c], IF Thrown(o) THEN "exception" ELSE "done"))
  BY DEF DropFiles
<1>3. WorldInv /\ Typed /\ Bounds /\ job[c] \in Job
  BY JobFields DEF Invariant, WorldInv
<1>4. /\ link' \in [Clients -> {"up", "broken"}] /\ Bounds'
      /\ \A d \in Clients : d # c => link'[d] = link[d]
  BY <1>1, <1>2, <1>3, ExchangeFacts, BoundsStay
<1>5. PICK q : q = Returned(job[c], IF Thrown(o) THEN "exception" ELSE "done")
  OBVIOUS
<1>6. /\ q \in Job /\ Goes(c, q) /\ q.op # "store" /\ (q.doc = NoFile \/ q.doc = job[c].doc)
      /\ q.found = {} \/ q.found = job[c].found
      /\ q # Idle => /\ q.op = "drop" /\ q.pc = "idle" /\ q.result = "done"
                     /\ q.todo = {}
  <2>1. CASE Thrown(o)
    <3>1. q = Idle
      BY <1>3, <1>5, <2>1, ReturnedFacts
    <3>2. Idle.op # "store" /\ Idle.doc = NoFile /\ Idle.found = {}
      BY DEF Idle
    <3> QED
      BY <1>2, <1>5, <3>1, <3>2, IdleTyped
  <2>2. CASE ~Thrown(o)
    <3>1. q = Returned(job[c], "done")
      BY <1>5, <2>2
    <3> QED
      BY <1>1, <1>2, <1>3, <1>5, <2>2, <3>1, ReturnedFacts
  <2> QED
    BY <2>1, <2>2
<1>7. /\ job' \in [Clients -> Job] /\ OwnNumbers' /\ job'[c] = q
      /\ \A d \in Clients : d # c => job'[d] = job[d]
      /\ \A s : job'[c].doc.by = s \/ s \in job'[c].found => s = 0 \/ Seen(s)
  BY <1>6, ReturnsStep
<1>8. JobInv(c, job[c])'
  <2>1. CASE q = Idle
    BY <1>7, <2>1, IdleFine
  <2>2. CASE q # Idle
    BY <1>6, <1>7, <2>2 DEF JobInv, StoreOf, Progress, ReaderOf, RemoverOf, ResultsOf
  <2> QED
    BY <2>1, <2>2
<1>9. \A i \in Ids : files'[i] = files[i] \/ files'[i] = NoFile
  BY <1>2
<1>10. files' \in [Ids -> [by : Nat, len : Nat]]
  <2>1. NoFile \in [by : Nat, len : Nat]
    BY DEF NoFile
  <2> QED
    BY <1>2, <1>3, <2>1 DEF Typed
<1>11. Typed'
  BY <1>1, <1>3, <1>4, <1>7, <1>10 DEF Typed
<1>12. FilesAreStored' /\ ChunksAreStored' /\ Indexed'
  <2>1. succeeded' \subseteq disturbed'
    BY <1>1, <1>3 DEF Typed
  <2>2. FilesAreStored'
    BY <1>1, <1>3, <1>9 DEF WorldInv, FilesAreStored, NoFile
  <2> QED
    BY <1>1, <1>3, <2>1, <2>2 DEF WorldInv, ChunksAreStored, Indexed
<1>13. disturbed \subseteq disturbed'
  BY <1>1, <1>3 DEF Typed
<1>14. \A i \in Ids : files'[i] = files[i] \/ (files'[i] = NoFile /\ files[i].by \in disturbed')
  BY <1>1, <1>3, <1>9 DEF WorldInv, FilesAreStored
<1>15. Mild(c)
  BY <1>1, <1>4, <1>7, <1>13, <1>14 DEF Mild
<1> QED
  BY <1>1, <1>4, <1>7, <1>8, <1>11, <1>12, <1>15 DEF Step

LEMMA DieStep ==
  ASSUME Invariant, NEW c \in Clients, Die(c)
  PROVE  Step(c)
<1>1. WorldInv /\ Typed /\ Bounds /\ job[c] \in Job
  BY JobFields DEF Invariant, WorldInv
<1>2. Goes(c, Idle)
  BY <1>1, ReturnedFacts DEF Die
<1>3. /\ UNCHANGED calls /\ UNCHANGED <<files, chunks, index, stores, succeeded, disturbed>>
      /\ link' = [link EXCEPT ![c] = "up"] /\ faults < MaxFaults /\ faults' = faults + 1
  BY DEF Die, server, history
<1>4. Bounds'
  BY <1>1, <1>3, ParameterAssumption DEF Bounds
<1>5. /\ link' \in [Clients -> {"up", "broken"}]
      /\ \A d \in Clients : d # c => link'[d] = link[d]
      /\ disturbed' \subseteq DOMAIN stores
  BY <1>1, <1>3 DEF Typed
<1>6. JobInv(c, job[c])'
  BY <1>1, <1>2, IdleFine, IdleTyped, GoesFacts
<1>7. Idle.op # "store" /\ Idle.doc.by = 0 /\ Idle.found = {}
  BY DEF Idle, NoFile
<1> QED
  BY <1>2, <1>3, <1>4, <1>5, <1>6, <1>7, IdleTyped, QuietStep

-----------------------------------------------------------------------------
(* Reading.                                                                 *)

LEMMA FindOneStep ==
  ASSUME Invariant, NEW c \in Clients, NEW i \in Ids, NEW op \in {"getBytes", "write"},
         FindOne(c, i, op)
  PROVE  Step(c)
<1> PICK j : j = [Idle EXCEPT !.op = op, !.pc = "read", !.criteria = {i}, !.doc = files[i]]
  OBVIOUS
<1>1. /\ calls < MaxCalls /\ calls' = calls + 1
      /\ UNCHANGED <<files, chunks, index, stores, succeeded, disturbed>>
  BY DEF FindOne, Calls, server, history
<1>2. PICK o \in Outcomes :
        /\ Exchange(c, Command, o)
        /\ Goes(c, IF Thrown(o) THEN Returned(j, "exception")
                   ELSE IF files[i] = NoFile THEN Returned(j, "null") ELSE j)
  BY DEF FindOne
<1>3. WorldInv /\ Typed /\ Bounds /\ files[i] \in [by : Nat, len : Nat]
  BY DEF Invariant, WorldInv, Typed
<1>4. /\ link' \in [Clients -> {"up", "broken"}] /\ faults' \in 0..MaxFaults
      /\ \A d \in Clients : d # c => link'[d] = link[d]
  BY <1>2, <1>3, ExchangeFacts
<1>5. Bounds' /\ disturbed' \subseteq DOMAIN stores
  <2>1. Len(stores) \in Nat
    BY <1>3, StoreNumbers
  <2>2. Bounds'
    BY <1>1, <1>3, <1>4, <2>1, ParameterAssumption DEF Bounds
  <2> QED
    BY <1>1, <1>3, <2>2 DEF Typed
<1>6. j \in Job
  <2>1. PICK doc \in [by : Nat, len : Nat] : doc = files[i]
    BY <1>3
  <2>2. {i} \in SUBSET Ids
    OBVIOUS
  <2>3. op \in {"none", "store", "remove", "drop", "getBytes", "write"}
    OBVIOUS
  <2>4. PICK r \in Job : r = [Idle EXCEPT !.op = op, !.pc = "read"]
    BY <2>3, IdleTyped, JobExcept
  <2>5. [r EXCEPT !.criteria = {i}, !.doc = doc] \in Job
    BY <2>1, <2>2, JobExcept
  <2> QED
    BY <2>1, <2>4, <2>5
<1>7. /\ j.op = op /\ j.pc = "read" /\ j.criteria = {i} /\ j.doc = files[i] /\ j.result = "none"
      /\ j.todo = {} /\ j.found = {} /\ j.pos = 0 /\ j.n = 0 /\ j.gap = "none"
  BY DEF Idle
<1>8. PICK q \in Job : Goes(c, q) /\ (q = Idle \/ (q = j /\ files[i] # NoFile))
  <2>1. Returned(j, "exception") = Idle /\ Returned(j, "null") = Idle
    BY <1>6, ReturnedFacts
  <2> QED
    BY <1>2, <1>6, <2>1, IdleTyped
<1>9. job'[c] = q
  BY <1>3, <1>8, GoesFacts
<1>10. JobInv(c, job[c])'
  <2>1. CASE q = Idle
    BY <1>9, <2>1, IdleFine
  <2>2. CASE q = j /\ files[i] # NoFile
    <3>1. PICK s : s = files[i].by
      OBVIOUS
    <3>2. s \in DOMAIN stores /\ stores[s].id = i
      BY <1>3, <2>2, <3>1 DEF WorldInv, FilesAreStored
    <3>3. Offset(0)' = 0
      BY ParameterAssumption DEF Offset
    <3>4. ReaderOf(job[c])'
      BY <1>1, <1>7, <1>9, <2>2, <3>1, <3>2, <3>3 DEF ReaderOf
    <3>5. StoreOf(job[c])' /\ Progress(c, job[c])' /\ RemoverOf(c, job[c])' /\ ResultsOf(job[c])'
      BY <1>7, <1>9, <2>2 DEF StoreOf, Progress, RemoverOf, ResultsOf
    <3> QED
      BY <3>4, <3>5 DEF JobInv
  <2> QED
    BY <1>8, <2>1, <2>2
<1>11. \A s : q.doc.by = s \/ s \in q.found => s = 0 \/ Seen(s)
  <2>1. CASE q = Idle
    BY <2>1 DEF Idle, NoFile
  <2>2. CASE q = j
    BY <1>7, <2>2 DEF Seen
  <2> QED
    BY <1>8, <2>1, <2>2
<1>12. q.op # "store"
  <2>1. Idle.op # "store"
    BY DEF Idle
  <2> QED
    BY <1>7, <1>8, <2>1
<1> QED
  BY <1>1, <1>4, <1>5, <1>8, <1>10, <1>11, <1>12, QuietStep


LEMMA OffsetMonotone ==
  ASSUME NEW m \in Nat, NEW n \in Nat, m <= n
  PROVE  Offset(m) <= Offset(n)
<1>1. PICK d \in Nat : n = m + d
  <2>1. n - m \in Nat /\ n = m + (n - m)
    OBVIOUS
  <2> QED
    BY <2>1
<1>2. PICK size \in Nat : size = ChunkSize
  BY ParameterAssumption
<1>3. d * size >= 0 /\ m * size \in Nat /\ (m + d) * size = m * size + d * size /\ d * size \in Nat
  BY Z3
<1> QED
  BY <1>1, <1>2, <1>3 DEF Offset

\* Where a place within a stored file is, the chunk for it is there.
LEMMA ChunkAt ==
  ASSUME Typed, ChunksAreStored, NEW s \in Nat, NEW total \in Nat, NEW len \in Nat,
         Prefix(s, total, len), NEW n \in Nat, Offset(n) < len
  PROVE  /\ n < total
         /\ \E k \in chunks : k.by = s /\ k.n = n
         /\ \A k \in chunks : k.by = s /\ k.n = n =>
              (Offset(n) + k.size < len => k.size = ChunkSize)
<1>1. total # 0
  <2>1. Offset(n) >= 0
    <3>1. Offset(0) = 0 /\ Offset(0) <= Offset(n)
      BY OffsetNext, OffsetMonotone
    <3> QED
      BY <3>1, OffsetNext
  <2>2. Offset(n) \in Int
    BY OffsetNext
  <2> QED
    BY <2>1, <2>2 DEF Prefix
<1>2. PICK last \in chunks : last.by = s /\ last.n = total - 1
  BY <1>1 DEF Prefix
<1>3. Offset(total - 1) + last.size = len /\ last.size <= ChunkSize /\ last.size \in Nat
  BY <1>2 DEF Prefix, ChunksAreStored, Typed
<1>4. Offset(total) = Offset(total - 1) + ChunkSize /\ Offset(total) \in Int
      /\ Offset(total - 1) \in Int /\ Offset(n) \in Int /\ ChunkSize \in Int
  BY OffsetNext, ParameterAssumption
<1>5. len <= Offset(total)
  BY <1>3, <1>4
<1>6. n < total
  <2>1. CASE total <= n
    BY <1>4, <1>5, <2>1, OffsetMonotone
  <2> QED
    BY <2>1
<1>7. \E k \in chunks : k.by = s /\ k.n = n
  BY <1>6 DEF Prefix
<1>8. ASSUME NEW k \in chunks, k.by = s, k.n = n, Offset(n) + k.size < len
      PROVE  k.size = ChunkSize
  BY <1>6, <1>8 DEF Prefix
<1> QED
  BY <1>6, <1>7, <1>8

\* The next chunk of the reader of a file that is whole is that of the file.
LEMMA NextChunkOfWhole ==
  ASSUME Invariant, NEW c \in Clients, NEW s \in succeeded \ disturbed, Acknowledged(s),
         job[c].doc = files[stores[s].id], job[c].criteria = {stores[s].id},
         job[c].pos < job[c].doc.len, job[c].pos = Offset(job[c].n)
  PROVE  /\ NextChunks(job[c]) # {}
         /\ \A k \in NextChunks(job[c]) :
              /\ k.by = s /\ k.n = job[c].n
              /\ job[c].pos + k.size < job[c].doc.len => job[c].pos + k.size = Offset(k.n + 1)
<1> PICK n, pos, len, id : /\ n = job[c].n /\ pos = job[c].pos /\ len = job[c].doc.len
                           /\ id = stores[s].id
  OBVIOUS
<1>1. /\ WorldInv /\ Typed /\ ChunksAreStored /\ s \in DOMAIN stores /\ s \in Nat
      /\ n \in Nat /\ pos \in Nat /\ len \in Nat
  <2>1. WorldInv /\ Typed /\ ChunksAreStored
    BY DEF Invariant, WorldInv
  <2>2. s \in DOMAIN stores /\ s \in Nat
    BY <2>1, StoreNumbers DEF Typed
  <2> QED
    BY <2>1, <2>2, JobFields
<1>2. Whole(s)
  BY <1>1 DEF WorldInv, StoresAreWhole
<1>3. PICK total \in Nat : Prefix(s, total, len)
  BY <1>2 DEF Whole
<1>4. Offset(n) < len /\ pos = Offset(n)
  OBVIOUS
<1>5. PICK k \in chunks : k.by = s /\ k.n = n
  BY <1>1, <1>3, <1>4, ChunkAt
<1>6. k.id = id
  BY <1>1, <1>5 DEF ChunksAreStored
<1>7. \A l \in chunks : l.id = id /\ l.n = n => l = k
  <2>1. index = "unique"
    BY <1>1 DEF WorldInv, Indexed
  <2> QED
    BY <1>1, <1>5, <1>6, <2>1 DEF WorldInv, Indexed
<1>8. \A l \in chunks : l.n \in Nat /\ l.size \in Nat
  BY <1>1 DEF Typed
<1>9. NextChunks(job[c]) = {k}
  <2>1. k \in NextChunks(job[c])
    BY <1>1, <1>5, <1>6, <1>8 DEF NextChunks
  <2>2. ASSUME NEW l \in NextChunks(job[c])
        PROVE  l = k
    <3>1. l \in chunks /\ l.id = id /\ l.n >= n /\ l.n <= k.n
      BY <1>1, <1>5, <1>6, <1>8 DEF NextChunks
    <3>2. l.n = n
      BY <1>1, <1>5, <1>8, <3>1
    <3> QED
      BY <1>7, <3>1, <3>2
  <2> QED
    BY <2>1, <2>2
<1>10. pos + k.size < len => pos + k.size = Offset(k.n + 1)
  <2>1. pos + k.size < len => k.size = ChunkSize
    BY <1>1, <1>3, <1>4, <1>5, ChunkAt
  <2>2. Offset(n + 1) = Offset(n) + ChunkSize
    BY <1>1, OffsetNext
  <2> QED
    BY <1>4, <1>5, <2>1, <2>2
<1> QED
  BY <1>5, <1>9, <1>10


LEMMA ReadChunkStep ==
  ASSUME Invariant, NEW c \in Clients, ReadChunk(c)
  PROVE  Step(c)
<1> PICK s, n, pos, doc : s = doc.by /\ n = job[c].n /\ pos = job[c].pos /\ doc = job[c].doc
  OBVIOUS
<1>1. /\ job[c].op \in {"getBytes", "write"} /\ job[c].pc = "read" /\ UNCHANGED calls
      /\ UNCHANGED <<files, chunks, index, stores, succeeded, disturbed>>
  BY DEF ReadChunk, server, history
<1>2. /\ WorldInv /\ Typed /\ job[c] \in Job /\ ReaderOf(job[c]) /\ ResultsOf(job[c])
      /\ n \in Nat /\ pos \in Nat /\ doc.len \in Nat /\ job[c].todo = {}
      /\ job[c].result # "bytes" /\ job[c].result # "done"
  <2>1. WorldInv /\ Typed /\ ReaderOf(job[c]) /\ ResultsOf(job[c])
    BY DEF Invariant, WorldInv, JobInv
  <2> QED
    BY <1>1, <2>1, JobFields DEF ResultsOf
<1>3. PICK o \in Outcomes :
        /\ Exchange(c, Command, o)
        /\ IF Thrown(o) THEN Goes(c, Returned(job[c], "exception"))
           ELSE IF NextChunks(job[c]) = {}
           THEN Goes(c, [Returned(job[c], IF job[c].n = 0 THEN "exception" ELSE "bytes")
                           EXCEPT !.gap = IF job[c].pos < job[c].doc.len THEN "some" ELSE @])
           ELSE \E k \in NextChunks(job[c]) :
                  Goes(c, IF job[c].pos + k.size > Room(job[c]) THEN Returned(job[c], "exception")
                          ELSE [job[c] EXCEPT !.pos = @ + k.size, !.n = k.n + 1,
                                  !.gap = IF /\ job[c].pos < job[c].doc.len
                                             /\ ~(k.by = job[c].doc.by /\ k.n = job[c].n)
                                          THEN "some" ELSE @])
  BY DEF ReadChunk
<1>4. /\ link' \in [Clients -> {"up", "broken"}] /\ Bounds'
      /\ \A d \in Clients : d # c => link'[d] = link[d]
      /\ disturbed' \subseteq DOMAIN stores
  BY <1>1, <1>2, <1>3, ExchangeFacts, BoundsStay DEF WorldInv, Typed
<1>5. ASSUME s \in succeeded \ disturbed, Acknowledged(s)
      PROVE  /\ job[c].gap = "none"
             /\ job[c].criteria = {stores[s].id} /\ job[c].doc = files[stores[s].id]
             /\ pos < doc.len => pos = Offset(n)
             /\ pos < doc.len => NextChunks(job[c]) # {}
             /\ pos < doc.len => \A k \in NextChunks(job[c]) :
                  /\ k.by = s /\ k.n = n
                  /\ pos + k.size < doc.len => pos + k.size = Offset(k.n + 1)
  <2>1. /\ job[c].gap = "none" /\ (pos < doc.len => pos = Offset(n))
        /\ job[c].criteria = {stores[s].id} /\ job[c].doc = files[stores[s].id]
    BY <1>1, <1>2, <1>5 DEF ReaderOf
  <2> QED
    BY <1>5, <2>1, NextChunkOfWhole
<1>6. ASSUME NEW j \in Job, Goes(c, j), ReaderOf(job[c])',
             \/ j = Idle
             \/ /\ j.op = job[c].op /\ j.doc = job[c].doc /\ j.found = job[c].found /\ j.todo = {}
                /\ j.result \in {"none", "bytes"} /\ (j.result = "bytes" => j.pc = "idle")
      PROVE  Step(c)
  <2>1. job'[c] = j
    BY <1>2, <1>6, GoesFacts
  <2>2. JobInv(c, job[c])'
    <3>1. CASE j = Idle
      BY <2>1, <3>1, IdleFine
    <3>2. CASE j # Idle
      BY <1>1, <1>6, <2>1, <3>2 DEF JobInv, StoreOf, Progress, RemoverOf, ResultsOf
    <3> QED
      BY <3>1, <3>2
  <2>3. j.op # "store" /\ \A t : j.doc.by = t \/ t \in j.found => t = 0 \/ Seen(t)
    <3>1. CASE j = Idle
      BY <3>1 DEF Idle, NoFile
    <3>2. CASE j # Idle
      BY <1>1, <1>6, <3>2, SeenBy
    <3> QED
      BY <3>1, <3>2
  <2> QED
    BY <1>1, <1>4, <1>6, <2>2, <2>3, QuietStep
<1>7. ASSUME Goes(c, Idle)
      PROVE  Step(c)
  <2>1. job'[c] = Idle
    BY <1>2, <1>7, IdleTyped, GoesFacts
  <2>2. ReaderOf(job[c])'
    BY <2>1 DEF ReaderOf, Idle
  <2> QED
    BY <1>6, <1>7, <2>2, IdleTyped
<1>8. CASE Thrown(o)
  BY <1>2, <1>3, <1>7, <1>8, ReturnedFacts
<1>9. CASE ~Thrown(o) /\ NextChunks(job[c]) = {}
  <2>1. PICK what : what = (IF job[c].n = 0 THEN "exception" ELSE "bytes")
    OBVIOUS
  <2>2. PICK r : r = Returned(job[c], what)
    OBVIOUS
  <2>3. PICK gap : gap = (IF job[c].pos < job[c].doc.len THEN "some" ELSE r.gap)
    OBVIOUS
  <2>4. PICK j : j = [r EXCEPT !.gap = gap]
    OBVIOUS
  <2>5. Goes(c, j)
    BY <1>3, <1>9, <2>1, <2>2, <2>3, <2>4
  <2>6. r \in Job /\ r.gap \in {"none", "some"} /\ gap \in {"none", "some"}
    <3>1. r \in Job
      BY <1>2, <2>2, ReturnedFacts
    <3>2. r.gap \in {"none", "some"}
      BY <3>1 DEF Job
    <3> QED
      BY <2>3, <3>1, <3>2
  <2>7. j \in Job
    BY <2>4, <2>6, JobExcept
  <2>8. j.op = r.op /\ j.doc = r.doc /\ j.found = r.found /\ j.todo = r.todo
        /\ j.result = r.result /\ j.pc = r.pc /\ j.gap = gap
    BY <2>4, <2>6 DEF Job
  <2>9. job'[c] = j
    BY <1>2, <2>5, <2>7, GoesFacts
  <2>10. CASE what = "exception"
    <3>1. r = Idle
      BY <1>2, <2>2, <2>10, ReturnedFacts
    <3>2. j.op = "none" /\ j.doc = NoFile /\ j.found = {} /\ j.todo = {} /\ j.result = "none"
      BY <2>8, <3>1 DEF Idle
    <3>3. job'[c].op = "none" /\ job'[c].found = {} /\ job'[c].doc = NoFile /\ job'[c].todo = {}
          /\ job'[c].result = "none"
      BY <2>9, <3>2
    <3>4. JobInv(c, job[c])'
      BY <3>3 DEF JobInv, StoreOf, Progress, ReaderOf, RemoverOf, ResultsOf, NoFile
    <3>5. \A t : j.doc.by = t \/ t \in j.found => t = 0 \/ Seen(t)
      BY <3>2 DEF NoFile
    <3> QED
      BY <1>1, <1>4, <2>5, <2>7, <3>2, <3>4, <3>5, QuietStep
  <2>11. CASE what = "bytes"
    <3>1. /\ r.op = job[c].op /\ r.pc = "idle" /\ r.result = "bytes" /\ r.found = job[c].found
          /\ r.doc = job[c].doc /\ r.gap = job[c].gap /\ r.todo = {}
      BY <1>2, <2>2, <2>11, ReturnedFacts
    <3>2. s \in succeeded \ disturbed /\ Acknowledged(s) => gap = "none"
      BY <1>2, <1>5, <1>9, <2>3, <3>1
    <3>3. Acknowledged(s)' <=> Acknowledged(s)
      BY <1>1 DEF Acknowledged
    <3>4. ReaderOf(job[c])'
      BY <1>1, <2>8, <2>9, <3>1, <3>2, <3>3 DEF ReaderOf
    <3> QED
      BY <1>6, <2>5, <2>7, <2>8, <3>1, <3>4
  <2> QED
    BY <2>1, <2>10, <2>11
<1>10. CASE ~Thrown(o) /\ NextChunks(job[c]) # {}
  <2>1. PICK k \in NextChunks(job[c]) :
          Goes(c, IF job[c].pos + k.size > Room(job[c]) THEN Returned(job[c], "exception")
                  ELSE [job[c] EXCEPT !.pos = @ + k.size, !.n = k.n + 1,
                          !.gap = IF /\ job[c].pos < job[c].doc.len
                                     /\ ~(k.by = job[c].doc.by /\ k.n = job[c].n)
                                  THEN "some" ELSE @])
    BY <1>3, <1>10
  <2>2. CASE job[c].pos + k.size > Room(job[c])
    BY <1>2, <1>7, <2>1, <2>2, ReturnedFacts
  <2>3. CASE ~(job[c].pos + k.size > Room(job[c]))
    <3>1. k.n \in Nat /\ k.size \in Nat
      <4>1. k \in chunks
        BY DEF NextChunks
      <4> QED
        BY <1>2, <4>1 DEF Typed
    <3>2. PICK gap : gap = (IF /\ job[c].pos < job[c].doc.len
                               /\ ~(k.by = job[c].doc.by /\ k.n = job[c].n)
                            THEN "some" ELSE job[c].gap)
      OBVIOUS
    <3>3. gap \in {"none", "some"}
      BY <1>2, <3>2 DEF Job
    <3>4. PICK newPos \in Nat, newN \in Nat : newPos = pos + k.size /\ newN = k.n + 1
      BY <1>2, <3>1
    <3>5. PICK j \in Job : j = [job[c] EXCEPT !.pos = newPos, !.n = newN, !.gap = gap]
      BY <1>2, <3>3, JobExcept
    <3>6. Goes(c, j)
      BY <2>1, <2>3, <3>2, <3>4, <3>5
    <3>7. /\ j.op = job[c].op /\ j.pc = job[c].pc /\ j.doc = job[c].doc /\ j.found = job[c].found
          /\ j.todo = job[c].todo /\ j.result = job[c].result /\ j.criteria = job[c].criteria
          /\ j.pos = newPos /\ j.n = newN /\ j.gap = gap
      BY <1>2, <3>5 DEF Job
    <3>8. job'[c] = j
      BY <1>2, <3>6, GoesFacts
    <3>9. ASSUME s \in succeeded \ disturbed, Acknowledged(s)
          PROVE  gap = "none" /\ (newPos < doc.len => newPos = Offset(newN))
      <4>1. CASE pos < doc.len
        BY <1>5, <3>2, <3>4, <3>9, <4>1
      <4>2. CASE ~(pos < doc.len)
        BY <1>2, <1>5, <3>1, <3>2, <3>4, <3>9, <4>2
      <4> QED
        BY <4>1, <4>2
    <3>10. Offset(newN)' = Offset(newN) /\ (Acknowledged(s)' <=> Acknowledged(s))
      BY <1>1 DEF Acknowledged, Offset
    <3>11. ReaderOf(job[c])'
      BY <1>1, <1>2, <1>5, <3>7, <3>8, <3>9, <3>10 DEF ReaderOf
    <3>12. j.result \in {"none", "bytes"} /\ (j.result = "bytes" => j.pc = "idle")
      BY <1>2, <3>5, <3>7 DEF Job
    <3> QED
      BY <1>2, <1>6, <3>6, <3>7, <3>11, <3>12
  <2> QED
    BY <2>2, <2>3
<1> QED
  BY <1>8, <1>9, <1>10

-----------------------------------------------------------------------------
(* The invariant, and what follows from it.                                 *)

LEMMA InitInvariant == Init => Invariant
<1> SUFFICES ASSUME Init
             PROVE  Invariant
  OBVIOUS
<1>1. NoFile \in [by : Nat, len : Nat] /\ NoFile.by = 0
  BY DEF NoFile
<1>2. \A c \in Clients : job[c] = Idle
  BY DEF Init
<1>3. Typed
  BY <1>1, IdleTyped DEF Init, Typed
<1>4. Idle.op = "none" /\ Idle.result = "none" /\ Idle.found = {} /\ Idle.doc = NoFile /\ Idle.todo = {}
  BY DEF Idle
<1>5. OwnNumbers /\ FilesAreStored /\ ChunksAreStored /\ Indexed /\ StoresAreWhole
  BY <1>1, <1>2, <1>4 DEF Init, OwnNumbers, FilesAreStored, ChunksAreStored, Indexed, StoresAreWhole
<1>6. KnownStores
  BY <1>1, <1>2, <1>4 DEF Init, KnownStores, Seen
<1>7. Bounds
  BY ParameterAssumption DEF Init, Bounds
<1>8. \A c \in Clients : JobInv(c, job[c])
  BY <1>2, <1>4 DEF JobInv, StoreOf, Progress, ReaderOf, RemoverOf, ResultsOf
<1> QED
  BY <1>3, <1>5, <1>6, <1>7, <1>8 DEF Invariant, WorldInv

LEMMA NextInvariant == Invariant /\ [Next]_vars => Invariant'
<1> SUFFICES ASSUME Invariant, [Next]_vars
             PROVE  Invariant'
  OBVIOUS
<1>1. CASE UNCHANGED vars
  <2>1. WorldInv'
    BY <1>1 DEF vars, Invariant, WorldInv, Typed, OwnNumbers, FilesAreStored,
       ChunksAreStored, Indexed, KnownStores, Bounds, StoresAreWhole, Whole, Prefix, Offset, Seen,
       Acknowledged
  <2>2. ASSUME NEW c \in Clients
        PROVE  JobInv(c, job[c])'
    <3>1. JobInv(c, job[c])
      BY DEF Invariant
    <3>2. StoreOf(job[c])' /\ ResultsOf(job[c])'
      BY <1>1, <3>1 DEF vars, JobInv, StoreOf, Seen, ResultsOf
    <3>3. Progress(c, job[c])'
      BY <1>1, <3>1 DEF vars, JobInv, Progress, Prefix, Offset, Acknowledged
    <3>4. ReaderOf(job[c])' /\ RemoverOf(c, job[c])'
      BY <1>1, <3>1 DEF vars, JobInv, ReaderOf, RemoverOf, NoChunks, Offset, Acknowledged
    <3> QED
      BY <3>2, <3>3, <3>4 DEF JobInv
  <2> QED
    BY <2>1, <2>2 DEF Invariant
<1>2. CASE Next
  <2>1. PICK c \in Clients :
          \/ \E i \in Ids, len \in Lengths, concern \in Concerns :
               \/ "bytes" \in Sources /\ StoreBytes(c, i, len, concern)
               \/ \E kind \in Sources : StoreFile(c, i, len, kind, concern)
          \/ \E i \in Ids, len \in Lengths, concern \in Concerns :
               \E more \in Uploads : StoreUpload(c, i, len, concern.db, more)
          \/ \E i \in Ids, len \in Lengths : NextUpload(c, i, len)
          \/ InsertChunk(c) \/ ReadError(c) \/ GetLastError(c) \/ AddMd5(c) \/ InsertFile(c)
          \/ Undo(c)
          \/ \E ids \in SUBSET Ids \ {{}}, limit \in {"one", "all"}, concern \in Concerns :
               Remove(c, ids, limit, concern)
          \/ FindFiles(c) \/ RemoveChunks(c) \/ RemoveFiles(c) \/ Drop(c) \/ DropFiles(c)
          \/ \E i \in Ids, op \in {"getBytes", "write"} : FindOne(c, i, op)
          \/ ReadChunk(c) \/ Die(c)
    BY <1>2 DEF Next
  <2>2. Step(c)
    BY <2>1, StoresBegin, NextUploadStep, InsertChunkStep, ReadErrorStep, GetLastErrorStep,
       AddMd5Step, InsertFileStep, UndoStep, RemoveStep, FindFilesStep, RemoveChunksStep,
       RemoveFilesStep, DropStep, DropFilesStep, FindOneStep, ReadChunkStep, DieStep
  <2> QED
    BY <2>2, StepKeeps
<1> QED
  BY <1>1, <1>2

LEMMA InvariantHolds == Spec => []Invariant
BY InitInvariant, NextInvariant, PTL DEF Spec


\* Types: what a file, a chunk, a call and the history look like.
THEOREM TypeCorrect == Spec => []TypeOK
<1>1. Invariant => TypeOK
  <2> SUFFICES ASSUME Invariant
               PROVE  TypeOK
    OBVIOUS
  <2>1. WorldInv /\ Typed /\ Bounds
    BY DEF Invariant, WorldInv
  <2>2. files \in [Ids -> [by : 0..MaxCalls, len : Nat]]
    <3>1. \A i \in Ids : files[i].by = 0 \/ files[i].by \in DOMAIN stores
      BY <2>1 DEF WorldInv, FilesAreStored
    <3>2. \A s \in DOMAIN stores : s \in 0..MaxCalls
      BY <2>1, StoreNumbers, ParameterAssumption DEF Bounds
    <3>3. \A i \in Ids : files[i].by \in 0..MaxCalls
      BY <3>1, <3>2, ParameterAssumption
    <3>4. ASSUME NEW i \in Ids
          PROVE  files[i] \in [by : 0..MaxCalls, len : Nat]
      <4>1. files[i] \in [by : Nat, len : Nat]
        BY <2>1 DEF Typed
      <4> QED
        BY <3>3, <4>1
    <3> QED
      BY <2>1, <3>4 DEF Typed
  <2>3. \A k \in chunks : /\ k.by \in DOMAIN stores /\ k.id = stores[k.by].id
                          /\ k.n \in Nat /\ k.size \in 0..ChunkSize
    BY <2>1, ParameterAssumption DEF WorldInv, ChunksAreStored, Typed
  <2>4. ASSUME NEW c \in Clients
        PROVE  /\ job[c].op \in {"none", "store", "remove", "drop", "getBytes", "write"}
               /\ job[c].pc \in {"idle", "source", "gle", "md5", "file", "undo", "next", "find",
                                 "chunks", "files", "read"}
               /\ job[c].result \in {"none", "done", "bytes"}
               /\ job[c].criteria \subseteq Ids /\ job[c].todo \subseteq job[c].criteria
               /\ job[c].op = "store" => job[c].pos <= job[c].len
    <3>1. job[c] \in Job /\ JobInv(c, job[c])
      BY <2>1 DEF Typed, Invariant
    <3>2. job[c].op = "store" => job[c].pos <= job[c].len
      BY <3>1 DEF JobInv, StoreOf
    <3>3. job[c].todo \subseteq job[c].criteria
      BY <3>1 DEF JobInv, RemoverOf, ResultsOf
    <3> QED
      BY <3>1, <3>2, <3>3 DEF Job
  <2>5. Len(stores) <= MaxCalls
    BY <2>1, StoreNumbers, ParameterAssumption DEF Bounds
  <2> QED
    BY <2>1, <2>2, <2>3, <2>4, <2>5 DEF TypeOK, Typed, Bounds
<1> QED
  BY <1>1, InvariantHolds, PTL

LEMMA DivMod ==
  ASSUME NEW a \in Nat, NEW c \in Nat \ {0}
  PROVE  /\ a \div c \in Nat /\ a % c \in 0..(c - 1)
         /\ a = c * (a \div c) + (a % c)
<1>1. a \div c \in Int
  BY Z3
<1>2. a % c \in 0..(c - 1)
  BY Z3
<1>3. a = c * (a \div c) + (a % c)
  BY Z3
<1>4. a \div c >= 0
  BY Z3
<1> QED BY <1>1, <1>2, <1>3, <1>4

\* Every place of a file is that of a byte of one of its chunks.
LEMMA ChunkOfByte ==
  ASSUME NEW p \in Nat
  PROVE  \E n \in Nat : Offset(n) <= p /\ p < Offset(n) + ChunkSize
<1>1. PICK size \in Nat \ {0} : size = ChunkSize
  BY ParameterAssumption
<1>2. PICK n \in Nat, rest \in 0..(size - 1) : p = size * n + rest
  <2>1. /\ p \div size \in Nat /\ p % size \in 0..(size - 1)
        /\ p = size * (p \div size) + (p % size)
    BY <1>1, DivMod
  <2> QED
    BY <2>1
<1>3. n * size = size * n /\ size * n \in Nat
  BY Z3
<1>4. Offset(n) <= p /\ p < Offset(n) + ChunkSize
  BY <1>1, <1>2, <1>3 DEF Offset
<1> QED
  BY <1>4

\* What an acknowledged store that returned an id, none of its inserts dropped,
\* leaves is whole until a removal begins.
THEOREM StoredFilesAreWhole == Spec => []StoredIsWhole
<1>1. Invariant => StoredIsWhole
  <2> SUFFICES ASSUME Invariant, NEW s \in succeeded \ disturbed, Acknowledged(s)
               PROVE  /\ files[stores[s].id].by = s
                      /\ stores[s].kind # "pipe" => files[stores[s].id].len = stores[s].len
                      /\ \A k, l \in { k \in chunks : k.by = s } : k.n = l.n => k = l
                      /\ \A k \in { k \in chunks : k.by = s } :
                           Offset(k.n) + k.size <= files[stores[s].id].len
                      /\ \A p \in 0..(files[stores[s].id].len - 1) :
                           \E k \in { k \in chunks : k.by = s } :
                             Offset(k.n) <= p /\ p < Offset(k.n) + k.size
    BY DEF StoredIsWhole
  <2> PICK id, len : id = stores[s].id /\ len = files[id].len
    OBVIOUS
  <2>1. /\ WorldInv /\ Typed /\ ChunksAreStored /\ s \in DOMAIN stores /\ s \in Nat
        /\ id \in Ids /\ len \in Nat /\ Whole(s)
    <3>1. WorldInv /\ Typed /\ ChunksAreStored /\ StoresAreWhole
      BY DEF Invariant, WorldInv
    <3>2. s \in DOMAIN stores /\ s \in Nat
      BY <3>1, StoreNumbers DEF Typed
    <3>3. id \in Ids
      BY <3>1, <3>2, StoreFields
    <3> QED
      BY <3>1, <3>2, <3>3 DEF StoresAreWhole, Typed
  <2>2. files[id].by = s /\ (stores[s].kind # "pipe" => len = stores[s].len)
    BY <2>1 DEF Whole
  <2>3. PICK total \in Nat : Prefix(s, total, len)
    BY <2>1 DEF Whole
  <2>4. \A k \in chunks : k.n \in Nat /\ k.size \in Nat /\ k.size <= ChunkSize
    BY <2>1 DEF Typed, ChunksAreStored
  <2>5. ASSUME NEW k \in chunks, NEW l \in chunks, k.by = s, l.by = s, k.n = l.n
        PROVE  k = l
    BY <2>1, <2>5 DEF WorldInv, Indexed, ChunksAreStored
  <2>6. ASSUME NEW k \in chunks, k.by = s
        PROVE  Offset(k.n) + k.size <= len
    <3>1. k.n < total /\ (k.n < total - 1 => k.size = ChunkSize)
          /\ (k.n = total - 1 => Offset(k.n) + k.size = len)
      BY <2>3, <2>6 DEF Prefix
    <3> PICK n \in Nat, size \in Nat : n = k.n /\ size = k.size
      BY <2>4
    <3>2. CASE k.n = total - 1
      <4>1. Offset(n) + size = len
        BY <3>1, <3>2
      <4> QED
        BY <2>1, <4>1
    <3>3. CASE k.n < total - 1
      <4>1. total - 1 \in Nat /\ k.n + 1 \in Nat /\ k.n + 1 <= total - 1
        BY <2>4, <3>3
      <4>2. PICK last \in chunks : last.by = s /\ last.n = total - 1
        BY <2>3, <4>1 DEF Prefix
      <4>3. Offset(total - 1) + last.size = len
        BY <2>3, <4>2 DEF Prefix
      <4> PICK m \in Nat : m = total - 1
        BY <4>1
      <4>4. Offset(n + 1) <= Offset(m) /\ Offset(n + 1) = Offset(n) + ChunkSize
        <5>1. n \in Nat /\ n + 1 \in Nat /\ n \in Int /\ n + 1 <= m
          BY <4>1
        <5> QED
          BY <5>1, OffsetNext, OffsetMonotone
      <4>5. Offset(n) \in Int /\ Offset(m) \in Int /\ ChunkSize \in Int
        <5>1. Offset(n) \in Int
          BY OffsetNext
        <5>2. Offset(m) \in Int
          BY OffsetNext
        <5> QED
          BY <5>1, <5>2, ParameterAssumption
      <4> QED
        BY <2>1, <2>4, <3>1, <3>3, <4>2, <4>3, <4>4, <4>5
    <3> QED
      BY <2>4, <3>1, <3>2, <3>3
  <2>7. ASSUME NEW p \in 0..(len - 1)
        PROVE  \E k \in chunks : k.by = s /\ Offset(k.n) <= p /\ p < Offset(k.n) + k.size
    <3>1. p \in Nat /\ p < len
      BY <2>1
    <3>2. PICK n \in Nat : Offset(n) <= p /\ p < Offset(n) + ChunkSize
      BY <3>1, ChunkOfByte
    <3>3. Offset(n) \in Int
      BY OffsetNext
    <3>4. Offset(n) < len
      BY <2>1, <3>1, <3>2, <3>3
    <3>5. /\ \E k \in chunks : k.by = s /\ k.n = n
          /\ \A k \in chunks : k.by = s /\ k.n = n => (Offset(n) + k.size < len => k.size = ChunkSize)
      <4>1. Typed /\ ChunksAreStored /\ s \in Nat /\ len \in Nat
        BY <2>1
      <4>2. \E k \in chunks : k.by = s /\ k.n = n
        BY <2>3, <3>4, <4>1, ChunkAt
      <4>3. \A k \in chunks : k.by = s /\ k.n = n => (Offset(n) + k.size < len => k.size = ChunkSize)
        BY <2>3, <3>4, <4>1, ChunkAt
      <4> QED
        BY <4>2, <4>3
    <3>6. PICK k \in chunks : k.by = s /\ k.n = n /\ (Offset(n) + k.size < len => k.size = ChunkSize)
      BY <3>5
    <3>7. k.size \in Nat
      BY <2>4
    <3> QED
      BY <2>1, <3>1, <3>2, <3>3, <3>6, <3>7
  <2> QED
    BY <2>2, <2>5, <2>6, <2>7
<1> QED
  BY <1>1, InvariantHolds, PTL

\* What is read without an exception of such a file, and of no other, has no gap.
THEOREM ReadsAreWhole == Spec => []ReadsWhole
<1>1. Invariant => ReadsWhole
  <2> SUFFICES ASSUME Invariant, NEW c \in Clients, job[c].op \in {"getBytes", "write"},
                      job[c].doc.by \in succeeded \ disturbed, Acknowledged(job[c].doc.by)
               PROVE  job[c].gap = "none"
    BY DEF ReadsWhole
  <2> QED
    BY DEF Invariant, JobInv, ReaderOf
<1> QED
  BY <1>1, InvariantHolds, PTL

\* A removal that reported no error, none of its deletes lost in silence, leaves
\* nothing of the files it found and whose store had ended well.
THEOREM RemovedFilesAreGone == Spec => []RemovedIsGone
<1>1. Invariant => RemovedIsGone
  <2> SUFFICES ASSUME Invariant, NEW c \in Clients, job[c].op = "remove", job[c].result = "done",
                      ~job[c].silent, NEW s \in job[c].found \cap succeeded
               PROVE  files[stores[s].id].by # s /\ \A k \in chunks : k.by # s
    BY DEF RemovedIsGone
  <2> QED
    BY DEF Invariant, JobInv, RemoverOf, NoChunks
<1> QED
  BY <1>1, InvariantHolds, PTL


-----------------------------------------------------------------------------
(***************************************************************************)
(* Proofs about GridStream: that the buffer keeps in step with the offset,    *)
(* and that the stream implements ByteStream, for files and chunks of any    *)
(* size, any number of bytes asked for and any chunks missing.               *)
(***************************************************************************)
\* A multiple of c between -c and c is zero.
LEMMA SmallMultiple ==
  ASSUME NEW z \in Int, NEW c \in Nat \ {0}, NEW d \in Int, d = c * z, -c < d, d < c
  PROVE  z = 0
<1>1. CASE z >= 1
  <2>1. c * z >= c
    BY <1>1, Z3
  <2> QED BY <2>1
<1>2. CASE z <= -1
  <2>1. c * z <= -c
    BY <1>2, Z3
  <2> QED BY <2>1
<1> QED BY <1>1, <1>2

\* Quotient and remainder are the only ones.
LEMMA Quotient ==
  ASSUME NEW a \in Nat, NEW c \in Nat \ {0}, NEW q \in Nat, NEW r \in 0..(c - 1), a = c * q + r
  PROVE  a \div c = q /\ a % c = r
<1> DEFINE x == a \div c
<1> DEFINE y == a % c
<1>1. x \in Nat /\ y \in 0..(c - 1) /\ a = c * x + y
  BY DivMod
<1> HIDE DEF x, y
<1>2. c * (x - q) = r - y
  BY <1>1, Z3
<1>3. x - q = 0
  BY <1>1, <1>2, SmallMultiple, -c < r - y, r - y < c
<1>4. x = q /\ y = r
  BY <1>1, <1>3
<1> QED BY <1>4 DEF x, y

\* Two places that agree in their chunks agree after the same number of bytes.
LEMMA InStep ==
  ASSUME NEW a \in Nat, NEW b \in Nat, NEW k \in Nat, NEW c \in Nat \ {0}, a % c = b % c
  PROVE  (a + k) % c = (b + k) % c
<1> DEFINE p == a \div c
<1> DEFINE q == b \div c
<1> DEFINE r == a % c
<1> DEFINE x == (r + k) \div c
<1> DEFINE y == (r + k) % c
<1>1. /\ p \in Nat /\ q \in Nat /\ r \in 0..(c - 1)
      /\ a = c * p + r /\ b = c * q + r
  BY DivMod
<1> HIDE DEF p, q, r
<1>2. r + k \in Nat
  BY <1>1
<1>3. x \in Nat /\ y \in 0..(c - 1) /\ r + k = c * x + y
  BY <1>2, DivMod
<1> HIDE DEF x, y
<1>4. a + k = c * (p + x) + y /\ b + k = c * (q + x) + y
  BY <1>1, <1>3, Z3
<1>5. p + x \in Nat /\ q + x \in Nat /\ a + k \in Nat /\ b + k \in Nat
  BY <1>1, <1>3
<1>6. (a + k) % c = y
  BY <1>3, <1>4, <1>5, Quotient
<1>7. (b + k) % c = y
  BY <1>3, <1>4, <1>5, Quotient
<1> QED BY <1>6, <1>7

SameAfter(a, b, k) ==
  a % chunkSize = b % chunkSize => (a + k) % chunkSize = (b + k) % chunkSize

LEMMA InStepAfter ==
  ASSUME NEW a \in Nat, NEW b \in Nat, NEW k \in Nat
  PROVE  SameAfter(a, b, k)
<1>1. ASSUME a % chunkSize = b % chunkSize
      PROVE  (a + k) % chunkSize = (b + k) % chunkSize
  <2>1. chunkSize \in Nat \ {0}
    BY StreamAssumption
  <2> QED BY <1>1, <2>1, InStep, Zenon
<1> QED BY <1>1 DEF SameAfter

\* A place in a chunk is its own remainder.
LEMMA ModMod ==
  ASSUME NEW a \in Nat, NEW c \in Nat \ {0}
  PROVE  (a % c) % c = a % c
<1>1. a % c \in 0..(c - 1) /\ a % c \in Nat
  BY DivMod
<1>2. a % c = c * 0 + (a % c)
  BY <1>1
<1> QED BY <1>1, <1>2, Quotient

-----------------------------------------------------------------------------
(* Chunks and their bytes.                                                  *)

\* A chunk of the file starts before its end.
LEMMA ChunkStarts ==
  ASSUME NEW n \in Chunks
  PROVE  n \in Nat /\ n * chunkSize \in Nat /\ n * chunkSize < Size
<1>1. Size \in Nat /\ chunkSize \in Nat \ {0}
  BY StreamAssumption
<1> DEFINE s == Size + chunkSize - 1
<1> DEFINE t == s \div chunkSize
<1>2. t \in Nat /\ chunkSize * t <= s
  <2>1. s \in Nat
    BY <1>1
  <2>2. t \in Nat /\ s % chunkSize \in Nat /\ s = chunkSize * t + (s % chunkSize)
    <3> HIDE DEF s
    <3> QED BY <1>1, <2>1, DivMod
  <2> HIDE DEF s, t
  <2>3. chunkSize * t \in Nat
    BY <1>1, <2>2, Z3
  <2> QED BY <2>1, <2>2, <2>3
<1>3. n \in Nat /\ n + 1 <= t
  BY <1>2 DEF Chunks
<1> HIDE DEF t
<1>4. chunkSize * (n + 1) <= chunkSize * t
  BY <1>1, <1>2, <1>3, Z3
<1>5. chunkSize * (n + 1) = n * chunkSize + chunkSize /\ n * chunkSize \in Nat
  BY <1>1, <1>3, Z3
<1>6. chunkSize * t \in Int
  BY <1>1, <1>2
<1> HIDE DEF t
<1> QED BY <1>1, <1>2, <1>3, <1>4, <1>5, <1>6

LEMMA DataProperties ==
  ASSUME NEW n \in Chunks
  PROVE  /\ Data(n) \in Seq(0..Size)
         /\ Len(Data(n)) = Least(chunkSize, Size - n * chunkSize)
         /\ Len(Data(n)) \in Nat
         /\ \A i \in 1..Len(Data(n)) : Data(n)[i] = n * chunkSize + i - 1
<1> DEFINE m == n * chunkSize
<1> DEFINE len == Least(chunkSize, Size - m)
<1>1. Size \in Nat /\ chunkSize \in Nat \ {0} /\ m \in Nat /\ m < Size
  BY ChunkStarts, StreamAssumption
<1>2. Data(n) = [i \in 1..len |-> m + i - 1]
  BY DEF Data
<1> HIDE DEF m
<1>3. len \in Nat /\ m + len <= Size
  BY <1>1 DEF Least
<1> HIDE DEF len
<1>4. \A i \in 1..len : m + i - 1 \in 0..Size
  BY <1>1, <1>3
<1>5. Data(n) \in Seq(0..Size) /\ Len(Data(n)) = len
  BY <1>2, <1>3, <1>4
<1>6. \A i \in 1..len : Data(n)[i] = m + i - 1
  BY <1>2, <1>3
<1> QED BY <1>3, <1>5, <1>6 DEF len, m

\* totalChunks counts full chunks.
LEMMA FullChunks ==
  ASSUME NEW n \in Nat, n < totalChunks
  PROVE  (n + 1) * chunkSize <= Size
<1> DEFINE t == Size \div chunkSize
<1>1. Size \in Nat /\ chunkSize \in Nat \ {0} /\ n + 1 <= t
  <2>1. Size \in Nat /\ chunkSize \in Nat \ {0}
    BY StreamAssumption
  <2>2. t \in Nat
    BY <2>1, DivMod
  <2> QED BY <2>1, <2>2 DEF totalChunks
<1>2. /\ t \in Nat /\ Size % chunkSize \in Nat
      /\ Size = chunkSize * t + (Size % chunkSize)
  BY <1>1, DivMod
<1> HIDE DEF t
<1>3. chunkSize * t <= Size
  BY <1>1, <1>2, Z3
<1>4. (n + 1) * chunkSize <= chunkSize * t
  BY <1>1, <1>2, Z3
<1> QED BY <1>1, <1>2, <1>3, <1>4, Z3

-----------------------------------------------------------------------------
(* Streams and what is read from them.                                      *)

\* The buffer of s, if there is one, is a chunk and its place that of the offset.
Good(s) ==
  /\ s.id \in Chunks \cup {-1} /\ s.data \in Seq(0..Size) /\ s.at \in Nat
  /\ s.id # -1 => s.data = Data(s.id) /\ s.at % chunkSize = offset % chunkSize

\* The bytes of the file from the offset on.
Follow(bytes) ==
  /\ bytes \in Seq(0..Size) /\ Len(bytes) \in Nat /\ offset + Len(bytes) <= Size
  /\ \A i \in 1..Len(bytes) : bytes[i] = offset + i - 1

LEMMA ReadChunkGood ==
  ASSUME StreamTypeOK, NEW s, Good(s), NEW n \in Nat, NEW t \in LoadChunk(s, n)
  PROVE  /\ Good(t) /\ t.id = n /\ n \in Chunks
         /\ t.data = Data(n) /\ t.at % chunkSize = offset % chunkSize
<1>1. CASE Loaded(s, n)
  <2>1. t = s /\ s.id = n
    BY <1>1 DEF LoadChunk, Loaded
  <2>2. n # -1
    OBVIOUS
  <2> QED BY <2>1, <2>2 DEF Good
<1>2. CASE ~Loaded(s, n)
  <2>1. t \in { [id |-> k, data |-> Data(k), at |-> Placed(s)] : k \in present \cap {n} }
    BY <1>2 DEF LoadChunk
  <2>2. t = [id |-> n, data |-> Data(n), at |-> Placed(s)] /\ n \in present
    BY <2>1
  <2>3. t.id = n /\ t.data = Data(n) /\ t.at = offset % chunkSize
    BY <2>2 DEF Placed
  <2>4. n \in Chunks
    BY <2>2 DEF StreamTypeOK
  <2>5. offset \in Nat /\ chunkSize \in Nat \ {0}
    BY StreamAssumption DEF StreamTypeOK
  <2>6. t.at \in Nat /\ t.at % chunkSize = offset % chunkSize
    <3>1. offset % chunkSize \in Nat
      BY <2>5, DivMod
    <3>2. (offset % chunkSize) % chunkSize = offset % chunkSize
      BY <2>5, ModMod
    <3> QED BY <2>3, <3>1, <3>2
  <2>7. Data(n) \in Seq(0..Size)
    BY <2>4, DataProperties
  <2> QED BY <2>3, <2>4, <2>6, <2>7 DEF Good
<1> QED BY <1>1, <1>2

\* What is taken from the chunk at the offset follows the offset, and ends with
\* a full chunk if there is less of it than was asked for.
LEMMA FirstBytesFollow ==
  ASSUME StreamTypeOK, NEW s, NEW n \in Chunks, n = offset \div chunkSize,
         s.data = Data(n),
         s.at % chunkSize = offset % chunkSize, NEW count \in Nat
  PROVE  LET first == FirstBytes(s, count) IN
         /\ Follow(first) /\ Len(first) <= count
         /\ Len(first) < count /\ (n + 1) * chunkSize <= Size
              => offset + Len(first) = (n + 1) * chunkSize
<1> DEFINE from == s.at % chunkSize
<1> DEFINE m == n * chunkSize
<1> DEFINE L == Len(Data(n))
<1> DEFINE k == Least(count, L - from)
<1> DEFINE first == FirstBytes(s, count)
<1>1. /\ Size \in Nat /\ chunkSize \in Nat \ {0} /\ offset \in Nat /\ offset <= Size
  BY StreamAssumption DEF StreamTypeOK
<1>2. from \in 0..(chunkSize - 1)
  BY <1>1, DivMod
<1>3. m \in Nat /\ m < Size /\ n \in Nat
  BY ChunkStarts
<1>4. offset = m + from
  <2>1. offset = chunkSize * n + from
    BY <1>1, DivMod
  <2> QED BY <1>1, <1>2, <1>3, <2>1, Z3
<1>5. /\ Data(n) \in Seq(0..Size) /\ L \in Nat /\ L = Least(chunkSize, Size - m)
      /\ \A i \in 1..L : Data(n)[i] = m + i - 1
  BY DataProperties
<1>6. first = SubSeq(Data(n), from + 1, from + k)
  BY DEF FirstBytes
<1>7. (n + 1) * chunkSize = m + chunkSize
  BY <1>1, <1>3, Z3
<1> HIDE DEF from, m, L, first
<1>8. k \in Nat /\ k <= count /\ from + k <= L /\ m + L <= Size
  <2>1. from <= L /\ m + L <= Size
    <3>1. from \in Nat /\ from < chunkSize /\ from <= Size - m
      BY <1>1, <1>2, <1>3, <1>4
    <3>2. L = chunkSize \/ L = Size - m
      BY <1>5 DEF Least
    <3>3. L <= Size - m
      BY <1>1, <1>3, <1>5 DEF Least
    <3> QED BY <1>1, <1>3, <1>5, <3>1, <3>2, <3>3
  <2>2. k \in Nat /\ k <= count /\ k <= L - from
    BY <1>2, <1>5, <2>1 DEF Least
  <2> QED BY <1>2, <1>5, <2>1, <2>2
<1>9. k < count /\ m + chunkSize <= Size => m + from + k = m + chunkSize
  BY <1>1, <1>2, <1>3, <1>4, <1>5 DEF Least
<1> HIDE DEF k
<1>10. /\ first \in Seq(0..Size) /\ Len(first) = k
       /\ \A i \in 1..k : first[i] = Data(n)[from + i]
  <2>1. from + 1 \in 1..(L + 1) /\ from + k \in from..L
    BY <1>2, <1>5, <1>8
  <2>2. \A i \in (from + 1)..(from + k) : Data(n)[i] \in 0..Size
    <3>1. \A i \in (from + 1)..(from + k) : i \in 1..L
      BY <1>2, <1>5, <1>8
    <3>2. \A i \in 1..L : Data(n)[i] \in 0..Size
      BY <1>5, ElementOfSeq DEF L
    <3> QED BY <3>1, <3>2
  <2>3. /\ first \in Seq(0..Size)
        /\ Len(first) = IF from + 1 <= from + k THEN (from + k) - (from + 1) + 1 ELSE 0
        /\ \A i \in 1..((from + k) - (from + 1) + 1) : first[i] = Data(n)[(from + 1) + i - 1]
    BY <1>6, <2>1, <2>2, SubSeqProperties
  <2>4. Len(first) = k
    BY <1>2, <1>8, <2>3
  <2>5. \A i \in 1..k : (from + 1) + i - 1 = from + i
    BY <1>2, <1>8
  <2>6. (from + k) - (from + 1) + 1 = k
    BY <1>2, <1>8
  <2> QED BY <2>3, <2>4, <2>5, <2>6
<1>11. \A i \in 1..k : first[i] = offset + i - 1
  <2> SUFFICES ASSUME NEW i \in 1..k PROVE first[i] = offset + i - 1
    OBVIOUS
  <2>1. from + i \in 1..L
    BY <1>2, <1>5, <1>8
  <2>2. first[i] = m + (from + i) - 1
    BY <2>1, <1>5, <1>10
  <2> QED BY <2>2, <1>2, <1>3, <1>4, <1>8
<1>12. Follow(first)
  BY <1>1, <1>3, <1>4, <1>2, <1>5, <1>8, <1>10, <1>11 DEF Follow
<1> QED BY <1>1, <1>2, <1>3, <1>4, <1>7, <1>8, <1>9, <1>10, <1>12 DEF first

\* The start of the next chunk continues bytes that end with a chunk.
LEMMA NextChunkFollows ==
  ASSUME StreamTypeOK, NEW first, Follow(first), NEW n \in Chunks,
         offset + Len(first) = n * chunkSize, NEW missing \in Nat
  PROVE  Follow(first \o SubSeq(Data(n), 1, Least(missing, Len(Data(n)))))
<1> DEFINE m == n * chunkSize
<1> DEFINE L == Len(Data(n))
<1> DEFINE k == Least(missing, L)
<1> DEFINE second == SubSeq(Data(n), 1, k)
<1> DEFINE bytes == first \o second
<1>1. Size \in Nat /\ chunkSize \in Nat \ {0} /\ offset \in Nat
  BY StreamAssumption DEF StreamTypeOK
<1>2. m \in Nat /\ m < Size
  BY ChunkStarts
<1>3. /\ Data(n) \in Seq(0..Size) /\ L \in Nat /\ L = Least(chunkSize, Size - m)
      /\ \A i \in 1..L : Data(n)[i] = m + i - 1
  BY DataProperties
<1>4. k \in Nat /\ k <= L /\ m + L <= Size
  BY <1>1, <1>2, <1>3 DEF Least
<1> HIDE DEF m, k
<1>5. /\ second \in Seq(0..Size) /\ Len(second) = k
      /\ \A i \in 1..k : second[i] = Data(n)[i]
  <2>1. \A i \in 1..k : Data(n)[i] \in 0..Size
    <3>1. \A i \in 1..L : Data(n)[i] \in 0..Size
      BY <1>3, ElementOfSeq, 1..L = 1..Len(Data(n)) DEF L
    <3> HIDE DEF L
    <3> QED BY <3>1, <1>3, <1>4
  <2>2. /\ second \in Seq(0..Size) /\ Len(second) = IF 1 <= k THEN k - 1 + 1 ELSE 0
        /\ \A i \in 1..(k - 1 + 1) : second[i] = Data(n)[1 + i - 1]
    BY <1>4, <2>1, SubSeqProperties
  <2>3. k - 1 + 1 = k /\ \A i \in 1..k : 1 + i - 1 = i
    BY <1>4
  <2> QED BY <1>4, <2>2, <2>3
<1> HIDE DEF second, L
<1>6. /\ bytes \in Seq(0..Size) /\ Len(bytes) = Len(first) + k
      /\ \A i \in 1..Len(first) : bytes[i] = first[i]
      /\ \A i \in (Len(first) + 1)..(Len(first) + k) : bytes[i] = second[i - Len(first)]
  <2>1. first \in Seq(0..Size) /\ second \in Seq(0..Size)
    BY <1>5 DEF Follow
  <2>2. /\ bytes \in Seq(0..Size) /\ Len(bytes) = Len(first) + k
        /\ \A i \in 1..(Len(first) + k) :
             bytes[i] = IF i <= Len(first) THEN first[i] ELSE second[i - Len(first)]
    BY <1>5, <2>1, ConcatProperties
  <2>3. Len(first) \in Nat
    BY DEF Follow
  <2> HIDE DEF bytes
  <2> QED
    BY <1>4, <2>2, <2>3
<1> HIDE DEF bytes
<1>7. offset + Len(first) = m
  BY DEF m
<1>8. \A i \in 1..Len(bytes) : bytes[i] = offset + i - 1
  <2> SUFFICES ASSUME NEW i \in 1..(Len(first) + k) PROVE bytes[i] = offset + i - 1
    BY <1>6
  <2>1. CASE i <= Len(first)
    BY <2>1, <1>1, <1>6 DEF Follow
  <2>2. CASE i > Len(first)
    <3>1. Len(first) \in Nat /\ i - Len(first) \in 1..k /\ i \in (Len(first) + 1)..(Len(first) + k)
      BY <2>2, <1>4 DEF Follow
    <3>2. bytes[i] = Data(n)[i - Len(first)]
      BY <3>1, <1>5, <1>6
    <3>3. Data(n)[i - Len(first)] = m + (i - Len(first)) - 1
      BY <3>1, <1>3, <1>4
    <3> QED BY <3>1, <3>2, <3>3, <1>1, <1>2, <1>7
  <2> QED BY <2>1, <2>2 DEF Follow
<1>9. Len(bytes) \in Nat /\ offset + Len(bytes) <= Size
  <2>1. Len(first) \in Nat
    BY DEF Follow
  <2>2. L \in Nat
    BY <1>3
  <2> QED BY <1>1, <1>2, <1>4, <1>6, <1>7, <2>1, <2>2
<1> QED BY <1>6, <1>8, <1>9 DEF Follow, bytes, second, k, L

-----------------------------------------------------------------------------
(* Every step keeps the invariant and is a step of ByteStream.              *)

\* The invariant. Without BufferInStep the place in the buffer says nothing
\* about the bytes that are handed out.
StreamInvariant == StreamTypeOK /\ BufferInStep

Promised == Bytes!Next \/ UNCHANGED <<offset, got>>

LEMMA StreamGood ==
  ASSUME StreamInvariant
  PROVE  Good(Stream)
BY DEF StreamInvariant, StreamTypeOK, BufferInStep, Good, Stream

LEMMA FailsKeeps ==
  ASSUME StreamInvariant, NEW s, Good(s), Fails(s)
  PROVE  StreamInvariant' /\ Promised
<1>1. StreamTypeOK'
  <2>1. got' \in Seq(0..Size)
    BY EmptySeq DEF Fails
  <2> QED BY <2>1 DEF StreamInvariant, StreamTypeOK, Fails, Good
<1>2. BufferInStep'
  BY DEF StreamInvariant, BufferInStep, Fails, Good, Data
<1>3. Bytes!Seek(offset)
  BY DEF Bytes!Seek, Fails
<1>4. offset \in 0..Size
  BY DEF StreamInvariant, StreamTypeOK
<1> QED BY <1>1, <1>2, <1>3, <1>4 DEF StreamInvariant, Promised, Bytes!Next

LEMMA HandsOutKeeps ==
  ASSUME StreamInvariant, NEW s, Good(s), s.id # -1, NEW bytes, Follow(bytes), HandsOut(s, bytes)
  PROVE  StreamInvariant' /\ Promised
<1> DEFINE k == Len(bytes)
<1>1. /\ Size \in Nat /\ chunkSize \in Nat \ {0} /\ offset \in Nat /\ k \in Nat
      /\ offset + k <= Size /\ s.at \in Nat
  BY StreamAssumption DEF StreamInvariant, StreamTypeOK, Follow, Good
<1>2. StreamTypeOK'
  <2>1. offset' \in 0..Size /\ buffer_offset' \in Nat
    BY <1>1 DEF HandsOut
  <2> QED BY <2>1 DEF StreamInvariant, StreamTypeOK, HandsOut, Good, Follow
<1>3. BufferInStep'
  <2>1. (s.at + k) % chunkSize = (offset + k) % chunkSize
    <3>1. s.at % chunkSize = offset % chunkSize
      BY DEF Good
    <3>2. s.at \in Nat /\ offset \in Nat /\ k \in Nat /\ chunkSize \in Nat \ {0}
      BY <1>1
    <3> HIDE DEF k
    <3>3. PICK a \in Nat, b \in Nat, i \in Nat : a = s.at /\ b = offset /\ i = k
      BY <3>2
    <3>4. a % chunkSize = b % chunkSize
      BY <3>1, <3>3
    <3>5. \A x, y, j \in Nat : SameAfter(x, y, j)
      BY InStepAfter
    <3>6. SameAfter(a, b, i)
      BY <3>5
    <3> QED BY <3>3, <3>4, <3>6 DEF SameAfter
  <2>2. buffer' = Data(chunk_id')
    BY DEF HandsOut, Good
  <2>3. buffer_offset' % chunkSize = offset' % chunkSize
    BY <2>1 DEF HandsOut
  <2> QED BY <2>2, <2>3 DEF BufferInStep, Data
<1>4. got' = [i \in 1..k |-> offset + i - 1]
  <2>1. bytes = [i \in 1..k |-> bytes[i]]
    BY LenProperties DEF Follow
  <2> QED BY <2>1 DEF HandsOut, Follow
<1>5. Bytes!Read(k)
  BY <1>1, <1>4 DEF Bytes!Read, HandsOut
<1>6. k \in 0..Size
  BY <1>1
<1> QED BY <1>2, <1>3, <1>5, <1>6 DEF StreamInvariant, Promised, Bytes!Next

LEMMA ReadKeeps ==
  ASSUME StreamInvariant, NEW count \in Counts, Read(count)
  PROVE  StreamInvariant' /\ Promised
<1> DEFINE n == offset \div chunkSize
<1>1. StreamTypeOK /\ Good(Stream) /\ count \in Nat
  BY StreamGood, StreamAssumption DEF StreamInvariant
<1>2. n \in Nat /\ n + 1 \in Nat
  <2>1. offset \in Nat /\ chunkSize \in Nat \ {0}
    BY StreamAssumption DEF StreamInvariant, StreamTypeOK
  <2>2. n \in Nat
    BY <2>1, DivMod
  <2> HIDE DEF n
  <2> QED BY <2>2
<1>3. CASE Fails(Stream)
  BY <1>1, <1>3, FailsKeeps
<1>4. ASSUME NEW s \in LoadChunk(Stream, n),
             LET first == FirstBytes(s, count)
                 missing == count - Len(first)
                 more == missing > 0 /\ n + 1 < totalChunks
             IN  \/ ~more /\ HandsOut(s, first)
                 \/ /\ more
                    /\ \/ Fails(s)
                       \/ \E t \in LoadChunk(s, n + 1) :
                            HandsOut(t,
                              first \o SubSeq(t.data, 1, Least(missing, Len(t.data))))
      PROVE  StreamInvariant' /\ Promised
  <2> DEFINE first == FirstBytes(s, count)
  <2> DEFINE missing == count - Len(first)
  <2>1. /\ Good(s) /\ s.id = n /\ n \in Chunks /\ s.data = Data(n)
        /\ s.at % chunkSize = offset % chunkSize
    BY <1>1, <1>2, ReadChunkGood
  <2>2. /\ Follow(first) /\ Len(first) <= count
        /\ Len(first) < count /\ (n + 1) * chunkSize <= Size
             => offset + Len(first) = (n + 1) * chunkSize
    BY <1>1, <2>1, FirstBytesFollow
  <2>3. CASE HandsOut(s, first)
    <3>1. s.id # -1
      BY <1>2, <2>1
    <3> HIDE DEF first
    <3> QED BY <2>1, <2>2, <2>3, <3>1, HandsOutKeeps
  <2>4. CASE Fails(s)
    BY <2>1, <2>4, FailsKeeps
  <2>5. ASSUME missing > 0, n + 1 < totalChunks, NEW t \in LoadChunk(s, n + 1),
               HandsOut(t, first \o SubSeq(t.data, 1, Least(missing, Len(t.data))))
        PROVE  StreamInvariant' /\ Promised
    <3>1. /\ Good(t) /\ t.id = n + 1 /\ n + 1 \in Chunks /\ t.data = Data(n + 1)
      BY <1>1, <1>2, <2>1, ReadChunkGood
    <3>2. (n + 1) * chunkSize <= Size
      <4>1. n < totalChunks
        <5>1. totalChunks \in Nat
          BY DivMod, StreamAssumption DEF totalChunks
        <5> HIDE DEF n
        <5> QED BY <1>2, <2>5, <5>1
      <4> HIDE DEF n
      <4> QED BY <1>2, <4>1, FullChunks
    <3> HIDE DEF n, first
    <3>3. Len(first) \in Nat
      BY <2>2 DEF Follow
    <3>4. Len(first) < count /\ missing \in Nat
      BY <1>1, <2>2, <2>5, <3>3
    <3>5. offset + Len(first) = (n + 1) * chunkSize
      BY <2>2, <3>2, <3>4
    <3> HIDE DEF missing
    <3>6. Follow(first \o SubSeq(Data(n + 1), 1, Least(missing, Len(Data(n + 1)))))
      BY <1>1, <2>2, <3>1, <3>4, <3>5, NextChunkFollows
    <3>7. t.id # -1
      BY <1>2, <3>1
    <3> QED BY <2>5, <3>1, <3>6, <3>7, HandsOutKeeps
  <2> QED BY <1>4, <2>3, <2>4, <2>5
<1> QED BY <1>3, <1>4 DEF Read

LEMMA SeekKeeps ==
  ASSUME StreamInvariant, NEW base \in Int, NEW delta \in Int, Seek(base, delta)
  PROVE  StreamInvariant' /\ Promised
<1> DEFINE to == base + delta
<1>1. StreamTypeOK /\ BufferInStep /\ chunkSize \in Nat \ {0} /\ seeks' \in 0..MaxSeeks
      /\ got' = <<>> /\ got' \in Seq(0..Size)
  BY EmptySeq, StreamAssumption DEF StreamInvariant, StreamTypeOK, Seek
<1>2. CASE Within(to)
  <2>1. /\ offset' = to /\ status' = "ok" /\ to \in 0..Size
        /\ buffer_offset' = IF chunk_id # -1 THEN to % chunkSize ELSE buffer_offset
        /\ UNCHANGED <<present, chunk_id, buffer>>
    BY <1>2 DEF Seek, Within
  <2>2. to \in Nat
    BY <2>1
  <2> HIDE DEF to
  <2>3. to % chunkSize \in Nat /\ (to % chunkSize) % chunkSize = to % chunkSize
    <3>1. to % chunkSize \in Nat
      BY <1>1, <2>2, DivMod
    <3> QED BY <1>1, <2>2, <3>1, ModMod
  <2>4. StreamTypeOK'
    BY <1>1, <2>1, <2>3 DEF StreamTypeOK
  <2>5. BufferInStep'
    BY <1>1, <2>1, <2>3 DEF BufferInStep, Data
  <2>6. Bytes!Seek(to)
    BY <1>1, <2>1 DEF Bytes!Seek
  <2> QED BY <2>1, <2>4, <2>5, <2>6 DEF StreamInvariant, Promised, Bytes!Next
<1>3. CASE ~Within(to)
  <2>1. /\ status' = "failed"
        /\ UNCHANGED <<offset, buffer_offset, present, chunk_id, buffer>>
    BY <1>3 DEF Seek
  <2>2. StreamTypeOK' /\ BufferInStep'
    BY <1>1, <2>1 DEF StreamTypeOK, BufferInStep, Data
  <2>3. Bytes!Seek(offset) /\ offset \in 0..Size
    BY <1>1, <2>1 DEF Bytes!Seek, StreamTypeOK
  <2> QED BY <2>2, <2>3 DEF StreamInvariant, Promised, Bytes!Next
<1> QED BY <1>2, <1>3

LEMMA StreamStepKeeps ==
  ASSUME StreamInvariant, [StreamNext]_streamVars
  PROVE  StreamInvariant' /\ Promised
<1>1. CASE UNCHANGED streamVars
  BY <1>1
    DEF StreamInvariant, StreamTypeOK, BufferInStep, Data, Promised, streamVars
<1>2. ASSUME NEW count \in Counts, Read(count) PROVE StreamInvariant' /\ Promised
  BY <1>2, ReadKeeps
<1>3. ASSUME NEW delta \in Deltas,
             SeekSet(delta) \/ SeekCur(delta) \/ SeekEnd(delta)
      PROVE  StreamInvariant' /\ Promised
  <2>1. delta \in Int /\ 0 \in Int /\ offset \in Int /\ Size \in Int
    BY StreamAssumption DEF Deltas, StreamInvariant, StreamTypeOK
  <2> QED BY <1>3, <2>1, SeekKeeps DEF SeekSet, SeekCur, SeekEnd
<1>4. ASSUME NEW n \in Chunks, ChunkGone(n) PROVE StreamInvariant' /\ Promised
  BY <1>4
    DEF ChunkGone, StreamInvariant, StreamTypeOK, BufferInStep, Data, Promised
<1> QED BY <1>1, <1>2, <1>3, <1>4 DEF StreamNext

LEMMA InitGood ==
  ASSUME StreamInit
  PROVE  StreamInvariant /\ Bytes!Init
<1>1. Size \in Nat /\ MaxSeeks \in Nat /\ <<>> \in Seq(0..Size)
  BY EmptySeq, StreamAssumption
<1> QED BY <1>1
  DEF StreamInit, StreamInvariant, StreamTypeOK, BufferInStep, Bytes!Init

\* The variables have their types, and the buffer is the chunk it is taken for
\* with its place that of the offset, through all reads, failures and seeks.
THEOREM StreamInvariantHolds ==
  StreamSpec => []StreamInvariant
<1>1. StreamInit => StreamInvariant
  BY InitGood
<1>2. StreamInvariant /\ [StreamNext]_streamVars => StreamInvariant'
  BY StreamStepKeeps
<1> QED BY <1>1, <1>2, PTL DEF StreamSpec

\* Whatever is read, sought and missing, the stream is one of the bytes of the
\* file: gridfs_read() skips, repeats and misplaces none.
THEOREM StreamIsAByteStream ==
  StreamSpec => IsByteStream
<1>1. StreamInit => Bytes!Init
  BY InitGood
<1>2. StreamInvariant /\ [StreamNext]_streamVars => [Bytes!Next]_<<offset, got>>
  BY StreamStepKeeps DEF Promised
<1> QED BY <1>1, <1>2, StreamInvariantHolds, PTL
  DEF StreamSpec, IsByteStream, Bytes!Spec
=============================================================================
