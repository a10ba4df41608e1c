-------------------------- MODULE KnowledgeVersions --------------------------
(***************************************************************************)
(* The versions of a knowledge base: KnowledgeService and its repository.  *)
(*                                                                         *)
(* Knowledge bases share nothing, so one is modelled.  A request reads the *)
(* base, and when it imports the version too, writes what it can, awaits   *)
(* the vector store, and then saves the copies it read before: whatever    *)
(* was activated meanwhile is undone.  Two places say which version is     *)
(* active: the pointer of the base and the status of the version.          *)
(*                                                                         *)
(* Every save is flushed.  A process that dies in the middle of a handler  *)
(* leaves the saves it has made.                                           *)
(*                                                                         *)
(* The chunks of a document are one element: the document's name.  The     *)
(* vector store is a remote one: it keeps a set per version, an upsert     *)
(* adds to it or fails, with or without effect, and it survives a restart. *)
(* The local one does not suspend, and nothing is in flight beside it.     *)
(***************************************************************************)
EXTENDS Integers, FiniteSets

CONSTANTS
  Request,        \* requests that may be in flight
  Document,       \* documents to import
  Config,         \* chunk configurations
  DefaultConfig,  \* KnowledgeChunkConfig()
  None,           \* Python's None
  MaxVersions     \* bound: versions created, the legacy one apart

ASSUME KnowledgeAssumption ==
  /\ IsFiniteSet(Document)
  /\ DefaultConfig \in Config
  /\ MaxVersions \in Nat
  /\ None \notin 0 .. MaxVersions

VARIABLES
  store,      \* the repository: base, versions, documents and chunks
  vectors,    \* vectors[v]: the documents the vector store has in v's namespace
  job,        \* job[r]: what request r holds while it awaits, or None
  chosen,     \* the version last activated, or created with the base; None
              \* once a status or the pointer was written in another way
  halfmade    \* the versions a dying process has left without all documents

vars == <<store, vectors, job, chosen, halfmade>>

-----------------------------------------------------------------------------
(* Version ids in the order of their creation; 0 is "legacy".              *)
Version == 0 .. MaxVersions

Legacy == 0

Count == 0 .. Cardinality(Document)

KnowledgeVersion ==
  [status : {"draft", "active", "archived"}, config : Config,
   documents : Count, chunks : Count]

(* active is None in a base of an older release that nobody has read yet.  *)
KnowledgeBase ==
  [active : Version \cup {None}, config : Config,
   documents : Count, chunks : Count, versions : 0 .. MaxVersions + 1]

Store ==
  [base : KnowledgeBase \cup {None}, versions : [Version -> KnowledgeVersion \cup {None}],
   docs : [Version -> SUBSET Document], chunks : [Version -> SUBSET Document]]

(* A request awaits the upsert of chunks into the namespace of version; it *)
(* holds its copy of the base, and of the version if it imports.           *)
Job ==
  [op : {"add", "snapshot", "optimise"}, version : Version, chunks : SUBSET Document,
   base : KnowledgeBase, record : KnowledgeVersion \cup {None}, activate : BOOLEAN]

ASSUME NoneAssumption == None \notin KnowledgeVersion \cup KnowledgeBase \cup Job

Existing(st) == {v \in Version : st.versions[v] # None}

Active(st) == {v \in Existing(st) : st.versions[v].status = "active"}

(* The id a new version gets.                                              *)
Unused(v) ==
  /\ v \in 1 .. MaxVersions
  /\ v \notin Existing(store)
  /\ 1 .. v - 1 \subseteq Existing(store)

(* The versions an optimisation in flight has made active ahead of time.   *)
InFlight(jobs) == {jobs[r].version : r \in {q \in Request : jobs[q] # None /\ jobs[q].activate}}

-----------------------------------------------------------------------------
Empty ==
  [base |-> None, versions |-> [v \in Version |-> None],
   docs |-> [v \in Version |-> {}], chunks |-> [v \in Version |-> {}]]

(* What a release without versions has left behind: documents D.           *)
Old(D) ==
  [Empty EXCEPT !.base = [active |-> None, config |-> DefaultConfig, versions |-> 0,
                          documents |-> Cardinality(D), chunks |-> Cardinality(D)],
                !.docs[Legacy] = D, !.chunks[Legacy] = D]

Init ==
  /\ store \in {Empty} \cup {Old(D) : D \in SUBSET Document}
  /\ vectors = [v \in Version |-> {}]
  /\ job = [r \in Request |-> None]
  /\ chosen = Legacy
  /\ halfmade = {}

-----------------------------------------------------------------------------
(* The saves of a handler.                                                 *)

(* _bootstrap_legacy_version saves the legacy version, unless it is there. *)
WithLegacy(st) ==
  [st EXCEPT !.versions[Legacy] =
     IF @ # None THEN @
     ELSE [status |-> "active", config |-> st.base.config,
           documents |-> Cardinality(st.docs[Legacy]),
           chunks |-> Cardinality(st.chunks[Legacy])]]

(* get_knowledge_base: a base that has no active version gets the legacy   *)
(* one.  Every handler begins with it.                                     *)
Opened(st) ==
  IF st.base.active # None THEN st
  ELSE LET with == WithLegacy(st)
       IN  [with EXCEPT !.base.active = Legacy,
                        !.base.versions = Cardinality(Existing(with)),
                        !.base.config = with.versions[Legacy].config]

(* The status that activating version v gives to version w.                *)
StatusAfter(st, v, w) ==
  CASE w = v -> "active"
    [] w # v /\ st.versions[w].status = "active" -> "archived"
    [] OTHER -> st.versions[w].status

(* activate_version, as far as the loop over the versions up to k.         *)
Switched(st, v, k) ==
  [st EXCEPT !.versions =
     [w \in Version |-> IF w > k \/ st.versions[w] = None
                        THEN st.versions[w]
                        ELSE [st.versions[w] EXCEPT !.status = StatusAfter(st, v, w)]]]

(* activate_version: the loop, and the base.                               *)
Activated(st, v) ==
  LET switched == Switched(st, v, MaxVersions)
      record   == switched.versions[v]
  IN  [switched EXCEPT !.base = [active    |-> v,
                                 config    |-> record.config,
                                 documents |-> record.documents,
                                 chunks    |-> record.chunks,
                                 versions  |-> Cardinality(Existing(st))]]

(* The process dies between two saves of a handler, which was making the   *)
(* versions in V.                                                          *)
Torn(stores, V) ==
  /\ store' \in stores
  /\ job' = [r \in Request |-> None]
  /\ chosen' = None
  /\ halfmade' = halfmade \cup V
  /\ UNCHANGED vectors

-----------------------------------------------------------------------------
(* Operations that do not await.                                           *)

(* create_knowledge_base, of a new id or of one that exists.               *)
Create(v) ==
  /\ Unused(v)
  /\ LET versioned == [store EXCEPT !.versions[v] =
           [status |-> "active", config |-> DefaultConfig, documents |-> 0, chunks |-> 0]]
     IN  \/ /\ store' = [versioned EXCEPT !.base =
                 [active |-> v, config |-> DefaultConfig, versions |-> 1,
                  documents |-> 0, chunks |-> 0]]
            /\ chosen' = IF store.base = None /\ chosen # None THEN v ELSE None
            /\ UNCHANGED <<vectors, job, halfmade>>
         \/ Torn({versioned}, {})

(* Any read of an old base: get_knowledge_base.                            *)
Open ==
  /\ store.base # None
  /\ store.base.active = None
  /\ \/ /\ store' = Opened(store)
        /\ UNCHANGED <<vectors, job, chosen, halfmade>>
     \/ Torn({WithLegacy(store)}, {})

(* Fault: the version that was active stays so.                            *)
ActivateOnly(v) ==
  /\ store.base # None
  /\ v \in Existing(Opened(store))
  /\ LET opened == Opened(store)
     IN  store' = [Activated(opened, v) EXCEPT !.versions =
                     [opened.versions EXCEPT ![v].status = "active"]]
  /\ chosen' = v
  /\ UNCHANGED <<vectors, job, halfmade>>

(* activate_version.                                                       *)
Activate(v) ==
  /\ store.base # None
  /\ v \in Existing(Opened(store))
  /\ \/ /\ store' = Activated(Opened(store), v)
        /\ chosen' = v
        /\ UNCHANGED <<vectors, job, halfmade>>
     \/ Torn({Switched(Opened(store), v, k) : k \in Version}, {})

-----------------------------------------------------------------------------
(* Requests that await the vector store: what comes before.                *)

(* Request r has read the base as it is in st and awaits.                  *)
Awaits(r, st, op, v, D, record, activate) ==
  job' = [job EXCEPT ![r] = [op |-> op, version |-> v, chunks |-> D, base |-> st.base,
                             record |-> record, activate |-> activate]]

(* The saves of a document d of version v, and of v's chunks C.            *)
WithDocument(st, v, d) == [st EXCEPT !.docs[v] = @ \cup {d}]

WithChunks(st, v, C) == [st EXCEPT !.chunks[v] = C]

(* add_document: the document, and the chunks of the version with those of *)
(* the document, go to the version that is active now.                     *)
BeginAdd(r, d) ==
  /\ job[r] = None
  /\ store.base # None
  /\ \A v \in Version : d \notin store.docs[v]
  /\ LET opened == Opened(store)
         v      == opened.base.active
         saved  == WithDocument(opened, v, d)
         merged == opened.chunks[v] \cup {d}
     IN  \/ /\ store' = WithChunks(saved, v, merged)
            /\ Awaits(r, opened, "add", v, merged, opened.versions[v], FALSE)
            /\ UNCHANGED <<vectors, chosen, halfmade>>
         \/ Torn({saved}, {})

(* The saves of a new version v with documents D and chunks C: the         *)
(* version, its documents, its chunks.                                     *)
WithVersion(st, v, record, D, C) ==
  [st EXCEPT !.versions[v] = record, !.docs[v] = D, !.chunks[v] = C]

BeginVersion(r, op, v, record, D, C, activate) ==
  LET opened == Opened(store)
  IN  \/ /\ store' = WithVersion(opened, v, record, D, C)
         /\ Awaits(r, opened, op, v, C, None, activate)
         /\ UNCHANGED <<vectors, chosen, halfmade>>
      \/ Torn({WithVersion(opened, v, record, {}, {}), WithVersion(opened, v, record, D, {})},
              {v})

(* A new version without chunks: no vector store awaits the upsert of      *)
(* nothing, and the copy of the base is saved at once.                     *)
MakeVersion(v, record, D) ==
  LET opened == Opened(store)
      made   == WithVersion(opened, v, record, D, {})
  IN  \/ /\ store' = [made EXCEPT !.base =
               [opened.base EXCEPT !.versions = Cardinality(Existing(made))]]
         /\ UNCHANGED <<vectors, job, chosen, halfmade>>
      \/ Torn({WithVersion(opened, v, record, {}, {})}, {v})
      \/ Torn({made}, {})

(* create_version_snapshot of version w, the active one by default.        *)
BeginSnapshot(r, v, w) ==
  /\ job[r] = None
  /\ store.base # None
  /\ Unused(v)
  /\ w \in Existing(Opened(store))
  /\ LET source == Opened(store).versions[w]
         D      == store.docs[w]
         C      == store.chunks[w]
         record == [status |-> "draft", config |-> source.config,
                    documents |-> Cardinality(D), chunks |-> Cardinality(C)]
     IN  \/ C # {} /\ BeginVersion(r, "snapshot", v, record, D, C, FALSE)
         \/ C = {} /\ MakeVersion(v, record, D)

(* apply_chunk_optimization of the active version.  If it is to be         *)
(* activated, the new version is saved as active before the await.         *)
BeginOptimise(r, v, c, activate) ==
  /\ job[r] = None
  /\ store.base # None
  /\ Unused(v)
  /\ LET D      == store.docs[Opened(store).base.active]
         record == [status |-> IF activate THEN "active" ELSE "draft", config |-> c,
                    documents |-> Cardinality(D), chunks |-> Cardinality(D)]
     IN  /\ D # {}
         /\ BeginVersion(r, "optimise", v, record, D, D, activate)

-----------------------------------------------------------------------------
(* Requests that await the vector store: what comes after.                 *)

(* The upsert of r has added the documents in S.                           *)
Upserted(r, S) == vectors' = [vectors EXCEPT ![job[r].version] = @ \cup S]

Ends(r) == job' = [job EXCEPT ![r] = None]

(* Writing back the base that r has read changes the pointer.              *)
OldPointer(r) == job[r].base.active # store.base.active

(* Writing back the version that r has read changes its status.            *)
OldStatus(r) == job[r].record.status # store.versions[job[r].version].status

(* Fault: the chunks are saved after the await.                            *)
EndAddReplacing(r) ==
  /\ job[r] # None
  /\ job[r].op = "add"
  /\ Upserted(r, job[r].chunks)
  /\ store' = [store EXCEPT !.chunks[job[r].version] = job[r].chunks]
  /\ Ends(r)
  /\ UNCHANGED <<chosen, halfmade>>

(* Fault: the upsert goes to the version that is active when it arrives.   *)
EndAddElsewhere(r) ==
  /\ job[r] # None
  /\ job[r].op = "add"
  /\ vectors' = [vectors EXCEPT ![store.base.active] = @ \cup job[r].chunks]
  /\ Ends(r)
  /\ UNCHANGED <<store, chosen, halfmade>>

(* Fault: the base is read again, and gets the counts of the old version.  *)
EndAddRereading(r) ==
  /\ job[r] # None
  /\ job[r].op = "add"
  /\ Upserted(r, job[r].chunks)
  /\ store' = [store EXCEPT !.base.documents = Cardinality(store.docs[job[r].version]),
                            !.base.chunks = Cardinality(job[r].chunks)]
  /\ Ends(r)
  /\ UNCHANGED <<chosen, halfmade>>

(* add_document: the copies of the base and of the version get their       *)
(* counts and are saved.                                                   *)
EndAdd(r) ==
  /\ job[r] # None
  /\ job[r].op = "add"
  /\ LET v         == job[r].version
         documents == Cardinality(store.docs[v])
         chunks    == Cardinality(job[r].chunks)
         based     == [store EXCEPT !.base =
                        [job[r].base EXCEPT !.documents = documents, !.chunks = chunks]]
     IN  \/ /\ store' = [based EXCEPT !.versions[v] =
                        [job[r].record EXCEPT !.documents = documents, !.chunks = chunks]]
            /\ Upserted(r, job[r].chunks)
            /\ Ends(r)
            /\ chosen' = IF OldPointer(r) \/ OldStatus(r) THEN None ELSE chosen
            /\ UNCHANGED halfmade
         \/ Torn({based}, {})

(* Fault: the base gets the new version, too.                              *)
EndVersionActive(r) ==
  /\ job[r] # None
  /\ job[r].op # "add"
  /\ ~job[r].activate
  /\ store' = [store EXCEPT !.base = [job[r].base EXCEPT
                 !.active = job[r].version, !.versions = Cardinality(Existing(store))]]
  /\ Upserted(r, job[r].chunks)
  /\ Ends(r)
  /\ UNCHANGED <<chosen, halfmade>>

(* A snapshot, or an optimisation that is not to be activated: the copy of *)
(* the base gets its count and is saved.                                   *)
EndVersion(r) ==
  /\ job[r] # None
  /\ job[r].op # "add"
  /\ ~job[r].activate
  /\ store' = [store EXCEPT !.base =
                 [job[r].base EXCEPT !.versions = Cardinality(Existing(store))]]
  /\ Upserted(r, job[r].chunks)
  /\ Ends(r)
  /\ chosen' = IF OldPointer(r) THEN None ELSE chosen
  /\ UNCHANGED halfmade

(* An optimisation that is to be activated calls activate_version.         *)
EndOptimise(r) ==
  /\ job[r] # None
  /\ job[r].activate
  /\ LET v == job[r].version
     IN  \/ /\ store' = Activated(store, v)
            /\ Upserted(r, job[r].chunks)
            /\ Ends(r)
            /\ chosen' = v
            /\ UNCHANGED halfmade
         \/ Torn({Switched(store, v, k) : k \in Version}, {})

(* Some version was made active ahead of time by a request that is gone.   *)
Orphaned(jobs) == \E v \in InFlight(job) \ InFlight(jobs) :
                    v \in Active(store) /\ store.base.active # v

(* The upsert raises, or the request is cancelled; the upsert may have     *)
(* taken effect.                                                           *)
Fail(r) ==
  /\ job[r] # None
  /\ \E S \in {{}, job[r].chunks} : Upserted(r, S)
  /\ Ends(r)
  /\ chosen' = IF Orphaned(job') THEN None ELSE chosen
  /\ UNCHANGED <<store, halfmade>>

(* The process dies while every handler awaits.                            *)
Restart ==
  /\ job' = [r \in Request |-> None]
  /\ chosen' = IF Orphaned(job') THEN None ELSE chosen
  /\ UNCHANGED <<store, vectors, halfmade>>

-----------------------------------------------------------------------------
Begin(r) ==
  \/ \E d \in Document : BeginAdd(r, d)
  \/ \E v, w \in Version : BeginSnapshot(r, v, w)
  \/ \E v \in Version, c \in Config, activate \in BOOLEAN : BeginOptimise(r, v, c, activate)

End(r) == EndAdd(r) \/ EndVersion(r) \/ EndOptimise(r) \/ Fail(r)

Next ==
  \/ \E v \in Version : Create(v) \/ Activate(v)
  \/ Open
  \/ \E r \in Request : Begin(r) \/ End(r)
  \/ Restart

Spec == Init /\ [][Next]_vars

-----------------------------------------------------------------------------
(* Properties.                                                             *)

(* The types of the variables.                                             *)
TypeOK ==
  /\ store \in Store
  /\ vectors \in [Version -> SUBSET Document]
  /\ job \in [Request -> Job \cup {None}]
  /\ chosen \in Version \cup {None}
  /\ halfmade \subseteq Version

(* A search in a version finds nothing but chunks of that version, and     *)
(* these belong to its documents, whatever is imported or activated        *)
(* meanwhile (docs/module-design.md:151).                                  *)
HitsAreOfTheVersion ==
  \A v \in Version : vectors[v] \subseteq store.chunks[v] /\ store.chunks[v] \subseteq store.docs[v]

(* A base points to a version that exists, has that version's              *)
(* configuration, and reports no more documents and chunks than it has:    *)
(* unless the process died while it made the version.                      *)
Describes(base, st) ==
  base.active # None =>
    /\ base.active \in Existing(st)
    /\ base.config = st.versions[base.active].config
    /\ base.active \notin halfmade =>
         /\ base.documents <= Cardinality(st.docs[base.active])
         /\ base.chunks <= Cardinality(st.chunks[base.active])

(* What the base says of its active version is true of that version and    *)
(* no other: also after an old copy of it was written.                     *)
BaseDescribesItsVersion == store.base # None => Describes(store.base, store)

(* Unless an old copy, an interrupted optimisation or a crash has come in  *)
(* between, the version that was activated last is the one the base points *)
(* to and the only active one, except for those that optimisations in      *)
(* flight are about to activate.                                           *)
OneActiveVersion ==
  store.base # None /\ store.base.active # None /\ chosen # None =>
    /\ store.base.active = chosen
    /\ chosen \in Active(store)
    /\ Active(store) \subseteq {chosen} \cup InFlight(job)

(* In this step the pointer moves to a version that is neither activated   *)
(* nor new.                                                                *)
Repointed ==
  /\ store.base # None
  /\ store.base.active \notin {None, store'.base.active}
  /\ store'.base.active \in Existing(store) \ {chosen'}

(* Apart from activation, and from creating the base again, the pointer    *)
(* moves only back to where a request that was in flight has read it.      *)
RepointedOnlyByStaleWrite ==
  [][Repointed => \E r \in Request :
       /\ job[r] # None /\ job'[r] = None
       /\ store'.base.active = job[r].base.active]_vars

(* No document and no chunk is ever lost: imports into one version at the  *)
(* same time keep each other's.                                            *)
DocumentsAreKept ==
  [][\A v \in Version : /\ store.docs[v] \subseteq store'.docs[v]
                        /\ store.chunks[v] \subseteq store'.chunks[v]]_vars

-----------------------------------------------------------------------------
(* What the documentation says of versions, and the code does not do.      *)

(* docs/testing.md:129: after a version is activated, new documents and    *)
(* hits are of the newly active version.  A request that was in flight     *)
(* across the activation writes its copy of the base back, and they are of *)
(* the old one.                                                            *)
ActivationIsKept == [][chosen # None => ~Repointed]_vars
=============================================================================
