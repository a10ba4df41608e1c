---------------------- MODULE KnowledgeVersions_proofs ----------------------
(***************************************************************************)
(* Proofs about KnowledgeVersions, for any requests, documents and         *)
(* configurations and any number of versions.                              *)
(*                                                                         *)
(* A copy of the base may be written back long after it was read.  That    *)
(* does no harm to what it says of its version because the store only      *)
(* grows (Later): versions keep their configurations, documents and chunks *)
(* are added and never removed.                                            *)
(***************************************************************************)
EXTENDS KnowledgeVersions, FiniteSetTheorems, TLAPS

(* Store new comes after st.                                               *)
Later(st, new) ==
  /\ \A v \in Version : st.docs[v] \subseteq new.docs[v] /\ st.chunks[v] \subseteq new.chunks[v]
  /\ \A v \in Existing(st) : /\ v \in Existing(new)
                             /\ new.versions[v].config = st.versions[v].config

(* The base points to a version and describes it, all but its counts if    *)
(* the version is in H; or it is an old one and describes its documents.   *)
BaseOK(base, st, H) ==
  /\ base.active = None =>
       /\ base.documents <= Cardinality(st.docs[Legacy])
       /\ base.chunks <= Cardinality(st.chunks[Legacy])
  /\ base.active # None =>
       /\ base.active \in Existing(st)
       /\ base.config = st.versions[base.active].config
       /\ base.active \notin H =>
            /\ base.documents <= Cardinality(st.docs[base.active])
            /\ base.chunks <= Cardinality(st.chunks[base.active])

(* A store is good when the versions in H are the only ones that report    *)
(* documents they do not have.                                             *)
StoreOK(st, H) ==
  /\ st \in Store
  /\ H \subseteq Existing(st) \ {Legacy}
  /\ \A v \in Version : st.chunks[v] \subseteq st.docs[v]
  /\ \A v \in 1 .. MaxVersions : v \notin Existing(st) => st.docs[v] = {}
  /\ \A v \in Existing(st) \ H :
       /\ st.versions[v].documents <= Cardinality(st.docs[v])
       /\ st.versions[v].chunks <= Cardinality(st.chunks[v])
  /\ st.base # None => BaseOK(st.base, st, H)

(* What a request holds may be written back.                               *)
JobOK(j, st, H) ==
  /\ j.base.active # None
  /\ BaseOK(j.base, st, H)
  /\ j.version \in Existing(st)
  /\ j.chunks \subseteq st.chunks[j.version]
  /\ j.op = "add" => /\ j.version = j.base.active
                     /\ j.record # None
                     /\ j.record.config = st.versions[j.version].config
  /\ j.activate => j.op = "optimise"

(* Some version is pointed to.                                             *)
IsOpen(st) == st.base # None /\ st.base.active # None

(* OneActiveVersion, and what holds before there is a version.             *)
ChosenOK ==
  chosen # None =>
    /\ IsOpen(store) => /\ store.base.active = chosen
                        /\ chosen \in Active(store)
                        /\ Active(store) \subseteq {chosen} \cup InFlight(job)
    /\ ~IsOpen(store) => chosen = Legacy /\ Existing(store) = {}

(* The inductive invariant.                                                *)
IInv ==
  /\ TypeOK
  /\ StoreOK(store, halfmade)
  /\ \A v \in Version : vectors[v] \subseteq store.chunks[v]
  /\ \A r \in Request : job[r] # None => IsOpen(store) /\ JobOK(job[r], store, halfmade)
  /\ ChosenOK

-----------------------------------------------------------------------------
(* Counting.                                                               *)

(* Documents are counted within bounds, and more of them count for more.   *)
LEMMA Counted ==
  ASSUME NEW T \in SUBSET Document, NEW S \in SUBSET T
  PROVE  /\ Cardinality(S) \in Count
         /\ Cardinality(S) <= Cardinality(T)
<1>1. /\ IsFiniteSet(T) /\ Cardinality(T) <= Cardinality(Document)
      /\ IsFiniteSet(Document) /\ Cardinality(Document) \in Nat
  BY FS_Subset, FS_CardinalityType, KnowledgeAssumption
<1>2. /\ IsFiniteSet(S) /\ Cardinality(S) <= Cardinality(T)
      /\ Cardinality(S) \in Nat /\ Cardinality(T) \in Nat
  BY <1>1, FS_Subset, FS_CardinalityType
<1> QED BY <1>1, <1>2 DEF Count

(* Versions are counted within bounds.                                     *)
LEMMA VersionsCounted ==
  ASSUME NEW S \in SUBSET Version
  PROVE  Cardinality(S) \in 0 .. MaxVersions + 1
<1>1. IsFiniteSet(Version) /\ Cardinality(Version) = MaxVersions + 1
  BY FS_Interval, KnowledgeAssumption DEF Version
<1>2. IsFiniteSet(S) /\ Cardinality(S) <= Cardinality(Version)
  BY <1>1, FS_Subset
<1>3. Cardinality(S) \in Nat
  BY <1>2, FS_CardinalityType
<1> QED BY <1>1, <1>2, <1>3, KnowledgeAssumption

LEMMA LegacyIsVersion == Legacy \in Version
BY KnowledgeAssumption DEF Legacy, Version

-----------------------------------------------------------------------------
(* What is later.                                                          *)

(* A good description stays good.                                          *)
LEMMA BaseLater ==
  ASSUME NEW st \in Store, NEW new \in Store, Later(st, new),
         NEW H, NEW G, H \subseteq G,
         NEW base \in KnowledgeBase, BaseOK(base, st, H)
  PROVE  BaseOK(base, new, G)
<1>1. \A v \in Version : /\ Cardinality(st.docs[v]) <= Cardinality(new.docs[v])
                         /\ Cardinality(st.chunks[v]) <= Cardinality(new.chunks[v])
                         /\ Cardinality(st.docs[v]) \in Int /\ Cardinality(new.docs[v]) \in Int
                         /\ Cardinality(st.chunks[v]) \in Int /\ Cardinality(new.chunks[v]) \in Int
  <2> TAKE v \in Version
  <2>1. /\ new.docs[v] \in SUBSET Document /\ new.chunks[v] \in SUBSET Document
        /\ st.docs[v] \in SUBSET new.docs[v] /\ st.chunks[v] \in SUBSET new.chunks[v]
    BY DEF Store, Later
  <2> QED BY <2>1, Counted DEF Count
<1>2. base.documents \in Int /\ base.chunks \in Int
  BY DEF KnowledgeBase, Count
<1>3. CASE base.active = None
  BY <1>1, <1>2, <1>3, LegacyIsVersion DEF BaseOK
<1>4. CASE base.active # None
  <2>1. /\ base.active \in Version /\ base.active \in Existing(st)
        /\ base.active \in Existing(new)
        /\ new.versions[base.active].config = st.versions[base.active].config
    BY <1>4 DEF BaseOK, Later, Existing
  <2> QED BY <1>1, <1>2, <1>4, <2>1 DEF BaseOK
<1> QED BY <1>3, <1>4

(* What a request holds stays good.                                        *)
LEMMA JobLater ==
  ASSUME NEW st \in Store, NEW new \in Store, Later(st, new),
         NEW H, NEW G, H \subseteq G, NEW j \in Job, JobOK(j, st, H)
  PROVE  JobOK(j, new, G)
<1>1. BaseOK(j.base, new, G)
  BY BaseLater DEF JobOK, Job
<1> QED BY <1>1 DEF JobOK, Later, Existing

(* The counts of the versions stay good while only documents are added.    *)
LEMMA CountsLater ==
  ASSUME NEW st, NEW new \in Store, Later(st, new), NEW H, StoreOK(st, H),
         new.versions = st.versions
  PROVE  \A v \in Existing(st) \ H : /\ new.versions[v].documents <= Cardinality(new.docs[v])
                                     /\ new.versions[v].chunks <= Cardinality(new.chunks[v])
<1> TAKE v \in Existing(st) \ H
<1>1. /\ v \in Version
      /\ new.docs[v] \in SUBSET Document /\ new.chunks[v] \in SUBSET Document
      /\ st.docs[v] \in SUBSET new.docs[v] /\ st.chunks[v] \in SUBSET new.chunks[v]
  BY DEF Store, Later, Existing
<1>2. st.versions[v] \in KnowledgeVersion
  BY DEF StoreOK, Store, Existing
<1> QED BY <1>1, <1>2, Counted DEF Count, KnowledgeVersion, StoreOK

LEMMA LaterTransitive ==
  ASSUME NEW st, NEW mid, NEW new, Later(st, mid), Later(mid, new)
  PROVE  Later(st, new)
BY DEF Later

LEMMA LaterReflexive ==
  ASSUME NEW st
  PROVE  Later(st, st)
BY DEF Later

-----------------------------------------------------------------------------
(* What the saves of a handler make of a store.                            *)

(* Saving a base that describes its version.                               *)
LEMMA BaseSaved ==
  ASSUME NEW st, NEW H, StoreOK(st, H),
         NEW base \in KnowledgeBase, BaseOK(base, st, H)
  PROVE  /\ StoreOK([st EXCEPT !.base = base], H)
         /\ Later(st, [st EXCEPT !.base = base])
<1> DEFINE new == [st EXCEPT !.base = base]
<1>1. new \in Store
  BY DEF StoreOK, Store
<1>2. /\ new.base = base /\ new.versions = st.versions /\ new.docs = st.docs
      /\ new.chunks = st.chunks /\ Existing(new) = Existing(st)
  BY DEF StoreOK, Store, Existing
<1>3. BaseOK(base, new, H)
  BY <1>2 DEF BaseOK
<1> HIDE DEF new
<1>4. StoreOK(new, H) /\ Later(st, new)
  BY <1>1, <1>2, <1>3 DEF StoreOK, Later
<1> QED BY <1>4 DEF new

(* Saving a version that exists, with the configuration it has and counts  *)
(* that are not too high.                                                  *)
LEMMA VersionSaved ==
  ASSUME NEW st, NEW H, StoreOK(st, H),
         NEW v \in Existing(st), NEW record \in KnowledgeVersion,
         record.config = st.versions[v].config,
         v \notin H => /\ record.documents <= Cardinality(st.docs[v])
                       /\ record.chunks <= Cardinality(st.chunks[v])
  PROVE  LET new == [st EXCEPT !.versions[v] = record]
         IN  StoreOK(new, H) /\ Later(st, new) /\ Existing(new) = Existing(st)
<1> DEFINE new == [st EXCEPT !.versions[v] = record]
<1>1. v \in Version /\ record # None
  BY NoneAssumption DEF Existing
<1>2. new \in Store
  BY <1>1 DEF StoreOK, Store
<1>3. /\ new.base = st.base /\ new.docs = st.docs /\ new.chunks = st.chunks
      /\ \A w \in Version : new.versions[w] = IF w = v THEN record ELSE st.versions[w]
  BY <1>1 DEF StoreOK, Store
<1> HIDE DEF new
<1>4. Existing(new) = Existing(st)
  BY <1>1, <1>3 DEF Existing
<1>5. Later(st, new)
  BY <1>3, <1>4 DEF Later, Existing
<1>6. st.base # None => BaseOK(st.base, new, H)
  BY <1>2, <1>5, BaseLater DEF StoreOK, Store
<1>7. StoreOK(new, H)
  BY <1>2, <1>3, <1>4, <1>6 DEF StoreOK, Existing
<1> QED BY <1>4, <1>5, <1>7 DEF new

(* Saving a new version, its documents and its chunks.  The version may    *)
(* report documents that it does not have if it counts as half made.       *)
LEMMA VersionAdded ==
  ASSUME NEW st, NEW H, StoreOK(st, H),
         NEW v \in 1 .. MaxVersions, v \notin Existing(st),
         NEW record \in KnowledgeVersion,
         NEW D \in SUBSET Document, NEW C \in SUBSET D,
         NEW G, G = H \/ G = H \cup {v},
         v \notin G => /\ record.documents <= Cardinality(D)
                       /\ record.chunks <= Cardinality(C)
  PROVE  LET new == WithVersion(st, v, record, D, C)
         IN  /\ StoreOK(new, G)
             /\ Later(st, new)
             /\ new.base = st.base
             /\ Existing(new) = Existing(st) \cup {v}
             /\ new.chunks[v] = C
             /\ Active(new) = Active(st) \cup (IF record.status = "active" THEN {v} ELSE {})
<1> DEFINE new == WithVersion(st, v, record, D, C)
<1>1. v \in Version /\ v # Legacy /\ record # None
  BY NoneAssumption, KnowledgeAssumption DEF Version, Legacy
<1>2. C \in SUBSET Document
  OBVIOUS
<1>3. new \in Store
  BY <1>1, <1>2 DEF StoreOK, Store, WithVersion
<1>4. /\ new.base = st.base
      /\ \A w \in Version : /\ new.versions[w] = IF w = v THEN record ELSE st.versions[w]
                            /\ new.docs[w] = IF w = v THEN D ELSE st.docs[w]
                            /\ new.chunks[w] = IF w = v THEN C ELSE st.chunks[w]
  BY <1>1 DEF StoreOK, Store, WithVersion
<1>5. st.docs[v] = {} /\ st.chunks[v] = {}
  BY <1>1 DEF StoreOK
<1> HIDE DEF new
<1>6. Existing(new) = Existing(st) \cup {v}
  BY <1>1, <1>4 DEF Existing
<1>7. Active(new) = Active(st) \cup (IF record.status = "active" THEN {v} ELSE {})
  BY <1>1, <1>4, <1>6 DEF Active, Existing
<1>8. Later(st, new)
  BY <1>4, <1>5, <1>6 DEF Later, Existing
<1>9. st.base # None => BaseOK(st.base, new, G)
  BY <1>3, <1>8, BaseLater DEF StoreOK, Store
<1>10. StoreOK(new, G)
  <2>1. G \subseteq Existing(new) \ {Legacy}
    BY <1>1, <1>6 DEF StoreOK
  <2>2. \A w \in Version : new.chunks[w] \subseteq new.docs[w]
    BY <1>4 DEF StoreOK
  <2>3. \A w \in 1 .. MaxVersions : w \notin Existing(new) => new.docs[w] = {}
    BY <1>4, <1>6, KnowledgeAssumption DEF StoreOK, Version
  <2>4. \A w \in Existing(new) \ G : /\ new.versions[w].documents <= Cardinality(new.docs[w])
                                     /\ new.versions[w].chunks <= Cardinality(new.chunks[w])
    BY <1>1, <1>4, <1>6 DEF StoreOK, Existing
  <2> QED BY <1>3, <1>4, <1>9, <2>1, <2>2, <2>3, <2>4 DEF StoreOK
<1> QED BY <1>1, <1>4, <1>6, <1>7, <1>8, <1>10 DEF new

(* Saving a document of a version that exists, and then its chunks.        *)
LEMMA DocumentSaved ==
  ASSUME NEW st, NEW H, StoreOK(st, H),
         NEW v \in Existing(st), NEW d \in Document
  PROVE  LET merged == st.chunks[v] \cup {d}
             saved  == WithDocument(st, v, d)
             new    == WithChunks(saved, v, merged)
         IN  /\ StoreOK(saved, H) /\ Later(st, saved)
             /\ StoreOK(new, H) /\ Later(st, new)
             /\ saved.base = st.base
             /\ new.base = st.base /\ new.versions = st.versions
             /\ new.chunks[v] = merged
<1> DEFINE C     == st.chunks[v] \cup {d}
           saved == WithDocument(st, v, d)
           new   == WithChunks(saved, v, C)
<1>1. v \in Version
  BY DEF Existing
<1>2. saved \in Store
  BY <1>1 DEF StoreOK, Store, WithDocument
<1>3. /\ saved.base = st.base /\ saved.versions = st.versions /\ saved.chunks = st.chunks
      /\ \A w \in Version : saved.docs[w] = IF w = v THEN st.docs[w] \cup {d} ELSE st.docs[w]
  BY <1>1 DEF StoreOK, Store, WithDocument
<1>4. C \in SUBSET Document
  BY <1>1 DEF StoreOK, Store
<1> HIDE DEF saved
<1>5. new \in Store
  BY <1>1, <1>2, <1>4 DEF Store, WithChunks
<1>6. /\ new.base = st.base /\ new.versions = st.versions /\ new.docs = saved.docs
      /\ \A w \in Version : new.chunks[w] = IF w = v THEN C ELSE st.chunks[w]
  BY <1>1, <1>2, <1>3 DEF Store, WithChunks
<1> HIDE DEF new
<1>7. Existing(saved) = Existing(st) /\ Existing(new) = Existing(st)
  BY <1>3, <1>6 DEF Existing
<1>8. Later(st, saved) /\ Later(st, new)
  BY <1>3, <1>6, <1>7 DEF Later
<1>9. 1 .. MaxVersions \subseteq Version
  BY KnowledgeAssumption DEF Version
<1>10. StoreOK(saved, H)
  <2>1. st.base # None => BaseOK(st.base, saved, H)
    BY <1>2, <1>8, BaseLater DEF StoreOK, Store
  <2>2. \A w \in Existing(saved) \ H : /\ saved.versions[w].documents <= Cardinality(saved.docs[w])
                                       /\ saved.versions[w].chunks <= Cardinality(saved.chunks[w])
    BY <1>2, <1>3, <1>7, <1>8, CountsLater
  <2>3. \A w \in Version : saved.chunks[w] \subseteq saved.docs[w]
    BY <1>3 DEF StoreOK
  <2>4. \A w \in 1 .. MaxVersions : w \notin Existing(saved) => saved.docs[w] = {}
    BY <1>3, <1>7, <1>9 DEF StoreOK
  <2> QED BY <1>2, <1>3, <1>7, <2>1, <2>2, <2>3, <2>4 DEF StoreOK
<1>11. StoreOK(new, H)
  <2>1. st.base # None => BaseOK(st.base, new, H)
    BY <1>5, <1>8, BaseLater DEF StoreOK, Store
  <2>2. \A w \in Existing(new) \ H : /\ new.versions[w].documents <= Cardinality(new.docs[w])
                                     /\ new.versions[w].chunks <= Cardinality(new.chunks[w])
    BY <1>3, <1>5, <1>6, <1>7, <1>8, CountsLater
  <2>3. \A w \in Version : new.chunks[w] \subseteq new.docs[w]
    BY <1>3, <1>6 DEF StoreOK
  <2>4. \A w \in 1 .. MaxVersions : w \notin Existing(new) => new.docs[w] = {}
    BY <1>6, <1>7, <1>10 DEF StoreOK
  <2> QED BY <1>5, <1>6, <1>7, <1>10, <2>1, <2>2, <2>3, <2>4 DEF StoreOK
<1> QED BY <1>1, <1>3, <1>6, <1>8, <1>10, <1>11 DEF saved, new

(* The loop over the versions changes nothing but their statuses.          *)
LEMMA StatusesSwitched ==
  ASSUME NEW st, NEW H, StoreOK(st, H), NEW v \in Version, NEW k \in Version
  PROVE  LET new == Switched(st, v, k)
         IN  /\ StoreOK(new, H) /\ Later(st, new)
             /\ new.base = st.base /\ Existing(new) = Existing(st)
<1> DEFINE new == Switched(st, v, k)
<1>1. /\ new.base = st.base /\ new.docs = st.docs /\ new.chunks = st.chunks
      /\ new.versions \in [Version -> KnowledgeVersion \cup {None}]
      /\ \A w \in Existing(st) : /\ new.versions[w] \in KnowledgeVersion
                                 /\ new.versions[w].config = st.versions[w].config
                                 /\ new.versions[w].documents = st.versions[w].documents
                                 /\ new.versions[w].chunks = st.versions[w].chunks
      /\ \A w \in Version \ Existing(st) : new.versions[w] = None
  <2>1. st \in Store
    BY DEF StoreOK
  <2>2. \A w \in Existing(st) : StatusAfter(st, v, w) \in {"draft", "active", "archived"}
    BY <2>1 DEF StatusAfter, Store, KnowledgeVersion, Existing
  <2>3. \A w \in Existing(st) :
          /\ w \in Version /\ st.versions[w] # None
          /\ st.versions[w] \in KnowledgeVersion
          /\ LET q == [st.versions[w] EXCEPT !.status = StatusAfter(st, v, w)]
             IN  /\ q \in KnowledgeVersion
                 /\ q.config = st.versions[w].config
                 /\ q.documents = st.versions[w].documents
                 /\ q.chunks = st.versions[w].chunks
    BY <2>1, <2>2 DEF Store, KnowledgeVersion, Existing
  <2>4. /\ new.base = st.base /\ new.docs = st.docs /\ new.chunks = st.chunks
        /\ new.versions =
             [w \in Version |-> IF w > k \/ st.versions[w] = None
                                THEN st.versions[w]
                                ELSE [st.versions[w] EXCEPT !.status = StatusAfter(st, v, w)]]
    BY <2>1 DEF Switched, Store
  <2>5. \A w \in Version \ Existing(st) : st.versions[w] = None
    BY DEF Existing
  <2> HIDE DEF new
  <2> QED BY <2>3, <2>4, <2>5
<1>2. new \in Store
  BY <1>1 DEF StoreOK, Store, Switched
<1> HIDE DEF new
<1>3. Existing(new) = Existing(st)
  BY <1>1, NoneAssumption DEF Existing
<1>4. Later(st, new)
  BY <1>1, <1>3 DEF Later
<1>5. st.base # None => BaseOK(st.base, new, H)
  BY <1>2, <1>4, BaseLater DEF StoreOK, Store
<1>6. StoreOK(new, H)
  BY <1>1, <1>2, <1>3, <1>5 DEF StoreOK
<1> QED BY <1>1, <1>3, <1>4, <1>6 DEF new

(* Activating a version makes it the only active one.                      *)
LEMMA VersionActivated ==
  ASSUME NEW st, NEW H, StoreOK(st, H), NEW v \in Existing(st)
  PROVE  LET new == Activated(st, v)
         IN  /\ StoreOK(new, H) /\ Later(st, new)
             /\ IsOpen(new) /\ new.base.active = v
             /\ Active(new) = {v}
<1> DEFINE mid  == Switched(st, v, MaxVersions)
           base == [active |-> v, config |-> mid.versions[v].config,
                    documents |-> mid.versions[v].documents,
                    chunks |-> mid.versions[v].chunks,
                    versions |-> Cardinality(Existing(st))]
           new  == [mid EXCEPT !.base = base]
<1>1. v \in Version /\ MaxVersions \in Version
  BY KnowledgeAssumption DEF Existing, Version
<1>2. StoreOK(mid, H) /\ Later(st, mid) /\ Existing(mid) = Existing(st)
  BY <1>1, StatusesSwitched
<1>3. mid.versions[v] \in KnowledgeVersion
  BY <1>1, <1>2 DEF StoreOK, Store, Existing
<1>4. Active(mid) = {v}
  <2>1. \A w \in Existing(st) : mid.versions[w].status = StatusAfter(st, v, w)
    BY KnowledgeAssumption DEF Switched, StoreOK, Store, Existing, KnowledgeVersion, Version
  <2> QED BY <1>2, <2>1 DEF Active, StatusAfter
<1>5. v # None
  BY <1>1, KnowledgeAssumption DEF Version
<1> HIDE DEF mid
<1>6. base \in KnowledgeBase
  <2>1. Cardinality(Existing(st)) \in 0 .. MaxVersions + 1
    BY VersionsCounted DEF Existing
  <2> QED BY <1>1, <1>3, <2>1 DEF KnowledgeBase, KnowledgeVersion
<1>7. BaseOK(base, mid, H)
  BY <1>2, <1>5 DEF BaseOK, StoreOK
<1>8. StoreOK(new, H) /\ Later(mid, new)
  BY <1>2, <1>6, <1>7, BaseSaved
<1>9. new.base = base /\ new.versions = mid.versions
  BY <1>2 DEF StoreOK, Store
<1>10. IsOpen(new) /\ new.base.active = v
  BY <1>5, <1>6, <1>9, NoneAssumption DEF IsOpen
<1>11. Active(new) = {v}
  BY <1>4, <1>9 DEF Active, Existing
<1>12. Activated(st, v) = new
  BY DEF Activated, mid
<1> QED BY <1>2, <1>8, <1>10, <1>11, <1>12, LaterTransitive

(* The legacy version is saved as what the old base describes.             *)
LEMMA LegacySaved ==
  ASSUME NEW st, NEW H, StoreOK(st, H), st.base # None
  PROVE  LET new == WithLegacy(st)
         IN  /\ StoreOK(new, H) /\ Later(st, new)
             /\ new.base = st.base /\ new.docs = st.docs /\ new.chunks = st.chunks
             /\ Existing(new) = Existing(st) \cup {Legacy}
             /\ Existing(st) = {} => Active(new) = {Legacy}
<1> DEFINE new    == WithLegacy(st)
           record == [status |-> "active", config |-> st.base.config,
                      documents |-> Cardinality(st.docs[Legacy]),
                      chunks |-> Cardinality(st.chunks[Legacy])]
<1>1. st \in Store /\ st.base \in KnowledgeBase
  BY DEF StoreOK, Store
<1>2. CASE st.versions[Legacy] # None
  <2>1. new = st
    BY <1>1, <1>2 DEF WithLegacy, Store
  <2>2. Legacy \in Existing(st)
    BY <1>2, LegacyIsVersion DEF Existing
  <2> HIDE DEF new
  <2> QED BY <2>1, <2>2, LaterReflexive DEF new
<1>3. CASE st.versions[Legacy] = None
  <2>1. record \in KnowledgeVersion
    <3>1. st.docs[Legacy] \in SUBSET Document /\ st.chunks[Legacy] \in SUBSET Document
      BY <1>1, LegacyIsVersion DEF Store
    <3>2. Cardinality(st.docs[Legacy]) \in Count /\ Cardinality(st.chunks[Legacy]) \in Count
      BY <3>1, Counted
    <3> QED BY <1>1, <3>2 DEF KnowledgeVersion, KnowledgeBase
  <2>2. record # None
    BY <2>1, NoneAssumption
  <2>3. new \in Store
    BY <1>1, <1>3, <2>1, LegacyIsVersion DEF Store, WithLegacy
  <2>4. /\ new.base = st.base /\ new.docs = st.docs /\ new.chunks = st.chunks
        /\ \A w \in Version : new.versions[w] = IF w = Legacy THEN record ELSE st.versions[w]
    BY <1>1, <1>3, LegacyIsVersion DEF Store, WithLegacy
  <2> HIDE DEF new
  <2>5. Existing(new) = Existing(st) \cup {Legacy} /\ Legacy \notin Existing(st)
    BY <1>3, <2>2, <2>4, LegacyIsVersion DEF Existing
  <2>6. Later(st, new)
    BY <2>4, <2>5 DEF Later, Existing
  <2>7. BaseOK(st.base, new, H)
    BY <1>1, <2>3, <2>6, BaseLater DEF StoreOK
  <2>8. \A w \in Existing(new) \ H : /\ new.versions[w].documents <= Cardinality(new.docs[w])
                                     /\ new.versions[w].chunks <= Cardinality(new.chunks[w])
    <3>1. /\ Cardinality(st.docs[Legacy]) <= Cardinality(st.docs[Legacy])
          /\ Cardinality(st.chunks[Legacy]) <= Cardinality(st.chunks[Legacy])
      BY <1>1, LegacyIsVersion, Counted DEF Store
    <3> QED BY <2>4, <2>5, <3>1 DEF StoreOK, Existing
  <2>9. StoreOK(new, H)
    BY <2>3, <2>4, <2>5, <2>7, <2>8 DEF StoreOK
  <2>10. Existing(st) = {} => Active(new) = {Legacy}
    BY <2>4, <2>5, LegacyIsVersion DEF Active
  <2> QED BY <2>4, <2>5, <2>6, <2>9, <2>10 DEF new
<1> QED BY <1>2, <1>3

(* An old base gets the legacy version; any other is left as it is.        *)
LEMMA BaseOpened ==
  ASSUME NEW st, NEW H, StoreOK(st, H), st.base # None
  PROVE  LET new == Opened(st)
         IN  /\ StoreOK(new, H) /\ Later(st, new) /\ IsOpen(new)
             /\ new.docs = st.docs /\ new.chunks = st.chunks
             /\ Existing(new) \subseteq Existing(st) \cup {Legacy}
             /\ IsOpen(st) => new = st
             /\ ~IsOpen(st) /\ Existing(st) = {} =>
                  new.base.active = Legacy /\ Active(new) = {Legacy}
<1>1. CASE st.base.active # None
  BY <1>1, LaterReflexive DEF Opened, IsOpen
<1>2. CASE st.base.active = None
  <2> DEFINE mid  == WithLegacy(st)
             base == [st.base EXCEPT !.active   = Legacy,
                                     !.versions = Cardinality(Existing(mid)),
                                     !.config   = mid.versions[Legacy].config]
             new  == [mid EXCEPT !.base = base]
  <2>1. /\ StoreOK(mid, H) /\ Later(st, mid) /\ Existing(mid) = Existing(st) \cup {Legacy}
        /\ mid.base = st.base /\ mid.docs = st.docs /\ mid.chunks = st.chunks
        /\ Existing(st) = {} => Active(mid) = {Legacy}
    BY LegacySaved
  <2>2. Opened(st) = new
    <3>1. mid.base = st.base /\ mid \in Store
      BY <2>1 DEF StoreOK
    <3> HIDE DEF mid
    <3>2. [mid EXCEPT !.base.active = Legacy,
                      !.base.versions = Cardinality(Existing(mid)),
                      !.base.config = mid.versions[Legacy].config] = new
      BY <3>1 DEF Store
    <3> QED BY <1>2, <3>2 DEF Opened, mid
  <2> HIDE DEF mid
  <2>3. st.base \in KnowledgeBase /\ mid.versions[Legacy] \in KnowledgeVersion /\ Legacy # None
    BY <2>1, LegacyIsVersion, KnowledgeAssumption DEF StoreOK, Store, Existing, Version
  <2>4. base \in KnowledgeBase
    <3>1. Cardinality(Existing(mid)) \in 0 .. MaxVersions + 1
      BY VersionsCounted DEF Existing
    <3> QED BY <2>3, <3>1, LegacyIsVersion DEF KnowledgeBase, KnowledgeVersion
  <2>5. base.active = Legacy /\ base.config = mid.versions[Legacy].config
        /\ base.documents = st.base.documents /\ base.chunks = st.base.chunks
    BY <2>3 DEF KnowledgeBase
  <2>6. BaseOK(base, mid, H)
    <3>1. /\ st.base.documents <= Cardinality(mid.docs[Legacy])
          /\ st.base.chunks <= Cardinality(mid.chunks[Legacy])
      BY <1>2, <2>1 DEF StoreOK, BaseOK
    <3> HIDE DEF base
    <3> QED BY <2>1, <2>3, <2>5, <3>1 DEF BaseOK
  <2>7. StoreOK(new, H) /\ Later(mid, new)
    BY <2>1, <2>4, <2>6, BaseSaved
  <2>8. new.base = base /\ new.versions = mid.versions /\ new.docs = mid.docs /\ new.chunks = mid.chunks
    BY <2>1 DEF StoreOK, Store
  <2> HIDE DEF new, base
  <2>9. IsOpen(new) /\ ~IsOpen(st)
    BY <1>2, <2>3, <2>4, <2>5, <2>8, NoneAssumption DEF IsOpen
  <2>10. Active(new) = Active(mid) /\ Existing(new) = Existing(mid)
    BY <2>8 DEF Active, Existing
  <2>11. Later(st, new)
    BY <2>1, <2>7, LaterTransitive
  <2> QED BY <2>1, <2>2, <2>5, <2>7, <2>8, <2>9, <2>10, <2>11
<1> QED BY <1>1, <1>2

-----------------------------------------------------------------------------
(* Steps.  Each kind of step needs a good new store that is later than the *)
(* old one.                                                                *)

(* The pointer moves back only by a request that ends.                     *)
MovedByStaleWrite ==
  Repointed => \E r \in Request : /\ job[r] # None /\ job'[r] = None
                                  /\ store'.base.active = job[r].base.active

(* What every step does.                                                   *)
GoodStep == IInv' /\ Later(store, store') /\ MovedByStaleWrite

(* The vector store keeps up, and so do the requests that are not involved.*)
LEMMA OthersKept ==
  ASSUME IInv, NEW G, halfmade \subseteq G, StoreOK(store', G), Later(store, store')
  PROVE  /\ \A v \in Version : vectors[v] \subseteq store'.chunks[v]
         /\ \A r \in Request : job[r] # None => JobOK(job[r], store', G)
<1>1. store \in Store /\ store' \in Store
  BY DEF IInv, StoreOK
<1>2. \A r \in Request : job[r] # None => job[r] \in Job /\ JobOK(job[r], store, halfmade)
  BY DEF IInv, TypeOK
<1>3. \A v \in Version : vectors[v] \subseteq store'.chunks[v]
  BY DEF IInv, Later
<1> QED BY <1>1, <1>2, <1>3, JobLater

(* A crash leaves a good store and no request.                             *)
LEMMA TornStep ==
  ASSUME IInv, NEW stores, NEW V, Torn(stores, V),
         \A st \in stores : /\ StoreOK(st, halfmade \cup V) /\ Later(store, st)
                            /\ \/ st.base.active = store.base.active
                               \/ store.base = None \/ store.base.active = None
                               \/ \E r \in Request : /\ job[r] # None
                                                     /\ st.base.active = job[r].base.active
  PROVE  GoodStep
<1>1. /\ StoreOK(store', halfmade') /\ Later(store, store') /\ halfmade \subseteq halfmade'
      /\ chosen' = None /\ vectors' = vectors /\ job' = [r \in Request |-> None]
  BY DEF Torn
<1>2. \A v \in Version : vectors[v] \subseteq store'.chunks[v]
  BY <1>1, OthersKept
<1>3. TypeOK'
  <2>1. store' \in Store /\ halfmade' \subseteq Version
    BY <1>1 DEF StoreOK, Existing
  <2> QED BY <1>1, <2>1 DEF TypeOK, IInv
<1>4. ChosenOK'
  BY <1>1 DEF ChosenOK
<1>5. IInv'
  BY <1>1, <1>2, <1>3, <1>4 DEF IInv
<1>6. MovedByStaleWrite
  BY <1>1 DEF MovedByStaleWrite, Repointed, Torn
<1> QED BY <1>1, <1>5, <1>6 DEF GoodStep

(* A crash that leaves no version half made.                               *)
LEMMA TornWhole ==
  ASSUME IInv, NEW stores, Torn(stores, {}),
         \A st \in stores : /\ StoreOK(st, halfmade) /\ Later(store, st)
                            /\ \/ st.base.active = store.base.active
                               \/ store.base = None \/ store.base.active = None
                               \/ \E r \in Request : /\ job[r] # None
                                                     /\ st.base.active = job[r].base.active
  PROVE  GoodStep
<1>1. halfmade \cup {} = halfmade
  OBVIOUS
<1> QED BY <1>1, TornStep

(* A handler that does not await.                                          *)
LEMMA SavingStep ==
  ASSUME IInv, StoreOK(store', halfmade), Later(store, store'),
         IsOpen(store) => IsOpen(store'),
         UNCHANGED <<vectors, job, halfmade>>,
         chosen' \in Version \cup {None}, ChosenOK', MovedByStaleWrite
  PROVE  GoodStep
<1>1. /\ \A v \in Version : vectors[v] \subseteq store'.chunks[v]
      /\ \A r \in Request : job[r] # None => JobOK(job[r], store', halfmade)
  BY OthersKept
<1>2. TypeOK'
  BY DEF TypeOK, IInv, StoreOK
<1>3. \A r \in Request : job[r] # None => IsOpen(store')
  BY DEF IInv
<1>4. IInv'
  BY <1>1, <1>2, <1>3 DEF IInv
<1> QED BY <1>4 DEF GoodStep

(* A handler up to its await.                                              *)
LEMMA BeginningStep ==
  ASSUME IInv, StoreOK(store', halfmade), Later(store, store'), IsOpen(store'),
         NEW r \in Request, NEW j \in Job, job' = [job EXCEPT ![r] = j],
         JobOK(j, store', halfmade),
         UNCHANGED <<vectors, chosen, halfmade>>, ChosenOK', MovedByStaleWrite
  PROVE  GoodStep
<1>1. /\ \A v \in Version : vectors[v] \subseteq store'.chunks[v]
      /\ \A q \in Request : job[q] # None => JobOK(job[q], store', halfmade)
  BY OthersKept
<1>2. /\ job' \in [Request -> Job \cup {None}]
      /\ \A q \in Request : job'[q] = IF q = r THEN j ELSE job[q]
  BY DEF IInv, TypeOK
<1>3. TypeOK'
  BY <1>2 DEF TypeOK, IInv, StoreOK
<1>4. \A q \in Request : job'[q] # None => JobOK(job'[q], store', halfmade)
  BY <1>1, <1>2
<1>5. IInv'
  BY <1>1, <1>3, <1>4 DEF IInv
<1> QED BY <1>5 DEF GoodStep

(* A handler after its await.                                              *)
LEMMA EndingStep ==
  ASSUME IInv, StoreOK(store', halfmade), Later(store, store'), IsOpen(store'),
         NEW r \in Request, job[r] # None, Ends(r),
         NEW S \in SUBSET job[r].chunks, Upserted(r, S),
         UNCHANGED halfmade,
         chosen' \in Version \cup {None}, ChosenOK', MovedByStaleWrite
  PROVE  GoodStep
<1>1. /\ \A v \in Version : vectors[v] \subseteq store'.chunks[v]
      /\ \A q \in Request : job[q] # None => JobOK(job[q], store', halfmade)
  BY OthersKept
<1>2. /\ job' \in [Request -> Job \cup {None}]
      /\ \A q \in Request : job'[q] # None => job'[q] = job[q]
  BY DEF IInv, TypeOK, Ends
<1>3. job[r] \in Job /\ job[r].version \in Version
  BY DEF IInv, TypeOK, Job
<1>4. job[r].chunks \subseteq store'.chunks[job[r].version]
  BY <1>1 DEF JobOK
<1>5. vectors' \in [Version -> SUBSET Document]
      /\ \A v \in Version : vectors'[v] \subseteq store'.chunks[v]
  <2>1. S \subseteq Document
    BY <1>3 DEF Job
  <2> QED BY <1>1, <1>3, <1>4, <2>1 DEF Upserted, IInv, TypeOK
<1>6. TypeOK'
  BY <1>2, <1>5 DEF TypeOK, IInv, StoreOK
<1>7. IInv'
  BY <1>1, <1>2, <1>5, <1>6 DEF IInv
<1> QED BY <1>7 DEF GoodStep

-----------------------------------------------------------------------------
(* What becomes of the versions in flight.                                 *)

LEMMA InFlightBegins ==
  ASSUME IInv, NEW r \in Request, job[r] = None, NEW j \in Job, job' = [job EXCEPT ![r] = j]
  PROVE  InFlight(job') = InFlight(job) \cup (IF j.activate THEN {j.version} ELSE {})
<1>1. j # None
  BY NoneAssumption
<1>2. \A q \in Request : job'[q] = IF q = r THEN j ELSE job[q]
  BY DEF IInv, TypeOK
<1> QED BY <1>1, <1>2 DEF InFlight

LEMMA InFlightEnds ==
  ASSUME IInv, NEW r \in Request, job[r] # None, ~job[r].activate, Ends(r)
  PROVE  InFlight(job') = InFlight(job)
<1>1. \A q \in Request : job'[q] = IF q = r THEN None ELSE job[q]
  BY DEF IInv, TypeOK, Ends
<1> QED BY <1>1 DEF InFlight

-----------------------------------------------------------------------------
(* One lemma for each action.                                              *)

LEMMA CreateStep ==
  ASSUME IInv, NEW v \in Version, Create(v)
  PROVE  GoodStep
<1> DEFINE record    == [status |-> "active", config |-> DefaultConfig,
                         documents |-> 0, chunks |-> 0]
           versioned == [store EXCEPT !.versions[v] = record]
           base      == [active |-> v, config |-> DefaultConfig, versions |-> 1,
                         documents |-> 0, chunks |-> 0]
<1>1. /\ v \in 1 .. MaxVersions /\ v \notin Existing(store) /\ v # None
      /\ store \in Store /\ StoreOK(store, halfmade)
  BY KnowledgeAssumption DEF Create, Unused, Version, IInv, StoreOK
<1>2. 0 \in Count /\ {} \in SUBSET Document /\ Cardinality({}) = 0
  BY FS_EmptySet, Counted
<1>3. record \in KnowledgeVersion /\ base \in KnowledgeBase
  BY <1>1, <1>2, KnowledgeAssumption DEF KnowledgeVersion, KnowledgeBase
<1>4. versioned = WithVersion(store, v, record, {}, {})
  <2>1. store.docs[v] = {} /\ store.chunks[v] = {}
    BY <1>1 DEF StoreOK
  <2>2. [store.docs EXCEPT ![v] = {}] = store.docs /\ [store.chunks EXCEPT ![v] = {}] = store.chunks
    BY <1>1, <2>1 DEF Store
  <2> QED BY <1>1, <2>2 DEF WithVersion, Store
<1>5. /\ StoreOK(versioned, halfmade) /\ Later(store, versioned)
      /\ versioned.base = store.base
      /\ Existing(versioned) = Existing(store) \cup {v}
      /\ Active(versioned) = Active(store) \cup {v}
  <2>1. Cardinality({}) >= record.documents /\ Cardinality({}) >= record.chunks
    BY <1>2
  <2> HIDE DEF record
  <2>2. record.status = "active"
    BY DEF record
  <2> QED BY <1>1, <1>2, <1>3, <1>4, <2>1, <2>2, VersionAdded
<1>6. CASE /\ store' = [versioned EXCEPT !.base = base]
           /\ chosen' = IF store.base = None /\ chosen # None THEN v ELSE None
           /\ UNCHANGED <<vectors, job, halfmade>>
  <2>1. BaseOK(base, versioned, halfmade)
    <3>1. v \in Existing(versioned) /\ versioned.versions[v].config = DefaultConfig
      BY <1>1, <1>5 DEF Store
    <3>2. versioned.docs[v] \in SUBSET Document /\ versioned.chunks[v] \in SUBSET Document
      BY <1>5 DEF StoreOK, Store
    <3>3. Cardinality(versioned.docs[v]) >= 0 /\ Cardinality(versioned.chunks[v]) >= 0
      BY <3>2, Counted DEF Count
    <3> QED BY <1>1, <3>1, <3>3 DEF BaseOK
  <2> HIDE DEF versioned
  <2>2. StoreOK(store', halfmade) /\ Later(versioned, store')
    BY <1>3, <1>5, <1>6, <2>1, BaseSaved
  <2>3. store'.base = base /\ store'.versions = versioned.versions
    BY <1>5, <1>6 DEF StoreOK, Store
  <2>4. IsOpen(store') /\ store'.base.active = v
    BY <1>1, <1>3, <2>3, NoneAssumption DEF IsOpen
  <2>5. ChosenOK'
    <3>1. chosen' # None => Existing(store) = {}
      BY <1>6 DEF IInv, ChosenOK, IsOpen
    <3>2. Active(store') = Active(store) \cup {v}
      BY <1>5, <2>3 DEF Active, Existing
    <3> QED BY <1>6, <2>4, <3>1, <3>2 DEF ChosenOK, Active
  <2>6. MovedByStaleWrite
    BY <1>1, <2>4 DEF MovedByStaleWrite, Repointed
  <2> QED BY <1>5, <1>6, <2>2, <2>4, <2>5, <2>6, LaterTransitive, SavingStep
<1>7. CASE Torn({versioned}, {})
  <2> HIDE DEF versioned
  <2> QED BY <1>5, <1>7, TornWhole
<1> QED BY <1>6, <1>7 DEF Create

LEMMA OpenStep ==
  ASSUME IInv, Open
  PROVE  GoodStep
<1>1. StoreOK(store, halfmade) /\ store.base # None /\ store.base.active = None
  BY DEF IInv, Open
<1>2. CASE store' = Opened(store) /\ UNCHANGED <<vectors, job, chosen, halfmade>>
  <2>1. /\ StoreOK(store', halfmade) /\ Later(store, store') /\ IsOpen(store')
        /\ Existing(store) = {} => store'.base.active = Legacy /\ Active(store') = {Legacy}
    BY <1>1, <1>2, BaseOpened DEF IsOpen
  <2>2. ChosenOK'
    BY <1>1, <1>2, <2>1 DEF IInv, ChosenOK, IsOpen
  <2>3. MovedByStaleWrite
    BY <1>1 DEF MovedByStaleWrite, Repointed
  <2> QED BY <1>2, <2>1, <2>2, <2>3, SavingStep DEF IInv, TypeOK
<1>3. CASE Torn({WithLegacy(store)}, {})
  <2> DEFINE st == WithLegacy(store)
  <2>1. StoreOK(st, halfmade) /\ Later(store, st) /\ st.base = store.base
    BY <1>1, LegacySaved
  <2> HIDE DEF st
  <2>2. Torn({st}, {})
    BY <1>3 DEF st
  <2> QED BY <2>1, <2>2, TornWhole
<1> QED BY <1>2, <1>3 DEF Open

LEMMA ActivateStep ==
  ASSUME IInv, NEW v \in Version, Activate(v)
  PROVE  GoodStep
<1> DEFINE opened == Opened(store)
<1>1. /\ StoreOK(store, halfmade) /\ store.base # None /\ v \in Existing(opened)
  BY DEF IInv, Activate
<1>2. /\ StoreOK(opened, halfmade) /\ Later(store, opened) /\ IsOpen(opened)
      /\ IsOpen(store) => opened = store
  BY <1>1, BaseOpened
<1> HIDE DEF opened
<1>3. CASE /\ store' = Activated(opened, v) /\ chosen' = v
           /\ UNCHANGED <<vectors, job, halfmade>>
  <2>1. /\ StoreOK(store', halfmade) /\ Later(store, store') /\ IsOpen(store')
        /\ store'.base.active = v /\ Active(store') = {v}
    BY <1>1, <1>2, <1>3, VersionActivated, LaterTransitive
  <2>2. ChosenOK'
    BY <1>3, <2>1 DEF ChosenOK
  <2>3. MovedByStaleWrite
    BY <1>3, <2>1 DEF MovedByStaleWrite, Repointed
  <2> QED BY <1>3, <2>1, <2>2, <2>3, SavingStep
<1>4. CASE Torn({Switched(opened, v, k) : k \in Version}, {})
  <2>1. \A k \in Version : LET st == Switched(opened, v, k)
                           IN  StoreOK(st, halfmade) /\ Later(opened, st) /\ st.base = opened.base
    BY <1>2, StatusesSwitched
  <2>2. \A k \in Version : LET st == Switched(opened, v, k)
                           IN  /\ StoreOK(st, halfmade) /\ Later(store, st)
                               /\ \/ st.base.active = store.base.active
                                  \/ store.base = None \/ store.base.active = None
    BY <1>2, <2>1, LaterTransitive DEF IsOpen
  <2> QED BY <1>4, <2>2, TornWhole
<1> QED BY <1>3, <1>4 DEF Activate, opened

LEMMA BeginAddStep ==
  ASSUME IInv, NEW r \in Request, NEW d \in Document, BeginAdd(r, d)
  PROVE  GoodStep
<1> DEFINE opened == Opened(store)
           v      == opened.base.active
           saved  == WithDocument(opened, v, d)
           merged == opened.chunks[v] \cup {d}
           new    == WithChunks(saved, v, merged)
           j      == [op |-> "add", version |-> v, chunks |-> merged, base |-> opened.base,
                      record |-> opened.versions[v], activate |-> FALSE]
<1>1. StoreOK(store, halfmade) /\ store.base # None /\ job[r] = None
  BY DEF IInv, BeginAdd
<1>2. /\ StoreOK(opened, halfmade) /\ Later(store, opened) /\ IsOpen(opened)
      /\ IsOpen(store) => opened = store
      /\ ~IsOpen(store) /\ Existing(store) = {} => v = Legacy /\ Active(opened) = {Legacy}
  BY <1>1, BaseOpened
<1> HIDE DEF opened
<1>3. /\ v \in Existing(opened) /\ v \in Version /\ v # None /\ v = opened.base.active
      /\ opened.base \in KnowledgeBase /\ opened.versions[v] \in KnowledgeVersion
      /\ opened.versions[v] # None
  BY <1>2 DEF StoreOK, BaseOK, IsOpen, Store, Existing
<1>4. merged \in SUBSET Document
  BY <1>2, <1>3 DEF StoreOK, Store
<1> HIDE DEF v
<1>5. /\ StoreOK(saved, halfmade) /\ Later(opened, saved) /\ saved.base = opened.base
      /\ StoreOK(new, halfmade) /\ Later(opened, new) /\ new.base = opened.base
      /\ new.versions = opened.versions /\ new.chunks[v] = merged
  <2>1. StoreOK(opened, halfmade) /\ v \in Existing(opened)
    BY <1>2, <1>3
  <2>2. d \in Document
    OBVIOUS
  <2>3. StoreOK(saved, halfmade) /\ Later(opened, saved) /\ saved.base = opened.base
    BY <2>1, <2>2, DocumentSaved
  <2>4. StoreOK(new, halfmade) /\ Later(opened, new) /\ new.base = opened.base /\ new.versions = opened.versions
    BY <2>1, <2>2, DocumentSaved
  <2> QED BY <2>1, <2>2, <2>3, <2>4, DocumentSaved
<1> HIDE DEF merged, saved, new
<1>6. CASE store' = new /\ job' = [job EXCEPT ![r] = j] /\ UNCHANGED <<vectors, chosen, halfmade>>
  <2>1. j \in Job
    BY <1>3, <1>4 DEF Job
  <2>2. IsOpen(store') /\ Existing(store') = Existing(opened) /\ Active(store') = Active(opened)
    BY <1>2, <1>5, <1>6 DEF IsOpen, Active, Existing
  <2>3. JobOK(j, store', halfmade)
    <3>1. BaseOK(opened.base, store', halfmade)
      BY <1>5, <1>6, <2>2 DEF StoreOK, IsOpen
    <3> QED BY <1>3, <1>5, <1>6, <2>2, <3>1 DEF JobOK
  <2>4. ChosenOK'
    <3>1. InFlight(job') = InFlight(job)
      BY <1>1, <1>6, <2>1, InFlightBegins
    <3> HIDE DEF j
    <3> QED BY <1>2, <1>3, <1>5, <1>6, <2>2, <3>1 DEF IInv, ChosenOK, IsOpen
  <2>5. MovedByStaleWrite
    BY <1>1, <1>2, <1>5, <1>6 DEF MovedByStaleWrite, Repointed, IsOpen
  <2> HIDE DEF j
  <2> QED BY <1>2, <1>5, <1>6, <2>1, <2>2, <2>3, <2>4, <2>5, LaterTransitive, BeginningStep
<1>7. CASE Torn({saved}, {})
  <2>1. Later(store, saved) /\ (saved.base.active = store.base.active \/ store.base.active = None)
    BY <1>1, <1>2, <1>5, LaterTransitive DEF IsOpen
  <2> QED BY <1>5, <1>7, <2>1, TornWhole
<1> QED BY <1>6, <1>7 DEF BeginAdd, Awaits, opened, v, saved, merged, new

(* A snapshot and an optimisation: version v, described by record, gets    *)
(* documents D and chunks C.                                               *)
LEMMA BeginVersionStep ==
  ASSUME IInv, NEW r \in Request, job[r] = None, store.base # None,
         NEW op \in {"snapshot", "optimise"}, NEW v \in Version, Unused(v),
         NEW record \in KnowledgeVersion,
         NEW D \in SUBSET Document, NEW C \in SUBSET D,
         record.documents <= Cardinality(D), record.chunks <= Cardinality(C),
         NEW activate \in BOOLEAN, activate => op = "optimise",
         record.status = "active" => activate,
         BeginVersion(r, op, v, record, D, C, activate)
  PROVE  GoodStep
<1> DEFINE opened == Opened(store)
           new    == WithVersion(opened, v, record, D, C)
           bare   == WithVersion(opened, v, record, {}, {})
           empty  == WithVersion(opened, v, record, D, {})
           j      == [op |-> op, version |-> v, chunks |-> C, base |-> opened.base,
                      record |-> None, activate |-> activate]
<1>1. /\ StoreOK(opened, halfmade) /\ Later(store, opened) /\ IsOpen(opened)
      /\ Existing(opened) \subseteq Existing(store) \cup {Legacy}
      /\ IsOpen(store) => opened = store
      /\ ~IsOpen(store) /\ Existing(store) = {} =>
           opened.base.active = Legacy /\ Active(opened) = {Legacy}
  BY BaseOpened DEF IInv
<1>2. v \in 1 .. MaxVersions /\ v \notin Existing(opened)
  BY <1>1, KnowledgeAssumption DEF Unused, Legacy
<1>3. opened.base.active = store.base.active \/ store.base.active = None
  BY <1>1 DEF IsOpen
<1> HIDE DEF opened
<1>4. /\ StoreOK(new, halfmade) /\ Later(opened, new) /\ new.base = opened.base
      /\ Existing(new) = Existing(opened) \cup {v} /\ new.chunks[v] = C
      /\ Active(new) = Active(opened) \cup (IF record.status = "active" THEN {v} ELSE {})
  BY <1>1, <1>2, VersionAdded
<1> HIDE DEF new
<1>5. CASE store' = new /\ job' = [job EXCEPT ![r] = j] /\ UNCHANGED <<vectors, chosen, halfmade>>
  <2>1. opened.base \in KnowledgeBase /\ opened.base # None /\ opened.base.active # None
    BY <1>1 DEF StoreOK, Store, IsOpen
  <2>2. j \in Job
    BY <2>1 DEF Job
  <2>3. IsOpen(store')
    BY <1>4, <1>5, <2>1 DEF IsOpen
  <2>4. JobOK(j, store', halfmade)
    <3>1. BaseOK(opened.base, store', halfmade)
      BY <1>4, <1>5, <2>1 DEF StoreOK
    <3> QED BY <1>4, <1>5, <2>1, <3>1 DEF JobOK
  <2>5. ChosenOK'
    <3>1. InFlight(job') = InFlight(job) \cup (IF j.activate THEN {v} ELSE {})
      BY <1>5, <2>2, InFlightBegins
    <3>2. j.activate = activate
      OBVIOUS
    <3> HIDE DEF j
    <3>3. Active(store') \subseteq Active(opened) \cup InFlight(job')
      BY <1>4, <1>5, <3>1, <3>2
    <3>4. chosen # None => /\ opened.base.active = chosen
                           /\ chosen \in Active(opened)
                           /\ Active(opened) \subseteq {chosen} \cup InFlight(job)
      BY <1>1 DEF IInv, ChosenOK
    <3> QED BY <1>4, <1>5, <2>3, <3>1, <3>3, <3>4 DEF ChosenOK
  <2>6. MovedByStaleWrite
    BY <1>3, <1>4, <1>5 DEF MovedByStaleWrite, Repointed
  <2> HIDE DEF j
  <2> QED BY <1>1, <1>4, <1>5, <2>2, <2>3, <2>4, <2>5, <2>6, LaterTransitive, BeginningStep
<1>6. CASE Torn({bare, empty}, {v})
  <2> DEFINE G == halfmade \cup {v}
  <2>1. v \in G /\ G = halfmade \cup {v}
    OBVIOUS
  <2> HIDE DEF G
  <2>2. ASSUME NEW T \in SUBSET Document, NEW U \in SUBSET T
        PROVE  LET st == WithVersion(opened, v, record, T, U)
               IN  StoreOK(st, G) /\ Later(store, st) /\ st.base = opened.base
    <3>1. Cardinality(U) <= Cardinality(T)
      BY Counted
    <3>2. LET st == WithVersion(opened, v, record, T, U)
          IN  StoreOK(st, G) /\ Later(opened, st) /\ st.base = opened.base
      BY <1>1, <1>2, <2>1, <3>1, VersionAdded
    <3> QED BY <1>1, <3>2, LaterTransitive
  <2>3. {} \in SUBSET Document /\ {} \in SUBSET {} /\ {} \in SUBSET D
    OBVIOUS
  <2>4. StoreOK(bare, G) /\ Later(store, bare) /\ bare.base = opened.base
    BY <2>2, <2>3, Zenon
  <2>5. StoreOK(empty, G) /\ Later(store, empty) /\ empty.base = opened.base
    BY <2>2, <2>3, Zenon
  <2> HIDE DEF bare, empty
  <2> DEFINE stores == {bare, empty}
             V      == {v}
  <2>6. \A st \in stores : /\ StoreOK(st, halfmade \cup V) /\ Later(store, st)
                           /\ \/ st.base.active = store.base.active
                              \/ store.base.active = None
    BY <1>3, <2>4, <2>5 DEF G
  <2>7. Torn(stores, V)
    BY <1>6
  <2> HIDE DEF stores, V
  <2> QED BY <2>6, <2>7, TornStep
<1> QED BY <1>5, <1>6 DEF BeginVersion, Awaits, opened, new

(* A new version that is finished at once.                                 *)
LEMMA MakeVersionStep ==
  ASSUME IInv, store.base # None, NEW v \in Version, Unused(v),
         NEW record \in KnowledgeVersion, NEW D \in SUBSET Document,
         record.documents <= Cardinality(D), record.chunks <= Cardinality({}),
         record.status # "active", MakeVersion(v, record, D)
  PROVE  GoodStep
<1> DEFINE opened == Opened(store)
           made   == WithVersion(opened, v, record, D, {})
           bare   == WithVersion(opened, v, record, {}, {})
           base   == [opened.base EXCEPT !.versions = Cardinality(Existing(made))]
<1>1. /\ StoreOK(opened, halfmade) /\ Later(store, opened) /\ IsOpen(opened)
      /\ Existing(opened) \subseteq Existing(store) \cup {Legacy}
      /\ IsOpen(store) => opened = store
      /\ ~IsOpen(store) /\ Existing(store) = {} =>
           opened.base.active = Legacy /\ Active(opened) = {Legacy}
  BY BaseOpened DEF IInv
<1>2. v \in 1 .. MaxVersions /\ v \notin Existing(opened)
  BY <1>1, KnowledgeAssumption DEF Unused, Legacy
<1>3. opened.base.active = store.base.active \/ store.base.active = None
  BY <1>1 DEF IsOpen
<1>4. {} \in SUBSET Document /\ {} \in SUBSET {} /\ {} \in SUBSET D
  OBVIOUS
<1> HIDE DEF opened
<1>5. /\ StoreOK(made, halfmade) /\ Later(opened, made) /\ made.base = opened.base
      /\ Active(made) = Active(opened)
  <2>1. /\ StoreOK(made, halfmade) /\ Later(opened, made) /\ made.base = opened.base
        /\ Active(made) = Active(opened) \cup (IF record.status = "active" THEN {v} ELSE {})
    BY <1>1, <1>2, <1>4, VersionAdded
  <2> QED BY <2>1
<1>6. Later(store, made)
  BY <1>1, <1>5, LaterTransitive
<1>7. CASE store' = [made EXCEPT !.base = base] /\ UNCHANGED <<vectors, job, chosen, halfmade>>
  <2>1. opened.base \in KnowledgeBase /\ opened.base.active # None
    BY <1>1 DEF StoreOK, Store, IsOpen
  <2>2. Cardinality(Existing(made)) \in 0 .. MaxVersions + 1
    BY VersionsCounted DEF Existing
  <2>3. /\ base \in KnowledgeBase /\ base.active = opened.base.active
        /\ base.config = opened.base.config /\ base.documents = opened.base.documents
        /\ base.chunks = opened.base.chunks
    BY <2>1, <2>2 DEF KnowledgeBase
  <2> HIDE DEF base, made
  <2>4. BaseOK(base, made, halfmade)
    <3>1. BaseOK(opened.base, made, halfmade)
      BY <1>5, <2>1, NoneAssumption DEF StoreOK
    <3> QED BY <2>3, <3>1 DEF BaseOK
  <2>5. StoreOK(store', halfmade) /\ Later(made, store')
    BY <1>5, <1>7, <2>3, <2>4, BaseSaved
  <2>6. store'.base = base /\ store'.versions = made.versions
    BY <1>5, <1>7 DEF StoreOK, Store
  <2>7. IsOpen(store') /\ Active(store') = Active(made)
    BY <2>1, <2>3, <2>6, NoneAssumption DEF IsOpen, Active, Existing
  <2>8. ChosenOK'
    BY <1>1, <1>5, <1>7, <2>3, <2>6, <2>7 DEF IInv, ChosenOK
  <2>9. MovedByStaleWrite
    BY <1>3, <2>3, <2>6 DEF MovedByStaleWrite, Repointed
  <2>10. Later(store, store') /\ chosen' \in Version \cup {None}
    BY <1>6, <1>7, <2>5, LaterTransitive DEF IInv, TypeOK
  <2> QED BY <1>7, <2>5, <2>7, <2>8, <2>9, <2>10, SavingStep
<1>8. CASE Torn({bare}, {v})
  <2> DEFINE G == halfmade \cup {v}
  <2>1. v \in G /\ G = halfmade \cup {v}
    OBVIOUS
  <2> HIDE DEF G
  <2>2. StoreOK(bare, G) /\ Later(opened, bare) /\ bare.base = opened.base
    BY <1>1, <1>2, <1>4, <2>1, VersionAdded
  <2>3. Later(store, bare)
    BY <1>1, <2>2, LaterTransitive
  <2> HIDE DEF bare
  <2> DEFINE stores == {bare}
             V      == {v}
  <2>4. \A st \in stores : /\ StoreOK(st, halfmade \cup V) /\ Later(store, st)
                           /\ \/ st.base.active = store.base.active
                              \/ store.base.active = None
    BY <1>3, <2>2, <2>3 DEF G
  <2>5. Torn(stores, V)
    BY <1>8
  <2> HIDE DEF stores, V
  <2> QED BY <2>4, <2>5, TornStep
<1>9. CASE Torn({made}, {})
  <2> HIDE DEF made
  <2> QED BY <1>3, <1>5, <1>6, <1>9, TornWhole
<1> QED BY <1>7, <1>8, <1>9 DEF MakeVersion, opened

LEMMA BeginSnapshotStep ==
  ASSUME IInv, NEW r \in Request, NEW v \in Version, NEW w \in Version, BeginSnapshot(r, v, w)
  PROVE  GoodStep
<1> DEFINE opened == Opened(store)
           D      == store.docs[w]
           C      == store.chunks[w]
           record == [status |-> "draft", config |-> opened.versions[w].config,
                      documents |-> Cardinality(D), chunks |-> Cardinality(C)]
<1>1. /\ job[r] = None /\ store.base # None /\ Unused(v) /\ w \in Existing(opened)
      /\ \/ BeginVersion(r, "snapshot", v, record, D, C, FALSE)
         \/ C = {} /\ MakeVersion(v, record, D)
  BY DEF BeginSnapshot
<1>2. StoreOK(opened, halfmade)
  BY <1>1, BaseOpened DEF IInv
<1>3. D \in SUBSET Document /\ C \in SUBSET D
  BY DEF IInv, StoreOK, Store
<1>4. /\ Cardinality(D) \in Count /\ Cardinality(C) \in Count
      /\ Cardinality(D) <= Cardinality(D) /\ Cardinality(C) <= Cardinality(C)
  BY <1>3, Counted DEF Count
<1>5. opened.versions[w] \in KnowledgeVersion
  BY <1>1, <1>2 DEF StoreOK, Store, Existing
<1> HIDE DEF opened, D, C
<1>6. /\ record \in KnowledgeVersion
      /\ record.documents <= Cardinality(D) /\ record.chunks <= Cardinality(C)
      /\ record.status # "active"
  BY <1>4, <1>5 DEF KnowledgeVersion
<1> HIDE DEF record
<1>7. CASE BeginVersion(r, "snapshot", v, record, D, C, FALSE)
  BY <1>1, <1>3, <1>6, <1>7, BeginVersionStep
<1>8. CASE C = {} /\ MakeVersion(v, record, D)
  BY <1>1, <1>3, <1>6, <1>8, MakeVersionStep
<1> QED BY <1>1, <1>7, <1>8

LEMMA BeginOptimiseStep ==
  ASSUME IInv, NEW r \in Request, NEW v \in Version, NEW c \in Config,
         NEW activate \in BOOLEAN, BeginOptimise(r, v, c, activate)
  PROVE  GoodStep
<1> DEFINE opened == Opened(store)
           D      == store.docs[opened.base.active]
           record == [status |-> IF activate THEN "active" ELSE "draft", config |-> c,
                      documents |-> Cardinality(D), chunks |-> Cardinality(D)]
<1>1. /\ job[r] = None /\ store.base # None /\ Unused(v)
      /\ BeginVersion(r, "optimise", v, record, D, D, activate)
  BY DEF BeginOptimise
<1>2. opened.base.active \in Version
  BY <1>1, BaseOpened DEF IInv, StoreOK, Store, KnowledgeBase, IsOpen
<1>3. D \in SUBSET Document /\ D \in SUBSET D
  BY <1>2 DEF IInv, StoreOK, Store
<1>4. Cardinality(D) \in Count /\ Cardinality(D) <= Cardinality(D)
  BY <1>3, Counted DEF Count
<1> HIDE DEF D
<1>5. /\ record \in KnowledgeVersion
      /\ record.documents <= Cardinality(D) /\ record.chunks <= Cardinality(D)
      /\ record.status = "active" => activate
  BY <1>4 DEF KnowledgeVersion
<1> HIDE DEF record
<1> QED BY <1>1, <1>3, <1>5, BeginVersionStep

LEMMA EndAddStep ==
  ASSUME IInv, NEW r \in Request, EndAdd(r)
  PROVE  GoodStep
<1> DEFINE j         == job[r]
           v         == j.version
           documents == Cardinality(store.docs[v])
           chunks    == Cardinality(j.chunks)
           base      == [j.base EXCEPT !.documents = documents, !.chunks = chunks]
           record    == [j.record EXCEPT !.documents = documents, !.chunks = chunks]
           based     == [store EXCEPT !.base = base]
           new       == [based EXCEPT !.versions[v] = record]
<1>1. /\ j # None /\ j.op = "add" /\ j \in Job /\ IsOpen(store) /\ ~j.activate
      /\ JobOK(j, store, halfmade) /\ StoreOK(store, halfmade)
  BY DEF EndAdd, IInv, TypeOK, JobOK
<1>2. /\ v \in Existing(store) /\ v \in Version /\ v = j.base.active
      /\ j.chunks \in SUBSET store.chunks[v]
      /\ j.base \in KnowledgeBase /\ j.base.config = store.versions[v].config
      /\ j.record \in KnowledgeVersion /\ j.record.config = store.versions[v].config
  BY <1>1 DEF JobOK, BaseOK, Job
<1>3. /\ documents \in Count /\ chunks \in Count
      /\ documents <= Cardinality(store.docs[v]) /\ chunks <= Cardinality(store.chunks[v])
  <2>1. store.docs[v] \in SUBSET Document /\ store.chunks[v] \in SUBSET Document
    BY <1>1, <1>2 DEF StoreOK, Store
  <2>2. j.chunks \in SUBSET Document
    BY <1>2, <2>1
  <2>3. Cardinality(store.docs[v]) \in Count /\ Cardinality(j.chunks) \in Count
        /\ Cardinality(j.chunks) <= Cardinality(store.chunks[v])
    BY <1>2, <2>1, <2>2, Counted
  <2> QED BY <2>3 DEF Count
<1> HIDE DEF documents, chunks, v
<1>4. /\ base \in KnowledgeBase /\ base.active = v /\ base.config = store.versions[v].config
      /\ base.documents = documents /\ base.chunks = chunks
  BY <1>2, <1>3 DEF KnowledgeBase
<1>5. /\ record \in KnowledgeVersion /\ record.config = store.versions[v].config
      /\ record.documents = documents /\ record.chunks = chunks
      /\ record.status = j.record.status
  BY <1>2, <1>3 DEF KnowledgeVersion
<1> HIDE DEF base, record
<1>6. BaseOK(base, store, halfmade) /\ v # None
  BY <1>2, <1>3, <1>4, KnowledgeAssumption DEF BaseOK, Version
<1>7. /\ StoreOK(based, halfmade) /\ Later(store, based)
      /\ based.base = base /\ based.versions = store.versions
      /\ based.docs = store.docs /\ based.chunks = store.chunks
  BY <1>1, <1>4, <1>6, BaseSaved DEF StoreOK, Store
<1> HIDE DEF based
<1>8. /\ StoreOK(new, halfmade) /\ Later(based, new) /\ Existing(new) = Existing(based)
      /\ new.base = base
      /\ \A w \in Version : new.versions[w] = IF w = v THEN record ELSE store.versions[w]
  <2>1. /\ v \in Existing(based) /\ record.config = based.versions[v].config
        /\ record.documents <= Cardinality(based.docs[v])
        /\ record.chunks <= Cardinality(based.chunks[v])
    BY <1>2, <1>3, <1>5, <1>7 DEF Existing
  <2>2. new.base = based.base /\ new.versions = [based.versions EXCEPT ![v] = record]
    BY <1>7 DEF StoreOK, Store
  <2>3. based.versions \in [Version -> KnowledgeVersion \cup {None}]
    BY <1>7 DEF StoreOK, Store
  <2> QED BY <1>2, <1>5, <1>7, <2>1, <2>2, <2>3, VersionSaved
<1> HIDE DEF new
<1>9. CASE /\ store' = new /\ Upserted(r, j.chunks) /\ Ends(r)
           /\ chosen' = IF OldPointer(r) \/ OldStatus(r) THEN None ELSE chosen
           /\ UNCHANGED halfmade
  <2>1. IsOpen(store') /\ store'.base.active = v
    BY <1>4, <1>6, <1>8, <1>9, NoneAssumption DEF IsOpen
  <2>2. Later(store, store')
    BY <1>7, <1>8, <1>9, LaterTransitive
  <2>3. ChosenOK'
    <3>1. CASE chosen' = None
      BY <3>1 DEF ChosenOK
    <3>2. CASE chosen' # None
      <4>1. /\ chosen' = chosen /\ store.base.active = v
            /\ record.status = store.versions[v].status
        BY <1>2, <1>5, <1>9, <3>2 DEF OldPointer, OldStatus, v
      <4>2. Active(store') = Active(store)
        BY <1>2, <1>5, <1>7, <1>8, <1>9, <4>1, NoneAssumption DEF Active, Existing
      <4>3. InFlight(job') = InFlight(job)
        BY <1>1, <1>9, InFlightEnds
      <4> QED BY <1>1, <2>1, <3>2, <4>1, <4>2, <4>3 DEF IInv, ChosenOK
    <3> QED BY <3>1, <3>2
  <2>4. MovedByStaleWrite
    BY <1>1, <1>2, <1>9, <2>1 DEF MovedByStaleWrite, Repointed, Ends, IInv, TypeOK
  <2>5. chosen' \in Version \cup {None}
    BY <1>9 DEF IInv, TypeOK
  <2>6. j.chunks \in SUBSET job[r].chunks
    OBVIOUS
  <2> QED BY <1>1, <1>8, <1>9, <2>1, <2>2, <2>3, <2>4, <2>5, <2>6, EndingStep
<1>10. CASE Torn({based}, {})
  <2>1. based.base.active = job[r].base.active /\ job[r] # None
    BY <1>1, <1>2, <1>4, <1>7
  <2> QED BY <1>7, <1>10, <2>1, TornWhole
<1> QED BY <1>9, <1>10 DEF EndAdd, new, based, base, record, documents, chunks, v

LEMMA EndVersionStep ==
  ASSUME IInv, NEW r \in Request, EndVersion(r)
  PROVE  GoodStep
<1> DEFINE j    == job[r]
           base == [j.base EXCEPT !.versions = Cardinality(Existing(store))]
<1>1. /\ j # None /\ j \in Job /\ IsOpen(store) /\ ~j.activate
      /\ JobOK(j, store, halfmade) /\ StoreOK(store, halfmade)
      /\ store' = [store EXCEPT !.base = base]
      /\ Upserted(r, j.chunks) /\ Ends(r)
      /\ chosen' = IF OldPointer(r) THEN None ELSE chosen
      /\ UNCHANGED halfmade
  BY DEF EndVersion, IInv, TypeOK
<1>2. /\ base \in KnowledgeBase /\ base.active = j.base.active /\ base.config = j.base.config
      /\ base.documents = j.base.documents /\ base.chunks = j.base.chunks
  <2>1. Cardinality(Existing(store)) \in 0 .. MaxVersions + 1
    BY VersionsCounted DEF Existing
  <2> QED BY <1>1, <2>1 DEF Job, KnowledgeBase
<1> HIDE DEF base
<1>3. BaseOK(base, store, halfmade) /\ base.active # None
  BY <1>1, <1>2 DEF JobOK, BaseOK
<1>4. StoreOK(store', halfmade) /\ Later(store, store')
  BY <1>1, <1>2, <1>3, BaseSaved
<1>5. store'.base = base /\ store'.versions = store.versions
  BY <1>1 DEF StoreOK, Store
<1>6. IsOpen(store')
  BY <1>2, <1>3, <1>5, NoneAssumption DEF IsOpen
<1>7. ChosenOK'
  <2>1. InFlight(job') = InFlight(job)
    BY <1>1, InFlightEnds
  <2>2. Active(store') = Active(store)
    BY <1>5 DEF Active, Existing
  <2> QED BY <1>1, <1>2, <1>5, <1>6, <2>1, <2>2 DEF IInv, ChosenOK, OldPointer
<1>8. MovedByStaleWrite
  BY <1>1, <1>2, <1>5 DEF MovedByStaleWrite, Repointed, Ends, IInv, TypeOK
<1>9. chosen' \in Version \cup {None} /\ j.chunks \in SUBSET job[r].chunks
  BY <1>1 DEF IInv, TypeOK
<1> QED BY <1>1, <1>4, <1>6, <1>7, <1>8, <1>9, EndingStep

LEMMA EndOptimiseStep ==
  ASSUME IInv, NEW r \in Request, EndOptimise(r)
  PROVE  GoodStep
<1> DEFINE j == job[r]
           v == j.version
<1>1. /\ j # None /\ j \in Job /\ IsOpen(store) /\ StoreOK(store, halfmade)
      /\ v \in Existing(store) /\ v \in Version
  BY DEF EndOptimise, IInv, TypeOK, JobOK, Job
<1>2. CASE /\ store' = Activated(store, v) /\ Upserted(r, j.chunks) /\ Ends(r)
           /\ chosen' = v /\ UNCHANGED halfmade
  <2>1. /\ StoreOK(store', halfmade) /\ Later(store, store') /\ IsOpen(store')
        /\ store'.base.active = v /\ Active(store') = {v}
    BY <1>1, <1>2, VersionActivated
  <2>2. ChosenOK'
    BY <1>2, <2>1 DEF ChosenOK
  <2>3. MovedByStaleWrite
    BY <1>2, <2>1 DEF MovedByStaleWrite, Repointed
  <2>4. chosen' \in Version \cup {None} /\ j.chunks \in SUBSET job[r].chunks
    BY <1>1, <1>2
  <2> QED BY <1>1, <1>2, <2>1, <2>2, <2>3, <2>4, EndingStep
<1>3. CASE Torn({Switched(store, v, k) : k \in Version}, {})
  <2>1. \A k \in Version : LET st == Switched(store, v, k)
                           IN  StoreOK(st, halfmade) /\ Later(store, st) /\ st.base = store.base
    BY <1>1, StatusesSwitched
  <2> QED BY <1>3, <2>1, TornWhole
<1> QED BY <1>2, <1>3 DEF EndOptimise

(* Requests that are gone without a write leave behind the one active      *)
(* version, if none of theirs is orphaned.                                 *)
LEMMA GoneWithoutOrphans ==
  ASSUME IInv, store' = store, chosen' = IF Orphaned(job') THEN None ELSE chosen
  PROVE  ChosenOK'
BY DEF IInv, ChosenOK, Orphaned, Active, Existing, IsOpen

LEMMA FailStep ==
  ASSUME IInv, NEW r \in Request, Fail(r)
  PROVE  GoodStep
<1>1. /\ job[r] # None /\ Ends(r) /\ store' = store /\ halfmade' = halfmade
      /\ chosen' = IF Orphaned(job') THEN None ELSE chosen
      /\ StoreOK(store, halfmade) /\ IsOpen(store)
  BY DEF Fail, IInv
<1>2. PICK S \in {{}, job[r].chunks} : Upserted(r, S)
  BY DEF Fail
<1>3. S \in SUBSET job[r].chunks
  OBVIOUS
<1>4. StoreOK(store', halfmade) /\ Later(store, store') /\ IsOpen(store')
  BY <1>1, LaterReflexive
<1>5. ChosenOK'
  BY <1>1, GoneWithoutOrphans
<1>6. MovedByStaleWrite
  BY <1>1 DEF MovedByStaleWrite, Repointed
<1>7. chosen' \in Version \cup {None}
  BY <1>1 DEF IInv, TypeOK
<1> QED BY <1>1, <1>2, <1>3, <1>4, <1>5, <1>6, <1>7, EndingStep

LEMMA RestartStep ==
  ASSUME IInv, Restart
  PROVE  GoodStep
<1>1. /\ store' = store /\ vectors' = vectors /\ halfmade' = halfmade
      /\ job' = [r \in Request |-> None]
      /\ chosen' = IF Orphaned(job') THEN None ELSE chosen
  BY DEF Restart
<1>2. ChosenOK'
  BY <1>1, GoneWithoutOrphans
<1>3. IInv'
  BY <1>1, <1>2 DEF IInv, TypeOK
<1>4. MovedByStaleWrite
  BY <1>1 DEF MovedByStaleWrite, Repointed
<1> QED BY <1>1, <1>3, <1>4, LaterReflexive DEF GoodStep

-----------------------------------------------------------------------------
(* The invariant.                                                          *)

LEMMA Beginning == Init => IInv
<1> SUFFICES ASSUME Init
             PROVE  IInv
  OBVIOUS
<1>1. /\ Existing(store) = {} /\ Active(store) = {}
      /\ store.versions = [v \in Version |-> None]
      /\ store.docs \in [Version -> SUBSET Document] /\ store.chunks = store.docs
      /\ \A v \in 1 .. MaxVersions : store.docs[v] = {}
  <2>1. PICK D \in SUBSET Document :
          /\ store.versions = [v \in Version |-> None]
          /\ store.docs = [v \in Version |-> IF v = Legacy THEN D ELSE {}]
          /\ store.chunks = store.docs
    <3>1. CASE store = Empty
      <4>1. /\ store.versions = [v \in Version |-> None]
            /\ store.docs = [v \in Version |-> IF v = Legacy THEN {} ELSE {}]
            /\ store.chunks = store.docs
        BY <3>1 DEF Empty
      <4>2. {} \in SUBSET Document
        OBVIOUS
      <4> QED BY <4>1, <4>2, Zenon
    <3>2. ASSUME NEW D \in SUBSET Document, store = Old(D)
          PROVE  /\ store.versions = [v \in Version |-> None]
                 /\ store.docs = [v \in Version |-> IF v = Legacy THEN D ELSE {}]
                 /\ store.chunks = store.docs
      BY <3>2 DEF Old, Empty
    <3>3. store = Empty \/ \E D \in SUBSET Document : store = Old(D)
      BY DEF Init
    <3> QED BY <3>1, <3>2, <3>3, Zenon
  <2>2. store.docs \in [Version -> SUBSET Document]
    BY <2>1
  <2>3. \A v \in 1 .. MaxVersions : v \in Version /\ v # Legacy
    BY KnowledgeAssumption DEF Version, Legacy
  <2> QED BY <2>1, <2>2, <2>3 DEF Existing, Active
<1>2. /\ store.base \in KnowledgeBase \cup {None}
      /\ store.base # None =>
           /\ store.base.active = None
           /\ store.base.documents <= Cardinality(store.docs[Legacy])
           /\ store.base.chunks <= Cardinality(store.chunks[Legacy])
  <2>1. CASE store = Empty
    BY <2>1 DEF Empty
  <2>2. ASSUME NEW D \in SUBSET Document, store = Old(D)
        PROVE  /\ store.base \in KnowledgeBase /\ store.base.active = None
               /\ store.base.documents <= Cardinality(store.docs[Legacy])
               /\ store.base.chunks <= Cardinality(store.chunks[Legacy])
    <3>1. Cardinality(D) \in Count /\ Cardinality(D) <= Cardinality(D) /\ Cardinality(D) \in Int
      BY Counted DEF Count
    <3>2. /\ store.base = [active |-> None, config |-> DefaultConfig, versions |-> 0,
                           documents |-> Cardinality(D), chunks |-> Cardinality(D)]
          /\ store.docs[Legacy] = D /\ store.chunks[Legacy] = D
      BY <2>2, LegacyIsVersion DEF Old, Empty
    <3>3. store.base \in KnowledgeBase
      BY <3>1, <3>2, KnowledgeAssumption DEF KnowledgeBase
    <3> QED BY <3>1, <3>2, <3>3
  <2> QED BY <2>1, <2>2 DEF Init
<1>3. store = [base |-> store.base, versions |-> store.versions,
               docs |-> store.docs, chunks |-> store.chunks]
  BY DEF Init, Empty, Old
<1>4. store \in Store
  <2>1. store.versions \in [Version -> KnowledgeVersion \cup {None}]
    BY <1>1
  <2> QED BY <1>1, <1>2, <1>3, <2>1 DEF Store
<1>5. StoreOK(store, halfmade)
  BY <1>1, <1>2, <1>4 DEF StoreOK, BaseOK, Init
<1>6. TypeOK
  BY <1>4, LegacyIsVersion DEF TypeOK, Init
<1>7. ChosenOK
  BY <1>1, <1>2 DEF ChosenOK, IsOpen, Init
<1> QED BY <1>4, <1>5, <1>6, <1>7 DEF IInv, Init

(* Every step is good.                                                     *)
LEMMA Step ==
  ASSUME IInv, [Next]_vars
  PROVE  GoodStep
<1>1. CASE Next
  <2>1. ASSUME NEW v \in Version, Create(v) \/ Activate(v)
        PROVE  GoodStep
    BY <2>1, CreateStep, ActivateStep
  <2>2. ASSUME NEW r \in Request, Begin(r)
        PROVE  GoodStep
    BY <2>2, BeginAddStep, BeginSnapshotStep, BeginOptimiseStep DEF Begin
  <2>3. ASSUME NEW r \in Request, End(r)
        PROVE  GoodStep
    BY <2>3, EndAddStep, EndVersionStep, EndOptimiseStep, FailStep DEF End
  <2> QED BY <1>1, <2>1, <2>2, <2>3, OpenStep, RestartStep DEF Next
<1>2. CASE UNCHANGED vars
  <2>1. IInv'
    BY <1>2 DEF vars, IInv, TypeOK, ChosenOK, StoreOK, IsOpen, Existing, Active
  <2>2. MovedByStaleWrite
    BY <1>2 DEF vars, MovedByStaleWrite, Repointed
  <2> QED BY <1>2, <2>1, <2>2, LaterReflexive DEF vars, GoodStep
<1> QED BY <1>1, <1>2

LEMMA Invariance == Spec => []IInv
<1>1. IInv /\ [Next]_vars => IInv'
  BY Step DEF GoodStep
<1> QED BY Beginning, <1>1, PTL DEF Spec

-----------------------------------------------------------------------------
(* What follows.                                                           *)

(* The variables keep their types.                                         *)
THEOREM TypeCorrect == Spec => []TypeOK
<1>1. IInv => TypeOK
  BY DEF IInv
<1> QED BY Invariance, <1>1, PTL

(* A search in a version finds chunks of that version's documents only.    *)
THEOREM HitsOfTheVersion == Spec => []HitsAreOfTheVersion
<1>1. IInv => HitsAreOfTheVersion
  BY DEF IInv, StoreOK, HitsAreOfTheVersion
<1> QED BY Invariance, <1>1, PTL

(* A base describes the version it points to, whoever wrote it.            *)
THEOREM BaseDescribes == Spec => []BaseDescribesItsVersion
<1>1. IInv => BaseDescribesItsVersion
  BY DEF IInv, StoreOK, BaseOK, BaseDescribesItsVersion, Describes
<1> QED BY Invariance, <1>1, PTL

(* The version activated last is the active one, while nothing comes in    *)
(* between.                                                                *)
THEOREM OneActive == Spec => []OneActiveVersion
<1>1. IInv => OneActiveVersion
  BY DEF IInv, ChosenOK, IsOpen, OneActiveVersion
<1> QED BY Invariance, <1>1, PTL

(* Nothing but activation and the write of an old copy moves the pointer   *)
(* to a version that was there.                                            *)
THEOREM RepointedByStaleWrite == Spec => RepointedOnlyByStaleWrite
<1>1. IInv /\ [Next]_vars => [MovedByStaleWrite]_vars
  BY Step DEF GoodStep
<1> QED BY Invariance, <1>1, PTL DEF Spec, RepointedOnlyByStaleWrite, MovedByStaleWrite

(* No document and no chunk is ever lost.                                  *)
THEOREM DocumentsKept == Spec => DocumentsAreKept
<1>1. IInv /\ [Next]_vars =>
        [\A v \in Version : /\ store.docs[v] \subseteq store'.docs[v]
                            /\ store.chunks[v] \subseteq store'.chunks[v]]_vars
  BY Step DEF GoodStep, Later
<1> QED BY Invariance, <1>1, PTL DEF Spec, DocumentsAreKept
=============================================================================
