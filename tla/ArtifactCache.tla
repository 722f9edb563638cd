---------------------------- MODULE ArtifactCache ----------------------------
(***************************************************************************)
(* The artifact cache (orchestrator/src/cache.rs): a storage backend for   *)
(* the data and a map of metadata, each with a lock of its own.  put,      *)
(* delete and invalidate_project change both, one after the other, and get *)
(* and exists read both, one after the other, so concurrent calls          *)
(* interleave between the two.                                             *)
(***************************************************************************)
EXTENDS Naturals, FiniteSets

CONSTANTS Clients,
          Types,     \* ArtifactType, by its prefix in a storage key
          Projects,
          Hashes,    \* source hashes
          None

ASSUME ArtifactCacheAssumption == None \notin {"valid", "expired"}

(* CacheKey *)
Keys == [artifact_type : Types, project_id : Projects, source_hash : Hashes]

(* storage_key: "<type>/<project>/<hash>" *)
storage_key(k) == <<k.artifact_type, k.project_id, k.source_hash>>

(* starts_with, for a prefix that is one component long *)
StartsWith(path, component) == path[1] = component

VARIABLES storage,      \* the keys that have data
          metadata,     \* for every key None, "valid", or "expired"
          call,         \* what a client is in the middle of
          aged,         \* history: the keys whose data has outlived its time
          invalidated   \* history: projects that invalidate_project has returned for

vars == <<storage, metadata, call, aged, invalidated>>

Idle == [op |-> "idle"]

Init ==
  /\ storage = {}
  /\ metadata = [k \in Keys |-> None]
  /\ call = [c \in Clients |-> Idle]
  /\ aged = {}
  /\ invalidated = {}

Begin(c, what) == call[c] = Idle /\ call' = [call EXCEPT ![c] = what]
During(ops, k) == \E c \in Clients : call[c].op \in ops /\ call[c].key = k
Return(c)      == call' = [call EXCEPT ![c] = Idle]

(* put: storage.put, then the metadata *)
PutData(c, k) ==
  /\ Begin(c, [op |-> "put", key |-> k])
  /\ storage' = storage \cup {k}
  /\ aged' = aged \ {k}
  /\ UNCHANGED <<metadata, invalidated>>

(* A slip of put: an artifact that has metadata keeps it. *)
PutMetadataOnce(c) ==
  /\ call[c].op = "put"
  /\ metadata' = [metadata EXCEPT ![call[c].key] = IF @ = None THEN "valid" ELSE @]
  /\ Return(c)
  /\ UNCHANGED <<storage, aged, invalidated>>

PutMetadata(c) ==
  /\ call[c].op = "put"
  /\ metadata' = [metadata EXCEPT ![call[c].key] = "valid"]
  /\ Return(c)
  /\ UNCHANGED <<storage, aged, invalidated>>

(* delete: the metadata, then storage.delete *)
DeleteMetadata(c, k) ==
  /\ Begin(c, [op |-> "delete", key |-> k])
  /\ metadata' = [metadata EXCEPT ![k] = None]
  /\ UNCHANGED <<storage, aged, invalidated>>

DeleteData(c) ==
  /\ call[c].op = "delete"
  /\ storage' = storage \ {call[c].key}
  /\ aged' = aged \ {call[c].key}
  /\ Return(c)
  /\ UNCHANGED <<metadata, invalidated>>

(* invalidate_project: storage.list(project_id) and storage.delete of each  *)
(* key it lists, here in one step: a storage key begins with the type, so   *)
(* none begins with the project and the loop has nothing to do.             *)
DeleteProjectData(c, p) ==
  /\ Begin(c, [op |-> "invalidate", project |-> p])
  /\ storage' = {k \in storage : ~StartsWith(storage_key(k), p)}
  /\ aged' = aged \cap storage'
  /\ UNCHANGED <<metadata, invalidated>>

(* invalidate_project: then the metadata of the project is dropped. *)
DropProjectMetadata(c) ==
  /\ call[c].op = "invalidate"
  /\ metadata' = [k \in Keys |-> IF k.project_id = call[c].project THEN None ELSE metadata[k]]
  /\ invalidated' = invalidated \cup {call[c].project}
  /\ Return(c)
  /\ UNCHANGED <<storage, aged>>

(* A slip of expiry: the metadata is dropped and the data stays. *)
ExpireDropsMetadata(k) ==
  /\ metadata[k] = "valid"
  /\ metadata' = [metadata EXCEPT ![k] = None]
  /\ UNCHANGED <<storage, call, aged, invalidated>>

(* get and exists: an artifact whose metadata has expired is refused at     *)
(* once, which changes nothing; any other is looked for in the storage,     *)
(* also one without metadata.  For the properties the call keeps whether    *)
(* the data there had outlived its time, whether a delete of it was half    *)
(* done, and whether the project had been invalidated.                      *)
LookUpMetadata(c, k) ==
  /\ metadata[k] # "expired"
  /\ Begin(c, [op |-> "get", key |-> k, aged |-> k \in aged,
               deleting |-> During({"delete"}, k), late |-> k.project_id \in invalidated])
  /\ UNCHANGED <<storage, metadata, aged, invalidated>>

(* get and exists: the data is read, and answered if there is any. *)
LookUpData(c) ==
  /\ call[c].op = "get"
  /\ Return(c)
  /\ UNCHANGED <<storage, metadata, aged, invalidated>>

(* The time to live of an artifact passes.  That of data counts from the    *)
(* end of its put, so during a put it is the artifact before that expires.  *)
Expire(k) ==
  /\ metadata[k] = "valid"
  /\ metadata' = [metadata EXCEPT ![k] = "expired"]
  /\ aged' = IF k \in storage /\ ~During({"put"}, k) THEN aged \cup {k} ELSE aged
  /\ UNCHANGED <<storage, call, invalidated>>

Next ==
  \/ \E c \in Clients :
       \/ PutMetadata(c) \/ DeleteData(c) \/ DropProjectMetadata(c) \/ LookUpData(c)
       \/ \E k \in Keys : PutData(c, k) \/ DeleteMetadata(c, k) \/ LookUpMetadata(c, k)
       \/ \E p \in Projects : DeleteProjectData(c, p)
  \/ \E k \in Keys : Expire(k)

Spec == Init /\ [][Next]_vars

-----------------------------------------------------------------------------
(* Properties *)

TypeOK ==
  /\ storage \subseteq Keys
  /\ metadata \in [Keys -> {None, "valid", "expired"}]
  /\ call \in [Clients -> {Idle} \cup [op : {"put", "delete"}, key : Keys]
                                \cup [op : {"invalidate"}, project : Projects]
                                \cup [op : {"get"}, key : Keys, aged : BOOLEAN, deleting : BOOLEAN,
                                      late : BOOLEAN]]
  /\ aged \subseteq storage
  /\ invalidated \subseteq Projects

(* Data without metadata is served for ever: nothing expires it.  As long   *)
(* as the project was not invalidated it exists only while a put or a       *)
(* delete of that key is half done, however puts and deletes overlap.       *)
DataHasMetadata ==
  \A k \in storage : metadata[k] = None => During({"put", "delete"}, k) \/ k.project_id \in invalidated

(* A get or exists that goes on to the data found none there that had       *)
(* outlived its time, however puts and deletes overlap, unless a delete was *)
(* half done with it or the project was invalidated: what it answers may    *)
(* have outlived its time only since it was called, in the gap between its  *)
(* two reads.  And data that has not outlived its time has metadata by      *)
(* which it is refused only during a put of it.                             *)
ExpiryIsOfTheData ==
  /\ \A c \in Clients : call[c].op = "get" /\ call[c].aged => call[c].deleting \/ call[c].late
  /\ \A k \in storage \ aged : metadata[k] = "expired" => During({"put"}, k)

(* cache.rs: "Invalidate all artifacts for a project": a get that is called *)
(* after the invalidation has returned, for an artifact of the project that *)
(* has not been put since, finds nothing when no other call is under way.   *)
InvalidatedIsGone ==
  \A c \in Clients :
    /\ call[c].op = "get" /\ call[c].late /\ metadata[call[c].key] = None
    /\ \A d \in Clients \ {c} : call[d] = Idle
    => call[c].key \notin storage
=============================================================================
