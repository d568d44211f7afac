----------------------------- MODULE BlobStores -----------------------------
(***************************************************************************)
(* create_blob_store (blob_store.py 257-267): a deployment keeps its files *)
(* in a local directory or in an object store, and every request and task  *)
(* builds its store from the same settings.                                *)
(***************************************************************************)
EXTENDS LocalBlobStore

CONSTANT
  ObjectKeys   \* the keys that the callers of an object store use

ASSUME ObjectKeysAssumption == ObjectKeys # {}

VARIABLES
  adapter,    \* Settings.blob_store
  bucket, objects, requests, probe, refusals   \* the state of S3BlobStore

objectVars == <<bucket, objects, requests, probe, refusals>>

S3 == INSTANCE S3BlobStore
        WITH Keys <- ObjectKeys, stored <- objects, call <- requests, faults <- refusals

StoresInit ==
  /\ adapter \in {"local", "s3"}
  /\ Init
  /\ S3!Init
  /\ adapter = "local" => ~bucket

StoresNext ==
  \/ adapter = "local" /\ Next /\ UNCHANGED <<adapter, objectVars>>
  \/ adapter = "s3" /\ S3!Next /\ UNCHANGED <<adapter, vars>>

StoresSpec == StoresInit /\ [][StoresNext]_<<adapter, vars, objectVars>>

\* An upload to an object store fails without a fault only while the bucket is
\* new: it was not there when the call began, and somebody else created it
\* between head_bucket and create_bucket.
PutFailsForBucket == S3!PutFailsForBucket

\* The object store implements the promise of a BlobStore as well, except that a
\* change may have been made although it was reported as failed: the caller
\* cannot know, and the cleanup of an upload does not.
ObjectsImplementPromise == S3!ImplementsPromise
=============================================================================
