----------------------------- MODULE S3Transfer -----------------------------
(***************************************************************************)
(* read_s3: fetch an object from S3, keep a copy of it in the disk cache,   *)
(* and fall back on that copy when the transfer fails.  Workers, the Bus    *)
(* and its reload threads fetch the same object at the same time, and the   *)
(* steps of `transfer` on the cache file (remove, rename, exists, read) are *)
(* system calls with nothing to hold them together.                         *)
(*                                                                          *)
(* One object; its content is its generation.  The process may die between  *)
(* any two steps: the cache file is what survives.                          *)
(***************************************************************************)
EXTENDS Integers

CONSTANTS Threads,
          NoFile,    \* the cache file does not exist
          Part,      \* some but not all of an object
          Nothing,   \* "", what a read without transfer and cache returns
          MaxGen     \* bound on generations

Gens == 0 .. MaxGen
Contents == Gens \cup {Part, Nothing}

(* What the constants are. *)
TransferAssumption ==
  /\ MaxGen \in Nat
  /\ {NoFile, Part, Nothing} \cap Int = {}
  /\ NoFile # Part /\ NoFile # Nothing /\ Part # Nothing

VARIABLES object,    \* the object in S3
          cache,     \* the file cachename
          pc,
          ss,        \* the text received
          temp,      \* the text in tempname; NoFile when tempfs is not open
          failed,    \* transfer.failed
          lost,      \* no cached copy: there was none at the start, a rename
                     \* failed, or the process died between remove and rename
          diskFull   \* some write to a temporary file has failed

vars == <<object, cache, pc, ss, temp, failed, lost, diskFull>>

PC == {"idle", "requested", "received", "replacing", "removed", "choosing", "reading", "returned"}

TypeOK == /\ object \in Gens
          /\ cache \in Gens \cup {NoFile, Part}
          /\ pc \in [Threads -> PC]
          /\ ss \in [Threads -> Contents]
          /\ temp \in [Threads -> Gens \cup {NoFile, Part}]
          /\ failed \in [Threads -> BOOLEAN]
          /\ lost \in BOOLEAN /\ diskFull \in BOOLEAN

(* The server starts with whatever an earlier process left in the cache.    *)
Init == /\ object \in Gens
        /\ cache \in (0 .. object) \cup {NoFile}
        /\ pc = [t \in Threads |-> "idle"]
        /\ ss = [t \in Threads |-> Nothing]
        /\ temp = [t \in Threads |-> NoFile]
        /\ failed = [t \in Threads |-> FALSE]
        /\ lost = (cache = NoFile) /\ diskFull = FALSE

Goto(t, l) == pc' = [pc EXCEPT ![t] = l]

-----------------------------------------------------------------------------
Upload == /\ object < MaxGen
          /\ object' = object + 1
          /\ UNCHANGED <<cache, pc, ss, temp, failed, lost, diskFull>>

(* The constructor of transfer opens the temporary file, or warns that it   *)
(* cannot; S3 starts to answer with the object as it is now.                *)
Request(t) == /\ pc[t] = "idle"
              /\ temp' \in {[temp EXCEPT ![t] = object], [temp EXCEPT ![t] = NoFile]}
              /\ ss' = [ss EXCEPT ![t] = object]
              /\ failed' = [failed EXCEPT ![t] = FALSE]
              /\ Goto(t, "requested")
              /\ UNCHANGED <<object, cache, lost, diskFull>>

(* commit_buffer for all of the data, then responseCompleteCallback with    *)
(* S3StatusOK.  A failing write to tempfs goes unnoticed.                   *)
Complete(t) == /\ pc[t] = "requested"
               /\ \/ UNCHANGED <<temp, diskFull>>
                  \/ temp[t] # NoFile /\ temp' = [temp EXCEPT ![t] = Part] /\ diskFull' = TRUE
               /\ Goto(t, "received")
               /\ UNCHANGED <<object, cache, ss, failed, lost>>

(* The transfer ends early, or S3 answers with an error. *)
Fail(t) == /\ pc[t] = "requested"
           /\ ss' = [ss EXCEPT ![t] = Part]
           /\ temp' = [temp EXCEPT ![t] = IF @ = NoFile THEN NoFile ELSE Part]
           /\ failed' = [failed EXCEPT ![t] = TRUE]
           /\ Goto(t, "received")
           /\ UNCHANGED <<object, cache, lost, diskFull>>

-----------------------------------------------------------------------------
(* transfer::finalize *)

Replaces(t) == temp[t] # NoFile /\ ~failed[t]

(* A slip: a failed transfer removes cachename where it should remove       *)
(* tempname.                                                                *)
ForgetCache(t) == IF failed[t] /\ temp[t] # NoFile THEN NoFile ELSE cache
(* A failed transfer removes its temporary file only. *)
CacheAfterFailure(t) == cache

Finalize(t) == /\ pc[t] = "received"
               /\ IF Replaces(t) THEN Goto(t, "replacing") /\ UNCHANGED <<cache, temp>>
                  ELSE /\ Goto(t, "choosing")
                       /\ cache' = CacheAfterFailure(t)
                       /\ temp' = [temp EXCEPT ![t] = NoFile]
               /\ UNCHANGED <<object, ss, failed, lost, diskFull>>

(* boostfs::remove(cachename); it does not mind if there is no such file.   *)
RemoveCache(t) == /\ pc[t] = "replacing"
                  /\ cache' = NoFile
                  /\ Goto(t, "removed")
                  /\ UNCHANGED <<object, ss, temp, failed, lost, diskFull>>

(* boostfs::rename(tempname, cachename); an error is logged. *)
Rename(t) == /\ pc[t] = "removed"
             /\ \/ cache' = temp[t] /\ lost' = FALSE
                \/ UNCHANGED cache /\ lost' = (cache = NoFile)
             /\ temp' = [temp EXCEPT ![t] = NoFile]
             /\ Goto(t, "choosing")
             /\ UNCHANGED <<object, ss, failed, diskFull>>

-----------------------------------------------------------------------------
(* transfer::get_value *)

(* A slip: what was received is returned without a look at `failed`. *)
ReturnsAnything(t) == TRUE
ReturnsReceived(t) == ~failed[t]

(* The text received, or, if boostfs::exists(cachename), the cache; "" if   *)
(* there is neither.                                                        *)
Choose(t) ==
  /\ pc[t] = "choosing"
  /\ IF ReturnsReceived(t) THEN Goto(t, "returned") /\ UNCHANGED ss
     ELSE IF cache # NoFile THEN Goto(t, "reading") /\ UNCHANGED ss
     ELSE Goto(t, "returned") /\ ss' = [ss EXCEPT ![t] = Nothing]
  /\ UNCHANGED <<object, cache, temp, failed, lost, diskFull>>

(* "" if the file has gone since exists() saw it. *)
TextOfCache == IF cache = NoFile THEN Nothing ELSE cache

(* read_cache *)
ReadCache(t) == /\ pc[t] = "reading"
                /\ ss' = [ss EXCEPT ![t] = TextOfCache]
                /\ Goto(t, "returned")
                /\ UNCHANGED <<object, cache, temp, failed, lost, diskFull>>

(* The caller takes the text and forgets the transfer. *)
Return(t) == /\ pc[t] = "returned"
             /\ Goto(t, "idle")
             /\ ss' = [ss EXCEPT ![t] = Nothing]
             /\ failed' = [failed EXCEPT ![t] = FALSE]
             /\ UNCHANGED <<object, cache, temp, lost, diskFull>>

-----------------------------------------------------------------------------
InWindow(t) == pc[t] = "removed"

(* The process dies and is started again. *)
Crash == /\ pc' = [t \in Threads |-> "idle"]
         /\ ss' = [t \in Threads |-> Nothing]
         /\ temp' = [t \in Threads |-> NoFile]
         /\ failed' = [t \in Threads |-> FALSE]
         /\ lost' = (cache = NoFile)
         /\ UNCHANGED <<object, cache, diskFull>>

Step(t) == \/ Complete(t) \/ Fail(t) \/ Finalize(t) \/ RemoveCache(t) \/ Rename(t)
           \/ Choose(t) \/ ReadCache(t) \/ Return(t)

Next == \/ Upload \/ Crash
        \/ \E t \in Threads : Request(t) \/ Step(t)

Spec == Init /\ [][Next]_vars

-----------------------------------------------------------------------------
(* Properties *)

(* What has been received in part neither gets into the cache nor to a      *)
(* caller, across all interleavings of transfers and crashes; only a write  *)
(* error on the temporary file, which nobody looks at, can cut a copy.      *)
ServesWhole ==
  cache = Part \/ (\E t \in Threads : pc[t] = "returned" /\ ss[t] = Part) => diskFull

(* A failed transfer leaves the fallback alone: once there is a cached copy *)
(* there is one, except while some thread is between remove and rename, or  *)
(* after it failed or died there.                                           *)
FallbackKept == cache = NoFile => lost \/ \E t \in Threads : InWindow(t)
=============================================================================
