----------------------------- MODULE SiteShared -----------------------------
(***************************************************************************)
(* What worker threads share of a site, side by side: the cache of its      *)
(* queries (QueryCache), the transfers of its objects from S3 with the disk *)
(* cache behind them (S3Transfer), and a Context with the map and the       *)
(* caches that it fills for its readers (ContextData).  They share the      *)
(* workers and no variable.                                                 *)
(***************************************************************************)
EXTENDS QueryCache

CONSTANTS NoFile, Part, Nothing, MaxGen,
          Fields, Paths, BadPaths, Empty, NoWorker

VARIABLES object, cache, step, ss, temp, failed, lost, diskFull,
          data, dataPopulated, cachedQueries, cachedCounts, mutex, at, op, asked, copy, read

S3 == INSTANCE S3Transfer WITH Threads <- Workers, pc <- step
Ctx == INSTANCE ContextData WITH pc <- at, query <- asked

ASSUME S3Assumption == S3!TransferAssumption
ASSUME CtxAssumption == Ctx!ContextAssumption

transferVars == <<object, cache, step, ss, temp, failed, lost, diskFull>>
contextVars == <<data, dataPopulated, cachedQueries, cachedCounts, mutex, at, op, asked, copy, read>>

(* read_s3 returns a whole object or nothing (S3Transfer!ServesWhole).      *)
ServesWhole == S3!ServesWhole
(* The fallback copy is missing only in the known window                    *)
(* (S3Transfer!FallbackKept).                                               *)
FallbackKept == S3!FallbackKept
(* Whoever takes the map of fields for filled sees all of it                *)
(* (ContextData!WholeData).                                                 *)
WholeData == Ctx!WholeData
=============================================================================
