---------------------------- MODULE SiteRegistry ----------------------------
(***************************************************************************)
(* The registry of loaded sites in VaeDbHandler and the threads that change *)
(* it: Thrift workers (getSite, resetSite), the Bus thread and the reload   *)
(* threads it spawns (reloadSite).                                          *)
(*                                                                          *)
(* `sites` maps a key, a subdomain in production or staging mode, to a      *)
(* parsed Site.  Two levels of locks protect it: sitesMutex, held for the   *)
(* few lines that touch the maps (one step here), and a mutex for each key, *)
(* held while the site is fetched from S3 and parsed (many steps).  Erasing *)
(* a site takes sitesMutex only.                                            *)
(*                                                                          *)
(* A feed is its generation.  Building a Site touches nothing shared and    *)
(* is one step with its publication.                                        *)
(***************************************************************************)
EXTENDS Naturals

CONSTANTS Subdomains,
          Workers,     \* Thrift worker threads
          Bus,         \* the thread that receives reload messages
          Reloaders,   \* threads Bus::run can have running at once (a bound)
          Nobody,
          NoJob,
          NoSite,      \* sites.count(key) = 0
          Bad,         \* feed text that does not parse: empty, cut, malformed
          MaxGen       \* bound on feed generations

Threads == Workers \cup {Bus} \cup Reloaders
Modes == {"prod", "staging"}
(* sitesKey, which is the subdomain with ".staging" behind it in staging    *)
(* mode: pairs are told apart as those texts are, as long as no subdomain   *)
(* itself ends in ".staging".                                               *)
Keys == Subdomains \X Modes
Gens == 0 .. MaxGen

ASSUME RegistryAssumption ==
  /\ MaxGen \in Nat
  /\ Bad \notin Nat
  /\ NoJob \notin Keys
  /\ Nobody \notin Threads
  /\ NoSite \notin [gen : Nat, keysOk : BOOLEAN, late : BOOLEAN]
  /\ Bus \notin Workers \cup Reloaders /\ Workers \cap Reloaders = {}

VARIABLES feed,    \* feed[d]: generation of the object d-feed.xml in S3
          sites,   \* sites[k]: the registered Site, or NoSite
          mutex,   \* siteMutexes[k]: its holder, or Nobody
          pc,
          job,     \* the key a worker loads, a key of the subdomain a reload is for
          copy,    \* the feed text the thread has read
          todo,    \* reload_prod, reload_staging: keys the reload will load
          late,    \* the copy came from the disk cache, or a reload has finished
                   \* resetting its subdomain since it was read
          handled  \* newest generation a reload has reset its subdomain for

vars == <<feed, sites, mutex, pc, job, copy, todo, late, handled>>

Site(g, ok, l) == [gen |-> g, keysOk |-> ok, late |-> l]
SiteRecords == [gen : Gens, keysOk : BOOLEAN, late : BOOLEAN]
KeysOf(d) == {d} \X Modes
Registered(d) == {k \in KeysOf(d) : sites[k] # NoSite}
PC == {"idle", "spawned", "missing", "flagged", "read", "reset", "loading"}
HasCopy(t) == pc[t] \in {"read", "reset", "loading"}

TypeOK == /\ feed \in [Subdomains -> Gens]
          /\ sites \in [Keys -> SiteRecords \cup {NoSite}]
          /\ mutex \in [Keys -> Threads \cup {Nobody}]
          /\ pc \in [Threads -> PC]
          /\ job \in [Threads -> Keys \cup {NoJob}]
          /\ copy \in [Threads -> Gens \cup {Bad}]
          /\ todo \in [Threads -> SUBSET Keys]
          /\ late \in [Threads -> BOOLEAN]
          /\ handled \in [Subdomains -> Gens]

(* The state of a process that has just started. *)
Init == /\ feed = [d \in Subdomains |-> 0]
        /\ sites = [k \in Keys |-> NoSite]
        /\ mutex = [k \in Keys |-> Nobody]
        /\ pc = [t \in Threads |-> "idle"]
        /\ job = [t \in Threads |-> NoJob]
        /\ copy = [t \in Threads |-> Bad]
        /\ todo = [t \in Threads |-> {}]
        /\ late = [t \in Threads |-> FALSE]
        /\ handled = [d \in Subdomains |-> 0]

-----------------------------------------------------------------------------
(* Outside the process *)

(* The publisher puts a new feed in S3.  It then sends the subdomain on the *)
(* bus; messages may be lost, repeated or late, so Receive is always        *)
(* possible.                                                                *)
Upload(d) == /\ feed[d] < MaxGen
             /\ feed' = [feed EXCEPT ![d] = @ + 1]
             /\ UNCHANGED <<sites, mutex, pc, job, copy, todo, late, handled>>

-----------------------------------------------------------------------------
(* read_s3(subdomain-feed.xml), in getSite and in reloadSite: the object as *)
(* it is in S3, or, when the transfer fails, the copy in the disk cache,    *)
(* which is some earlier one, or nothing; any of them may not parse.        *)
ReadFeed(t) ==
  /\ pc[t] \in {"missing", "flagged"}
  /\ \/ /\ copy' = [copy EXCEPT ![t] = feed[job[t][1]]]
        /\ late' = [late EXCEPT ![t] = FALSE]
     \/ \E g \in 0 .. feed[job[t][1]] :
          /\ copy' = [copy EXCEPT ![t] = g]
          /\ late' = [late EXCEPT ![t] = TRUE]
     \/ /\ copy' = [copy EXCEPT ![t] = Bad]
        /\ late' = [late EXCEPT ![t] = TRUE]
  /\ pc' = [pc EXCEPT ![t] = "read"]
  /\ UNCHANGED <<feed, sites, mutex, job, todo, handled>>

(* The Site constructor throws VaeDbInternalError unless the feed parses.   *)
Parses(t) == copy[t] # Bad

(* sites[key] = new Site(...).  The secret keys are read from S3 again; if  *)
(* that fails the only key the site accepts is the empty one.               *)
Publish(t, k) == \E ok \in BOOLEAN :
                   sites' = [sites EXCEPT ![k] = Site(copy[t], ok, late[t])]

(* Nothing of a finished job is kept. *)
Finish(t) == /\ copy' = [copy EXCEPT ![t] = Bad]
             /\ late' = [late EXCEPT ![t] = FALSE]
             /\ job' = [job EXCEPT ![t] = NoJob]

-----------------------------------------------------------------------------
(* Workers *)

(* A slip: getSite looks the site up before it takes the site's mutex, or   *)
(* takes a mutex of its own.                                                *)
MayLoadUnlocked(k) == sites[k] = NoSite
(* getSite gets the site's mutex and does not find the site.  When it finds *)
(* it, it validates the key and returns: nothing here changes.              *)
MayLoad(k) == mutex[k] = Nobody /\ sites[k] = NoSite

GetSite(w, k) == /\ pc[w] = "idle" /\ MayLoad(k)
                 /\ mutex' = [mutex EXCEPT ![k] = w]
                 /\ job' = [job EXCEPT ![w] = k]
                 /\ pc' = [pc EXCEPT ![w] = "missing"]
                 /\ UNCHANGED <<feed, sites, copy, todo, late, handled>>

(* A slip: the mutex stays locked when the constructor throws. *)
UnlockUnlessThrown(w) == IF Parses(w) THEN mutex' = [mutex EXCEPT ![job[w]] = Nobody]
                                     ELSE UNCHANGED mutex
(* ~unique_lock, on return and on a throw. *)
Unlock(w) == mutex' = [mutex EXCEPT ![job[w]] = Nobody]

(* The rest of getSite: _loadSite publishes the site, or the constructor    *)
(* throws on bad XML; then the key is validated, which may throw too, and   *)
(* the site's mutex is released either way.                                 *)
GetSiteLoads(w) ==
  /\ pc[w] = "read"
  /\ IF Parses(w) THEN Publish(w, job[w]) ELSE UNCHANGED sites
  /\ Unlock(w)
  /\ pc' = [pc EXCEPT ![w] = "idle"]
  /\ Finish(w)
  /\ UNCHANGED <<feed, todo, handled>>

(* resetSite erases production, then staging.  A site that does not accept  *)
(* the caller's key throws: what comes after it stays.  `right`: the        *)
(* caller gives the subdomain's key, otherwise the empty one.               *)
ResetSite(d, right) ==
  LET stopped == sites[<<d, "prod">>] # NoSite /\ sites[<<d, "prod">>].keysOk # right
      erased  == {k \in Registered(d) : sites[k].keysOk = right /\ ~stopped}
  IN  /\ erased # {}
      /\ sites' = [k \in Keys |-> IF k \in erased THEN NoSite ELSE sites[k]]
      /\ UNCHANGED <<feed, mutex, pc, job, copy, todo, late, handled>>

-----------------------------------------------------------------------------
(* reloadSite, run by the Bus thread and then again by a thread it spawns   *)

(* Which of the two sites are loaded now, read under sitesMutex. *)
CheckLoaded(t, d) == /\ todo' = [todo EXCEPT ![t] = Registered(d)]
                     /\ pc' = [pc EXCEPT ![t] = "flagged"]
                     /\ UNCHANGED <<feed, sites, mutex, copy, late, handled>>

(* Bus::run receives a message and calls reloadSite. *)
Receive(d) == /\ pc[Bus] = "idle"
              /\ job' = [job EXCEPT ![Bus] = <<d, "prod">>]
              /\ CheckLoaded(Bus, d)

(* Bus::reload in a spawned thread calls reloadSite. *)
StartReload(r) == /\ pc[r] = "spawned"
                  /\ CheckLoaded(r, job[r][1])
                  /\ UNCHANGED job

(* A slip: only the production site is erased. *)
ForcedResetProdOnly(d) == {<<d, "prod">>}
(* _resetSite with force erases both, whatever the key. *)
ForcedReset(d) == KeysOf(d)

(* Every copy of this subdomain that another thread has already read is     *)
(* overtaken.                                                               *)
ResetForReload(t) ==
  /\ pc[t] = "read"
  /\ LET d == job[t][1]
     IN  /\ sites' = [k \in Keys |-> IF k \in ForcedReset(d) THEN NoSite ELSE sites[k]]
         /\ handled' = [handled EXCEPT ![d] = IF copy[t] # Bad /\ copy[t] > @ THEN copy[t] ELSE @]
         /\ late' = [u \in Threads |-> IF u # t /\ HasCopy(u) /\ job[u][1] = d THEN TRUE ELSE late[u]]
  /\ pc' = [pc EXCEPT ![t] = "reset"]
  /\ UNCHANGED <<feed, mutex, job, copy, todo>>

(* Production first. *)
NextKey(t) == LET prod == <<job[t][1], "prod">>
              IN  IF prod \in todo[t] THEN prod ELSE <<job[t][1], "staging">>

SiteLockable(k) == mutex[k] = Nobody

LockSite(t) == /\ pc[t] = "reset" /\ todo[t] # {}
               /\ SiteLockable(NextKey(t))
               /\ mutex' = [mutex EXCEPT ![NextKey(t)] = t]
               /\ pc' = [pc EXCEPT ![t] = "loading"]
               /\ UNCHANGED <<feed, sites, job, copy, todo, late, handled>>

LoadSite(t) == /\ pc[t] = "loading" /\ Parses(t)
               /\ Publish(t, NextKey(t))
               /\ mutex' = [mutex EXCEPT ![NextKey(t)] = Nobody]
               /\ todo' = [todo EXCEPT ![t] = @ \ {NextKey(t)}]
               /\ pc' = [pc EXCEPT ![t] = "reset"]
               /\ UNCHANGED <<feed, job, copy, late, handled>>

(* The Site constructor throws VaeDbInternalError in a thread with no       *)
(* handler for it: std::terminate.  The supervisor starts a new process.    *)
Terminate(t) == /\ pc[t] = "loading" /\ ~Parses(t)
                /\ sites' = [k \in Keys |-> NoSite]
                /\ mutex' = [k \in Keys |-> Nobody]
                /\ pc' = [u \in Threads |-> "idle"]
                /\ job' = [u \in Threads |-> NoJob]
                /\ copy' = [u \in Threads |-> Bad]
                /\ todo' = [u \in Threads |-> {}]
                /\ late' = [u \in Threads |-> FALSE]
                /\ handled' = [d \in Subdomains |-> 0]
                /\ UNCHANGED feed

(* After the Bus thread's own reload: spawn a thread for a second one. *)
Spawn(r) == /\ pc[Bus] = "reset" /\ todo[Bus] = {} /\ pc[r] = "idle"
            /\ pc' = [pc EXCEPT ![Bus] = "idle", ![r] = "spawned"]
            /\ job' = [job EXCEPT ![r] = job[Bus], ![Bus] = NoJob]
            /\ copy' = [copy EXCEPT ![Bus] = Bad]
            /\ late' = [late EXCEPT ![Bus] = FALSE]
            /\ UNCHANGED <<feed, sites, mutex, todo, handled>>

ReloadEnds(r) == /\ pc[r] = "reset" /\ todo[r] = {}
                 /\ pc' = [pc EXCEPT ![r] = "idle"]
                 /\ Finish(r)
                 /\ UNCHANGED <<feed, sites, mutex, todo, handled>>

-----------------------------------------------------------------------------
WorkerStep(w) == \/ \E k \in Keys : GetSite(w, k)
                 \/ ReadFeed(w) \/ GetSiteLoads(w)

ReloadStep(t) == ReadFeed(t) \/ ResetForReload(t) \/ LockSite(t) \/ LoadSite(t) \/ Terminate(t)

Next == \/ \E d \in Subdomains : \/ Upload(d) \/ Receive(d)
                                 \/ \E right \in BOOLEAN : ResetSite(d, right)
        \/ \E w \in Workers : WorkerStep(w)
        \/ \E t \in {Bus} \cup Reloaders : ReloadStep(t)
        \/ \E r \in Reloaders : StartReload(r) \/ Spawn(r) \/ ReloadEnds(r)

Spec == Init /\ [][Next]_vars

(* S3 answers or times out, and runnable threads run.  Nothing is assumed   *)
(* of who wins a contended mutex.                                           *)
FairSpec == /\ Spec
            /\ \A w \in Workers : WF_vars(ReadFeed(w) \/ GetSiteLoads(w))
            /\ \A t \in {Bus} \cup Reloaders : WF_vars(LoadSite(t) \/ Terminate(t))

-----------------------------------------------------------------------------
(* Properties *)

(* What a reload guarantees.  Once a reload of a subdomain has read         *)
(* generation g and reset the subdomain, every site of it that is served    *)
(* has at least generation g, in production and in staging, except one      *)
(* whose feed was read before that reset or came from the disk cache.       *)
Fresh == \A d \in Subdomains : \A k \in Registered(d) :
           ~sites[k].late => sites[k].gen >= handled[d]

(* getSite never replaces a registered site: two calls for one key load it  *)
(* once, also against a reload of the same key.  (Sessions hold pointers to *)
(* the Site they were opened on.)                                           *)
NoDoubleLoad == [][\A w \in Workers :
                     pc[w] = "read" /\ pc'[w] = "idle" /\ sites'[job[w]] # NoSite
                       => sites[job[w]] = NoSite]_vars

(* Nobody keeps a site's mutex: not after bad XML, a wrong key or a crash.  *)
MutexReleased == \A k \in Keys : mutex[k] # Nobody ~> mutex[k] = Nobody
=============================================================================
