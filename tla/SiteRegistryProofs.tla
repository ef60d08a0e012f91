------------------------- MODULE SiteRegistryProofs -------------------------
(***************************************************************************)
(* What getSite and reloadSite guarantee of the registry, for any number of *)
(* subdomains, workers and reload threads and any number of feeds.          *)
(*                                                                          *)
(* Neither property is inductive.  That getSite never replaces a site needs *)
(* the discipline of the site's mutex: whoever is about to publish a key    *)
(* holds its mutex (Held), and while a worker holds it the site stays       *)
(* missing (Absent).  That a reload is not undone needs to know how the     *)
(* copies under way relate to what reloads have handled (Current), and that *)
(* no copy and no reload is ahead of S3 (Past).                             *)
(***************************************************************************)
EXTENDS SiteRegistry, TLAPS

Reloading == {Bus} \cup Reloaders

(* Each kind of thread is in its own part of the code, and has a key there. *)
Places == /\ \A w \in Workers : pc[w] \in {"idle", "missing", "read"}
          /\ \A t \in Reloading : pc[t] # "missing"
          /\ \A t \in Threads : pc[t] # "idle" => job[t] \in Keys

(* The key a thread may publish at its next step or the one after. *)
Loads(t, k) == \/ t \in Workers /\ pc[t] \in {"missing", "read"} /\ k = job[t]
               \/ t \in Reloading /\ pc[t] = "loading" /\ k = NextKey(t)

(* siteMutexes[k] is held from before the look-up until the site is there. *)
Held == \A t \in Threads, k \in Keys : Loads(t, k) => mutex[k] = t

(* What a worker did not find is still not there. *)
Absent == \A w \in Workers : pc[w] \in {"missing", "read"} => sites[job[w]] = NoSite

(* No thread has text that was never in S3, and no reload has handled any. *)
Past == /\ \A t \in Threads : HasCopy(t) /\ copy[t] # Bad => copy[t] <= feed[job[t][1]]
        /\ \A d \in Subdomains : handled[d] <= feed[d]

(* A copy that no reload has overtaken is as new as what was handled. *)
Current == \A t \in Threads :
  HasCopy(t) /\ ~late[t] /\ copy[t] # Bad => copy[t] >= handled[job[t][1]]

Inv == TypeOK /\ Places /\ Held /\ Absent /\ Past /\ Current /\ Fresh

-----------------------------------------------------------------------------
(* What the steps below use of the sets of threads and keys. *)
LEMMA ThreadKinds == /\ Workers \subseteq Threads /\ Reloading \subseteq Threads
                  /\ Workers \cap Reloading = {} /\ Bus \in Reloading
                  /\ Reloaders \subseteq Reloading /\ Bus \notin Reloaders
BY RegistryAssumption DEF Threads, Reloading

(* NextKey names one of the two keys of the subdomain of the job. *)
LEMMA NextKeyType ==
  ASSUME NEW t \in Threads, job[t] \in Keys
  PROVE  NextKey(t) \in Keys /\ NextKey(t)[1] = job[t][1] /\ job[t][1] \in Subdomains
BY DEF NextKey, Keys, Modes

(* Two threads that may publish a key are one thread. *)
LEMMA OneLoader ==
  ASSUME Held, NEW t \in Threads, NEW u \in Threads, NEW k \in Keys, Loads(t, k), Loads(u, k)
  PROVE  t = u
BY DEF Held

(* A process that has just started. *)
LEMMA InitInv == Init => Inv
<1> SUFFICES ASSUME Init PROVE Inv
  OBVIOUS
<1>1. TypeOK
  BY RegistryAssumption DEF Init, TypeOK, PC, Gens
<1>2. Places /\ Held /\ Absent
  BY ThreadKinds DEF Init, Places, Held, Loads, Absent, Reloading
<1>3. Past /\ Current /\ Fresh
  BY DEF Init, Past, Current, Fresh, HasCopy, Registered, KeysOf, Keys
<1> QED BY <1>1, <1>2, <1>3 DEF Inv

(* S3 only moves on. *)
LEMMA UploadInv == ASSUME Inv, NEW d \in Subdomains, Upload(d) PROVE Inv'
<1> USE DEF Upload, Inv
<1>1. feed' \in [Subdomains -> Gens] /\ \A e \in Subdomains : feed[e] <= feed'[e]
  BY RegistryAssumption DEF TypeOK, Gens
<1>2. TypeOK'
  BY <1>1 DEF TypeOK
<1>3. Places' /\ Held' /\ Absent' /\ Current' /\ Fresh'
  BY DEF Places, Held, Loads, NextKey, Absent, Current, Fresh, HasCopy, Registered
<1>4. Past'
  <2>1. ASSUME NEW t \in Threads, HasCopy(t)', copy'[t] # Bad PROVE copy'[t] <= feed'[job'[t][1]]
    <3>1. job[t] \in Keys /\ job[t][1] \in Subdomains
      BY <2>1 DEF Places, HasCopy, Keys
    <3>2. copy[t] <= feed[job[t][1]] /\ copy[t] \in Nat
      BY <2>1, RegistryAssumption DEF Past, HasCopy, TypeOK, Gens
    <3> QED BY <1>1, <3>1, <3>2, RegistryAssumption DEF TypeOK, Gens
  <2>2. \A e \in Subdomains : handled'[e] <= feed'[e]
    BY <1>1, RegistryAssumption DEF Past, TypeOK, Gens
  <2> QED BY <2>1, <2>2 DEF Past
<1> QED BY <1>2, <1>3, <1>4

(* A copy that is read now is as new as S3; an old or a bad one is marked.  *)
LEMMA ReadFeedInv == ASSUME Inv, NEW t \in Threads, ReadFeed(t) PROVE Inv'
<1> USE DEF ReadFeed, Inv
<1>1. /\ job[t] \in Keys /\ job[t][1] \in Subdomains
      /\ feed[job[t][1]] \in Gens /\ handled[job[t][1]] \in Gens
      /\ handled[job[t][1]] <= feed[job[t][1]]
  BY DEF Places, TypeOK, Past, Keys
<1>2. PICK c \in Gens \cup {Bad}, l \in BOOLEAN :
        /\ copy' = [copy EXCEPT ![t] = c] /\ late' = [late EXCEPT ![t] = l]
        /\ c # Bad => c <= feed[job[t][1]]
        /\ c # Bad /\ ~l => c = feed[job[t][1]]
  <2> DEFINE Reads(c, l) == copy' = [copy EXCEPT ![t] = c] /\ late' = [late EXCEPT ![t] = l]
  <2>1. CASE Reads(feed[job[t][1]], FALSE)
    <3>1. feed[job[t][1]] <= feed[job[t][1]]
      BY <1>1, RegistryAssumption DEF Gens
    <3> QED BY <1>1, <2>1, <3>1, Zenon
  <2>2. ASSUME NEW g \in 0 .. feed[job[t][1]], Reads(g, TRUE)
        PROVE  g \in Gens /\ g <= feed[job[t][1]]
    BY <1>1, <2>2, RegistryAssumption DEF Gens
  <2>3. CASE Reads(Bad, TRUE)
    BY <2>3
  <2> QED BY <2>1, <2>2, <2>3
<1>3. TypeOK'
  BY <1>2 DEF TypeOK, PC
<1>4. Places' /\ Held' /\ Absent' /\ Fresh'
  BY ThreadKinds, ZenonT(60) DEF TypeOK, Places, Held, Loads, NextKey, Absent, Fresh, Registered
<1>5. Past' /\ Current'
  BY <1>1, <1>2, RegistryAssumption DEF TypeOK, Past, Current, HasCopy, Gens
<1> QED BY <1>3, <1>4, <1>5

-----------------------------------------------------------------------------
(* The worker has the mutex that it found free, and the site is missing.    *)
LEMMA GetSiteInv ==
  ASSUME Inv, NEW w \in Workers, NEW k \in Keys, GetSite(w, k)
  PROVE  Inv'
<1> USE DEF GetSite, MayLoad, Inv
<1>1. w \in Threads /\ w \notin Reloading
  BY ThreadKinds
<1>2. TypeOK'
  BY <1>1 DEF TypeOK, PC
<1>3. Places' /\ Absent'
  BY <1>1, ThreadKinds DEF TypeOK, Places, Absent
<1>4. Held'
  <2> SUFFICES ASSUME NEW u \in Threads, NEW e \in Keys, Loads(u, e)' PROVE mutex'[e] = u
    BY DEF Held
  <2>1. CASE u = w
    BY <1>1, <2>1, ThreadKinds DEF TypeOK, Loads
  <2>2. CASE u # w
    <3>1. Loads(u, e)
      BY <1>1, <2>2 DEF TypeOK, Loads, NextKey
    <3> QED BY <3>1, RegistryAssumption DEF Held, TypeOK
  <2> QED BY <2>1, <2>2
<1>5. Past' /\ Current' /\ Fresh'
  BY <1>1 DEF TypeOK, Past, Current, Fresh, HasCopy, Registered
<1> QED BY <1>2, <1>3, <1>4, <1>5

(* What is published under key k by a thread that has a copy. *)
LEMMA PublishType ==
  ASSUME Inv, NEW t \in Threads, NEW k \in Keys, HasCopy(t), Parses(t),
         k[1] = job[t][1], Publish(t, k)
  PROVE  /\ sites' \in [Keys -> SiteRecords \cup {NoSite}]
         /\ \A e \in Keys \ {k} : sites'[e] = sites[e]
         /\ sites'[k] # NoSite
         /\ ~sites'[k].late => sites'[k].gen >= handled[k[1]]
<1> USE DEF Inv
<1>1. PICK ok \in BOOLEAN : sites' = [sites EXCEPT ![k] = Site(copy[t], ok, late[t])]
  BY DEF Publish
<1>2. copy[t] \in Gens /\ late[t] \in BOOLEAN
  BY DEF TypeOK, Parses
<1>3. /\ Site(copy[t], ok, late[t]) \in SiteRecords
      /\ Site(copy[t], ok, late[t]) \in [gen : Nat, keysOk : BOOLEAN, late : BOOLEAN]
      /\ Site(copy[t], ok, late[t]).late = late[t] /\ Site(copy[t], ok, late[t]).gen = copy[t]
  BY <1>2, RegistryAssumption DEF Site, SiteRecords, Gens
<1>4. ~late[t] => copy[t] >= handled[k[1]]
  BY DEF Current, Parses
<1>5. sites'[k] = Site(copy[t], ok, late[t]) /\ \A e \in Keys \ {k} : sites'[e] = sites[e]
  BY <1>1 DEF TypeOK
<1>6. sites' \in [Keys -> SiteRecords \cup {NoSite}]
  BY <1>1, <1>3 DEF TypeOK
<1>7. sites'[k] # NoSite
  BY <1>3, <1>5, RegistryAssumption
<1> QED BY <1>3, <1>4, <1>5, <1>6, <1>7

(* The site a worker publishes is the one it holds the mutex of.  A feed    *)
(* that does not parse leaves nothing, neither a site nor the mutex.        *)
LEMMA GetSiteLoadsInv == ASSUME Inv, NEW w \in Workers, GetSiteLoads(w) PROVE Inv'
<1> USE DEF GetSiteLoads, Unlock, Finish, Inv
<1>1. w \in Threads /\ w \notin Reloading /\ job[w] \in Keys /\ Loads(w, job[w])
  BY ThreadKinds DEF Places, Loads
<1>2. /\ sites' \in [Keys -> SiteRecords \cup {NoSite}]
      /\ \A e \in Keys \ {job[w]} : sites'[e] = sites[e]
      /\ sites'[job[w]] # NoSite /\ ~sites'[job[w]].late => sites'[job[w]].gen >= handled[job[w][1]]
  <2>1. CASE Parses(w)
    BY <1>1, <2>1, PublishType DEF HasCopy
  <2>2. CASE ~Parses(w)
    BY <1>1, <2>2 DEF TypeOK, Absent
  <2> QED BY <2>1, <2>2
<1>3. \A u \in Threads \ {w} : /\ pc'[u] = pc[u] /\ job'[u] = job[u] /\ todo'[u] = todo[u]
                               /\ copy'[u] = copy[u] /\ late'[u] = late[u]
  BY <1>1 DEF TypeOK
<1>4. TypeOK'
  BY <1>1, <1>2 DEF TypeOK, PC
<1>5. Places'
  BY <1>1, <1>3, ThreadKinds DEF TypeOK, Places
<1>6. \A u \in Threads, e \in Keys : Loads(u, e)' => u # w /\ Loads(u, e) /\ e # job[w]
  <2> SUFFICES ASSUME NEW u \in Threads, NEW e \in Keys, Loads(u, e)'
               PROVE  u # w /\ Loads(u, e) /\ e # job[w]
    OBVIOUS
  <2>1. u # w
    BY <1>1 DEF TypeOK, Loads
  <2>2. Loads(u, e)
    BY <1>3, <2>1 DEF Loads, NextKey
  <2> QED BY <1>1, <2>1, <2>2, OneLoader
<1>7. Held'
  BY <1>6 DEF TypeOK, Held
<1>8. Absent'
  <2> SUFFICES ASSUME NEW u \in Workers, pc'[u] \in {"missing", "read"} PROVE sites'[job'[u]] = NoSite
    BY DEF Absent
  <2>1. u \in Threads /\ u # w
    BY <1>1, ThreadKinds DEF TypeOK
  <2>2. job[u] \in Keys /\ Loads(u, job[u]) /\ job[u] # job[w]
    BY <1>1, <1>3, <2>1, OneLoader DEF Places, Loads
  <2> QED BY <1>2, <1>3, <2>1, <2>2 DEF Absent
<1>9. Past' /\ Current'
  BY <1>1, <1>3 DEF TypeOK, Past, Current, HasCopy
<1>10. Fresh'
  BY <1>1, <1>2 DEF Fresh, Registered, KeysOf, Keys
<1> QED BY <1>4, <1>5, <1>7, <1>8, <1>9, <1>10

(* resetSite only takes sites away. *)
LEMMA ResetSiteInv ==
  ASSUME Inv, NEW d \in Subdomains, NEW right \in BOOLEAN, ResetSite(d, right)
  PROVE  Inv'
<1> USE DEF ResetSite, Inv
<1>1. sites' \in [Keys -> SiteRecords \cup {NoSite}]
  BY DEF TypeOK
<1>2. \A k \in Keys : sites'[k] \in {sites[k], NoSite}
  OBVIOUS
<1>3. TypeOK'
  BY <1>1 DEF TypeOK
<1>4. Places' /\ Held' /\ Past' /\ Current'
  BY DEF Places, Held, Loads, NextKey, Past, Current, HasCopy
<1>5. Absent'
  BY <1>2, ThreadKinds DEF Absent, Places
<1>6. Fresh'
  BY <1>2 DEF Fresh, Registered, KeysOf, Keys
<1> QED BY <1>3, <1>4, <1>5, <1>6

-----------------------------------------------------------------------------
(* A reload that begins has a subdomain and no copy yet. *)
LEMMA CheckLoadedInv ==
  ASSUME Inv, NEW t \in Reloading, NEW d \in Subdomains, pc[t] \in {"idle", "spawned"},
         job' = [job EXCEPT ![t] = job'[t]], job'[t] \in Keys, CheckLoaded(t, d)
  PROVE  Inv'
<1> USE DEF CheckLoaded, Inv
<1>1. t \in Threads /\ t \notin Workers
  BY ThreadKinds
<1>2. Registered(d) \subseteq Keys
  BY DEF Registered, KeysOf, Keys
<1>3. \A u \in Threads \ {t} : pc'[u] = pc[u] /\ job'[u] = job[u] /\ todo'[u] = todo[u]
  BY DEF TypeOK
<1>4. pc'[t] = "flagged"
  BY <1>1 DEF TypeOK
<1>5. TypeOK'
  <2>1. job' \in [Threads -> Keys \cup {NoJob}]
    BY <1>1 DEF TypeOK
  <2>2. todo' \in [Threads -> SUBSET Keys] /\ pc' \in [Threads -> PC]
    BY <1>1, <1>2 DEF TypeOK, PC
  <2> QED BY <2>1, <2>2 DEF TypeOK
<1>6. Places' /\ Absent'
  BY <1>1, <1>3, <1>4, ThreadKinds DEF Places, Absent
<1>7. Held'
  BY <1>1, <1>3, <1>4 DEF Held, Loads, NextKey
<1>8. Past' /\ Current' /\ Fresh'
  BY <1>1, <1>3, <1>4 DEF Past, Current, Fresh, HasCopy, Registered
<1> QED BY <1>5, <1>6, <1>7, <1>8

(* Bus::run receives a message. *)
LEMMA ReceiveInv == ASSUME Inv, NEW d \in Subdomains, Receive(d) PROVE Inv'
<1>1. Bus \in Threads /\ <<d, "prod">> \in Keys
  BY ThreadKinds DEF Keys, Modes
<1>2. job' = [job EXCEPT ![Bus] = job'[Bus]] /\ job'[Bus] \in Keys
  BY <1>1 DEF Receive, Inv, TypeOK
<1> QED BY <1>2, ThreadKinds, CheckLoadedInv DEF Receive

(* The spawned thread has the job of the Bus. *)
LEMMA StartReloadInv == ASSUME Inv, NEW r \in Reloaders, StartReload(r) PROVE Inv'
<1>1. r \in Threads /\ r \in Reloading
  BY ThreadKinds
<1>2. job[r] \in Keys /\ job[r][1] \in Subdomains
  BY <1>1 DEF StartReload, Inv, Places, Keys
<1>3. job' = [job EXCEPT ![r] = job'[r]] /\ job'[r] \in Keys
  BY <1>1, <1>2 DEF StartReload, Inv, TypeOK
<1> QED BY <1>1, <1>2, <1>3, CheckLoadedInv DEF StartReload

(* The reset erases what is older than the reload's copy, and every other   *)
(* copy of the subdomain is overtaken.                                      *)
LEMMA ResetForReloadInv == ASSUME Inv, NEW t \in Reloading, ResetForReload(t) PROVE Inv'
<1> USE DEF ResetForReload, ForcedReset, Inv
<1> DEFINE d == job[t][1]
<1>1. t \in Threads /\ t \notin Workers /\ job[t] \in Keys /\ d \in Subdomains /\ HasCopy(t)
  BY ThreadKinds DEF Places, Keys, HasCopy
<1>2. /\ copy[t] \in Gens \cup {Bad} /\ handled[d] \in Gens /\ feed[d] \in Gens
      /\ \A e \in Subdomains : handled[e] \in Gens
      /\ \A g \in Gens : g \in Nat /\ g # Bad
  BY <1>1, RegistryAssumption DEF TypeOK, Gens
<1>3. /\ handled' \in [Subdomains -> Gens] /\ handled'[d] <= feed[d]
      /\ copy[t] # Bad => copy[t] <= handled'[d]
      /\ copy[t] # Bad /\ ~late[t] => copy[t] = handled'[d]
      /\ \A e \in Subdomains \ {d} : handled'[e] = handled[e]
  <2>1. copy[t] # Bad => copy[t] <= feed[d]
    BY <1>1 DEF Past
  <2>2. copy[t] # Bad /\ ~late[t] => copy[t] >= handled[d]
    BY <1>1 DEF Current
  <2>3. handled[d] <= feed[d]
    BY <1>1 DEF Past
  <2>4. CASE copy[t] # Bad /\ copy[t] > handled[d]
    BY <1>1, <1>2, <2>1, <2>4, RegistryAssumption DEF TypeOK, Gens
  <2>5. CASE ~(copy[t] # Bad /\ copy[t] > handled[d])
    BY <1>1, <1>2, <2>2, <2>3, <2>5, RegistryAssumption DEF TypeOK, Gens
  <2> QED BY <2>4, <2>5
<1>4. /\ sites' \in [Keys -> SiteRecords \cup {NoSite}]
      /\ \A k \in Keys : sites'[k] \in {sites[k], NoSite} /\ (k[1] = d => sites'[k] = NoSite)
  BY DEF TypeOK, KeysOf, Keys
<1>5. /\ late' \in [Threads -> BOOLEAN] /\ late'[t] = late[t]
      /\ \A u \in Threads \ {t} : (HasCopy(u) /\ job[u][1] = d => late'[u]) /\ (late[u] => late'[u])
  BY <1>1 DEF TypeOK
<1>6. /\ pc' \in [Threads -> PC] /\ pc'[t] = "reset"
      /\ \A u \in Threads \ {t} : pc'[u] = pc[u]
  BY <1>1 DEF TypeOK, PC
<1>7. TypeOK'
  BY <1>3, <1>4, <1>5, <1>6 DEF TypeOK
<1>8. Places' /\ Held'
  BY <1>1, <1>6, ThreadKinds DEF Places, Held, Loads, NextKey
<1>9. Absent'
  BY <1>1, <1>4, <1>6, ThreadKinds DEF Absent, Places
<1>10. \A u \in Threads : HasCopy(u)' <=> HasCopy(u)
  BY <1>1, <1>6 DEF HasCopy
<1>11. Past'
  <2>1. \A e \in Subdomains : handled'[e] <= feed'[e]
    BY <1>3 DEF Past
  <2> QED BY <2>1, <1>10 DEF Past
<1>12. Current'
  <2> SUFFICES ASSUME NEW u \in Threads, HasCopy(u)', ~late'[u], copy'[u] # Bad
               PROVE  copy'[u] >= handled'[job'[u][1]]
    BY DEF Current
  <2>1. HasCopy(u) /\ ~late[u] /\ job[u] \in Keys /\ job[u][1] \in Subdomains
    BY <1>5, <1>10 DEF HasCopy, Places, Keys, TypeOK
  <2>2. CASE u = t
    BY <1>2, <1>3, <1>5, <2>1, <2>2, RegistryAssumption DEF Gens
  <2>3. CASE u # t
    BY <1>3, <1>5, <2>1, <2>3 DEF Current
  <2> QED BY <2>2, <2>3
<1>13. Fresh'
  BY <1>3, <1>4 DEF Fresh, Registered, KeysOf, Keys
<1> QED BY <1>7, <1>8, <1>9, <1>11, <1>12, <1>13

(* The reload waits for the mutex of the key that it publishes next. *)
LEMMA LockSiteInv == ASSUME Inv, NEW t \in Reloading, LockSite(t) PROVE Inv'
<1> USE DEF LockSite, SiteLockable, Inv
<1>1. t \in Threads /\ t \notin Workers /\ job[t] \in Keys /\ NextKey(t) \in Keys
  BY ThreadKinds, NextKeyType DEF Places
<1>2. TypeOK'
  BY <1>1 DEF TypeOK, PC
<1>3. \A u \in Threads \ {t} : pc'[u] = pc[u]
  BY DEF TypeOK
<1>4. pc'[t] = "loading" /\ NextKey(t)' = NextKey(t)
  BY <1>1 DEF TypeOK, NextKey
<1>5. Places' /\ Absent'
  BY <1>1, <1>3, <1>4, ThreadKinds DEF Places, Absent
<1>6. Held'
  <2> SUFFICES ASSUME NEW u \in Threads, NEW e \in Keys, Loads(u, e)' PROVE mutex'[e] = u
    BY DEF Held
  <2>1. CASE u = t
    BY <1>1, <1>4, <2>1 DEF TypeOK, Loads
  <2>2. CASE u # t
    <3>1. Loads(u, e)
      BY <1>3, <2>2 DEF Loads, NextKey
    <3> QED BY <1>1, <3>1, RegistryAssumption DEF Held, TypeOK
  <2> QED BY <2>1, <2>2
<1>7. Past' /\ Current' /\ Fresh'
  BY <1>1, <1>3, <1>4 DEF Past, Current, Fresh, HasCopy, Registered
<1> QED BY <1>2, <1>5, <1>6, <1>7

(* The site a reload publishes is the one it holds the mutex of; no worker  *)
(* is about to load that site.                                              *)
LEMMA LoadSiteInv == ASSUME Inv, NEW t \in Reloading, LoadSite(t) PROVE Inv'
<1> USE DEF LoadSite, Inv
<1> DEFINE k == NextKey(t)
<1>1. /\ t \in Threads /\ t \notin Workers /\ job[t] \in Keys
      /\ k \in Keys /\ k[1] = job[t][1] /\ Loads(t, k)
  BY ThreadKinds, NextKeyType DEF Places, Loads
<1>2. /\ sites' \in [Keys -> SiteRecords \cup {NoSite}]
      /\ \A e \in Keys \ {k} : sites'[e] = sites[e]
      /\ ~sites'[k].late => sites'[k].gen >= handled[k[1]]
  BY <1>1, PublishType DEF HasCopy
<1>3. \A u \in Threads \ {t} : pc'[u] = pc[u] /\ todo'[u] = todo[u]
  BY DEF TypeOK
<1>4. pc'[t] = "reset"
  BY <1>1 DEF TypeOK
<1>5. TypeOK'
  BY <1>1, <1>2 DEF TypeOK, PC
<1>6. Places'
  BY <1>1, <1>3, <1>4, ThreadKinds DEF Places
<1>7. \A u \in Threads, e \in Keys : Loads(u, e)' => u # t /\ Loads(u, e) /\ e # k
  <2> SUFFICES ASSUME NEW u \in Threads, NEW e \in Keys, Loads(u, e)'
               PROVE  u # t /\ Loads(u, e) /\ e # k
    OBVIOUS
  <2>1. u # t
    BY <1>1, <1>4 DEF Loads
  <2>2. Loads(u, e)
    BY <1>3, <2>1 DEF Loads, NextKey
  <2> QED BY <1>1, <2>1, <2>2, OneLoader
<1>8. Held'
  BY <1>1, <1>7 DEF TypeOK, Held
<1>9. Absent'
  <2> SUFFICES ASSUME NEW w \in Workers, pc'[w] \in {"missing", "read"} PROVE sites'[job'[w]] = NoSite
    BY DEF Absent
  <2>1. w \in Threads /\ w # t /\ pc[w] \in {"missing", "read"}
    BY <1>1, <1>3, ThreadKinds
  <2>2. job[w] \in Keys /\ Loads(w, job[w])
    BY <2>1 DEF Places, Loads
  <2>3. job[w] # k
    BY <1>1, <2>1, <2>2, OneLoader
  <2> QED BY <1>2, <2>1, <2>2, <2>3 DEF Absent
<1>10. Past' /\ Current'
  BY <1>1, <1>3, <1>4 DEF Past, Current, HasCopy
<1>11. Fresh'
  BY <1>1, <1>2 DEF Fresh, Registered, KeysOf, Keys
<1> QED BY <1>5, <1>6, <1>8, <1>9, <1>10, <1>11

(* A new process, with whatever S3 holds. *)
LEMMA TerminateInv == ASSUME Inv, NEW t \in Reloading, Terminate(t) PROVE Inv'
<1> USE DEF Terminate, Inv
<1>1. TypeOK'
  BY RegistryAssumption DEF TypeOK, PC, Gens
<1>2. Places' /\ Held' /\ Absent'
  BY ThreadKinds DEF Places, Held, Loads, Absent, Reloading
<1>3. Past' /\ Current' /\ Fresh'
  BY RegistryAssumption DEF Past, Current, Fresh, HasCopy, Registered, KeysOf, Keys, TypeOK, Gens
<1> QED BY <1>1, <1>2, <1>3

(* The Bus hands its job to a thread that had none. *)
LEMMA SpawnInv == ASSUME Inv, NEW r \in Reloaders, Spawn(r) PROVE Inv'
<1> USE DEF Spawn, Inv
<1>1. Bus \in Threads /\ r \in Threads /\ r # Bus /\ Bus \notin Workers /\ r \notin Workers
  BY ThreadKinds
<1>2. job[Bus] \in Keys
  BY <1>1 DEF Places
<1>3. \A u \in Threads \ {Bus, r} : /\ pc'[u] = pc[u] /\ job'[u] = job[u] /\ copy'[u] = copy[u]
                                    /\ late'[u] = late[u]
  BY <1>1 DEF TypeOK
<1>4. pc'[Bus] = "idle" /\ pc'[r] = "spawned" /\ job'[r] = job[Bus]
  BY <1>1 DEF TypeOK
<1>5. TypeOK'
  BY <1>1, <1>2 DEF TypeOK, PC
<1>6. Places'
  BY <1>1, <1>2, <1>3, <1>4, ThreadKinds DEF Places
<1>7. Absent'
  BY <1>1, <1>3, ThreadKinds, ZenonT(60) DEF Absent
<1>8. Held'
  <2>1. \A u \in Threads, e \in Keys : Loads(u, e)' => u \notin {Bus, r}
    BY <1>1, <1>4 DEF Loads
  <2>2. \A u \in Threads \ {Bus, r}, e \in Keys : Loads(u, e)' => Loads(u, e)
    BY <1>3 DEF Loads, NextKey
  <2> QED BY <2>1, <2>2 DEF Held
<1>9. Past' /\ Current' /\ Fresh'
  BY <1>1, <1>3, <1>4, ZenonT(60) DEF Past, Current, Fresh, HasCopy, Registered
<1> QED BY <1>5, <1>6, <1>7, <1>8, <1>9

(* The thread is gone. *)
LEMMA ReloadEndsInv == ASSUME Inv, NEW r \in Reloaders, ReloadEnds(r) PROVE Inv'
<1> USE DEF ReloadEnds, Finish, Inv
<1>1. r \in Threads /\ r \notin Workers
  BY ThreadKinds
<1>2. \A u \in Threads \ {r} : /\ pc'[u] = pc[u] /\ job'[u] = job[u] /\ copy'[u] = copy[u]
                               /\ late'[u] = late[u]
  BY <1>1 DEF TypeOK
<1>3. pc'[r] = "idle"
  BY <1>1 DEF TypeOK
<1>4. TypeOK'
  BY <1>1 DEF TypeOK, PC
<1>5. Places'
  BY <1>1, <1>2, <1>3, ThreadKinds DEF Places
<1>6. Held' /\ Absent'
  BY <1>1, <1>2, <1>3, ThreadKinds DEF Held, Loads, NextKey, Absent
<1>7. Past' /\ Current' /\ Fresh'
  BY <1>1, <1>2, <1>3 DEF Past, Current, Fresh, HasCopy, Registered
<1> QED BY <1>4, <1>5, <1>6, <1>7

(* Nothing changes. *)
LEMMA StutterInv == ASSUME Inv, UNCHANGED vars PROVE Inv'
BY DEF vars, Inv, TypeOK, Places, Held, Loads, NextKey, Absent, Past, Current, Fresh, HasCopy, Registered

(* Every step of S3, the workers, the Bus and the reload threads. *)
LEMMA StepInv == ASSUME Inv, [Next]_vars PROVE Inv'
<1>1. CASE UNCHANGED vars
  BY <1>1, StutterInv
<1>2. ASSUME NEW d \in Subdomains, Upload(d) \/ Receive(d) \/ \E right \in BOOLEAN : ResetSite(d, right)
      PROVE  Inv'
  BY <1>2, UploadInv, ReceiveInv, ResetSiteInv
<1>3. ASSUME NEW w \in Workers, WorkerStep(w) PROVE Inv'
  BY <1>3, ThreadKinds, GetSiteInv, ReadFeedInv, GetSiteLoadsInv DEF WorkerStep
<1>4. ASSUME NEW t \in Reloading, ReloadStep(t) PROVE Inv'
  BY <1>4, ThreadKinds, ReadFeedInv, ResetForReloadInv, LockSiteInv, LoadSiteInv, TerminateInv DEF ReloadStep
<1>5. ASSUME NEW r \in Reloaders, StartReload(r) \/ Spawn(r) \/ ReloadEnds(r) PROVE Inv'
  BY <1>5, StartReloadInv, SpawnInv, ReloadEndsInv
<1> QED BY <1>1, <1>2, <1>3, <1>4, <1>5 DEF Next, Reloading

-----------------------------------------------------------------------------
(* The registry and its threads keep Inv. *)
THEOREM RegistryInvariant == Spec => []Inv
BY InitInv, StepInv, PTL DEF Spec

(* The state of the registry stays in its types. *)
THEOREM TypeCorrect == Spec => []TypeOK
<1>1. Inv => TypeOK
  BY DEF Inv
<1> QED BY <1>1, RegistryInvariant, PTL

(* A reload is not undone: what is served afterwards is at least as new,    *)
(* but for copies that reloadSite has overtaken or that came from the disk. *)
THEOREM ReloadsHold == Spec => []Fresh
<1>1. Inv => Fresh
  BY DEF Inv
<1> QED BY <1>1, RegistryInvariant, PTL

(* getSite publishes only a key that is not registered. *)
THEOREM LoadedOnce == Spec => NoDoubleLoad
<1> DEFINE Rule == \A w \in Workers :
                     pc[w] = "read" /\ pc'[w] = "idle" /\ sites'[job[w]] # NoSite
                       => sites[job[w]] = NoSite
<1>1. Inv => Rule
  BY DEF Inv, Absent
<1>2. Inv => [Rule]_vars
  BY <1>1
<1> QED BY <1>2, RegistryInvariant, PTL DEF NoDoubleLoad
=============================================================================
