------------------------------ MODULE Profiles ------------------------------
(***************************************************************************)
(* The profiles and the page a download link serves (profiles.js,          *)
(* vpnConfig.js, userPortal.js): each names the server's address and       *)
(* identity from a cache of TTL over panel_settings, and most carry the CA *)
(* certificate, read once per process.  A request looks both up across     *)
(* awaits, while the endpoint is saved, a backup is imported or the panel  *)
(* restarts.                                                               *)
(*                                                                         *)
(* The link, the account's name, password and usage are left out; all that *)
(* is told apart of an endpoint is which one was saved.                    *)
(***************************************************************************)
EXTENDS Integers

CONSTANTS
    Visitor,         \* download requests at the same time
    Site,            \* endpoints, as saved or imported: address and identity
    Built,           \* the one of the installation
    RelayName,       \* the Iran relay's host name
    CacheTtl,        \* TTL_MS
    LastInstant,     \* bound: the clock
    LastRoot         \* bound: CA certificates ever installed

ASSUME ProfilesAssumption ==
    /\ Built \in Site /\ RelayName \notin Site
    /\ CacheTtl \in Nat /\ LastInstant \in Nat /\ LastRoot \in Nat \ {0}

VARIABLES
    instant,
    site,         \* panel_settings
    owed,         \* a save has committed and not yet invalidated the cache
    importing,    \* the import in progress
    root,         \* the CA certificate on disk
    rootCache,    \* caCache
    siteCache,    \* cache and cacheAt
    fetch,        \* per visitor: the request in progress
    imported,     \* history: when an import last replaced the endpoint
    rootStands    \* history: no import replaced the certificate since the start

profileVars == <<instant, site, owed, importing, root, rootCache, siteCache, fetch, imported,
                 rootStands>>
settingVars == <<instant, site, owed, importing, root, imported, rootStands>>

NoFile == 0
Implied == "address"    \* the identity is the address the client has
Never == -1
NoImport == [at |-> "none"]
NoLookup == [at |-> Never]
NoFetch == [at |-> "idle"]
Device == {"android", "relay", "ios", "windows", "json", "page"}
\* `late' (history): the query began before the setting was last written
Lookup == [at : 0..LastInstant, site : Site, late : BOOLEAN]
Fetch == [at : {"lookup"}, root : 0..LastRoot]
           \cup [at : {"query"}, root : 0..LastRoot, site : Site, late : BOOLEAN]

ProfilesType ==
    /\ instant \in 0..LastInstant /\ site \in Site /\ owed \in BOOLEAN
    /\ importing \in {NoImport} \cup [at : {"files", "settings"}, site : Site]
    /\ root \in 1..LastRoot /\ rootCache \in 0..LastRoot
    /\ siteCache \in Lookup \cup {NoLookup}
    /\ fetch \in [Visitor -> Fetch \cup {NoFetch}]
    /\ imported \in Never..LastInstant /\ rootStands \in BOOLEAN

ProfilesInit ==
    /\ instant = 0 /\ site = Built /\ owed = FALSE /\ importing = NoImport
    /\ root = 1 /\ rootCache = NoFile /\ siteCache = NoLookup
    /\ fetch = [v \in Visitor |-> NoFetch]
    /\ imported = Never /\ rootStands = TRUE

Tick ==
    /\ instant < LastInstant /\ instant' = instant + 1
    /\ UNCHANGED <<site, owed, importing, root, rootCache, siteCache, fetch, imported,
                   rootStands>>

-----------------------------------------------------------------------------
(* What is served *)

\* strongSwan's file, the iOS profile and the client's JSON name the server and
\* its identity and bring the certificate;
Android(s, ca) == [remote |-> s, identity |-> s, root |-> ca]
Ios(s, ca)     == [remote |-> s, identity |-> s, root |-> ca]
Json(s, ca)    == [remote |-> s, identity |-> s, root |-> ca]

\* the script for Windows does not say who is to answer.
Windows(s, ca) == [remote |-> s, identity |-> Implied, root |-> ca]

\* The relay's is the Android file under the relay's name.
AndroidRelay(s, ca) == [Android(s, ca) EXCEPT !.remote = RelayName, !.identity = RelayName]

\* The page shows the server and its identity.
Page(s) == [remote |-> s, identity |-> s, root |-> NoFile]

Served(device, s, ca) ==
    CASE device = "android" -> Android(s, ca)
      [] device = "relay"   -> AndroidRelay(s, ca)
      [] device = "ios"     -> Ios(s, ca)
      [] device = "windows" -> Windows(s, ca)
      [] device = "json"    -> Json(s, ca)
      [] device = "page"    -> Page(s)

-----------------------------------------------------------------------------
(* A request *)

\* caInfo
CaInfo == IF rootCache # NoFile THEN rootCache ELSE root

\* The link's account is found, and for a profile the certificate.
Ask(v, profile) ==
    /\ fetch[v] = NoFetch
    /\ fetch' = [fetch EXCEPT ![v] = [at |-> "lookup", root |-> IF profile THEN CaInfo ELSE NoFile]]
    /\ rootCache' = IF profile THEN CaInfo ELSE rootCache
    /\ UNCHANGED <<settingVars, siteCache>>

\* cache && Date.now() - cacheAt < TTL_MS
Usable == siteCache # NoLookup /\ instant - siteCache.at < CacheTtl

Handed(v) == fetch' = [fetch EXCEPT ![v] = NoFetch]

ServeCached(v) ==
    /\ fetch[v].at = "lookup" /\ Usable
    /\ Handed(v)
    /\ UNCHANGED <<settingVars, rootCache, siteCache>>

Query(v) ==
    /\ fetch[v].at = "lookup" /\ ~Usable
    /\ fetch' = [fetch EXCEPT ![v] =
                   [at |-> "query", root |-> fetch[v].root, site |-> site, late |-> FALSE]]
    /\ UNCHANGED <<settingVars, rootCache, siteCache>>

\* The answer is kept, whatever was saved or invalidated meanwhile.
Answered(v) ==
    /\ fetch[v].at = "query"
    /\ siteCache' = [at |-> instant, site |-> fetch[v].site, late |-> fetch[v].late]
    /\ Handed(v)
    /\ UNCHANGED <<settingVars, rootCache>>

\* What each kind of request receives then.
ServedTo(v, device) == Served(device, siteCache'.site, fetch[v].root)

\* The database or the file cannot be read, or the client has gone.
Dropped(v) ==
    /\ fetch[v] # NoFetch
    /\ fetch' = [fetch EXCEPT ![v] = NoFetch]
    /\ UNCHANGED <<settingVars, rootCache, siteCache>>

-----------------------------------------------------------------------------
(* Who changes what is served *)

\* Queries under way have read the setting before.
Overtaken == fetch' = [v \in Visitor |-> IF fetch[v].at = "query"
                                           THEN [fetch[v] EXCEPT !.late = TRUE] ELSE fetch[v]]

\* updateSettings('vpn', ...), past its commit
SaveSite(s) ==
    /\ ~owed /\ s # site
    /\ site' = s /\ owed' = TRUE /\ Overtaken
    /\ UNCHANGED <<instant, importing, root, rootCache, siteCache, imported, rootStands>>

\* Mutant: the cache is left to expire.
LeftToExpire == siteCache

\* invalidateVpnConfigCache
Invalidated == NoLookup

InvalidateSaved ==
    /\ owed /\ owed' = FALSE
    /\ siteCache' = Invalidated
    /\ UNCHANGED <<instant, site, importing, root, rootCache, fetch, imported, rootStands>>

\* An import replaces the certificate's file, if it has one,
ImportFiles(s, r) ==
    /\ importing = NoImport /\ r \in {root, root + 1} \cap (1..LastRoot)
    /\ importing' = [at |-> "files", site |-> s]
    /\ root' = r /\ rootStands' = (rootStands /\ r = root)
    /\ UNCHANGED <<instant, site, owed, rootCache, siteCache, fetch, imported>>

\* then writes the settings and invalidates the cache inside a transaction
ImportInvalidates ==
    /\ importing.at = "files"
    /\ importing' = [importing EXCEPT !.at = "settings"]
    /\ siteCache' = Invalidated
    /\ UNCHANGED <<instant, site, owed, root, rootCache, fetch, imported, rootStands>>

\* that commits later,
ImportCommits ==
    /\ importing.at = "settings"
    /\ importing' = NoImport /\ site' = importing.site /\ imported' = instant
    /\ Overtaken
    /\ UNCHANGED <<instant, owed, root, rootCache, siteCache, rootStands>>

\* or is rolled back, or there were only files.
ImportEnds ==
    /\ importing # NoImport /\ importing' = NoImport
    /\ UNCHANGED <<instant, site, owed, root, rootCache, siteCache, fetch, imported,
                   rootStands>>

\* The caches are of the process.
PanelReboots ==
    /\ owed' = FALSE /\ importing' = NoImport
    /\ rootCache' = NoFile /\ siteCache' = NoLookup /\ rootStands' = TRUE
    /\ fetch' = [v \in Visitor |-> NoFetch]
    /\ UNCHANGED <<instant, site, root, imported>>

ProfilesNext ==
    \/ Tick
    \/ \E v \in Visitor :
        \/ \E profile \in BOOLEAN : Ask(v, profile)
        \/ ServeCached(v) \/ Query(v) \/ Answered(v) \/ Dropped(v)
    \/ \E s \in Site : SaveSite(s) \/ \E r \in 1..LastRoot : ImportFiles(s, r)
    \/ InvalidateSaved \/ ImportInvalidates \/ ImportCommits \/ ImportEnds
    \/ PanelReboots

ProfilesSpec == ProfilesInit /\ [][ProfilesNext]_profileVars

-----------------------------------------------------------------------------
(* Properties *)

\* Late news that is allowed: between a save and its invalidation, for TTL after
\* an import, and where a query that began before the write was answered after
\* the invalidation.
Excused ==
    owed \/ siteCache'.late \/ (imported # Never /\ instant - imported < CacheTtl)

\* What a visitor receives names the endpoint saved last, all of it, and brings
\* the CA on disk unless an import replaced it under the process
\* (vpnConfig.js:9-22, settings.js:175-187, profiles.js:9-16).
Current(device, file) ==
    LET named == IF device = "relay" THEN RelayName ELSE site IN
    /\ Excused \/ (file.remote = named /\ file.identity \in {named, Implied})
    /\ rootStands => file.root \in {NoFile, root}
ProfilesCurrent ==
    [][\A v \in Visitor :
         ServeCached(v) \/ Answered(v) =>
             \A device \in Device : Current(device, ServedTo(v, device))]_profileVars

=============================================================================
