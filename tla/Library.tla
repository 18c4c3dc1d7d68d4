------------------------------- MODULE Library ------------------------------
(***************************************************************************)
(* The library of clips (gui/routes/library_bp.py).  Clients list a folder *)
(* they name or the one the server remembers, which all clients share; the *)
(* walk of a folder is kept for a while and serves every filter.  A client *)
(* then opens a clip it was shown: the phone says which folder it listed,  *)
(* the desktop does not.  Files come, go and are compressed meanwhile.     *)
(***************************************************************************)
EXTENDS Naturals, FiniteSets

CONSTANTS
    Clients, SaysFolder,    \* the clients, and those that open a clip with its folder
    Files, FolderOf, Place, \* the clips: their folder and their place in it, Places
    Outputs,                \* the clips in the folder of compressed outputs
    OutputDir,              \* the folder the dashboard writes to
    Ttl, Most, Cap,         \* _LIB_CACHE_TTL_S, _LIB_CACHE_MAX_FOLDERS, _LIB_CACHE_CAP
    Requests,               \* the listings that are asked for: [folder, recursive, force, kind]
    MaxTime, MaxChanges, MaxAsks \* bounds: the clock, the changes of the folders and failed walks, the requests

VARIABLES
    now, present, compressed,   \* the clips there are, and those the index has an output for
    changes, asks,
    remembered,                 \* config.library_folder
    cache, busy,                \* _lib_cache, and who holds _lib_cache_lock
    client                      \* what each client asks for and was answered

vars == <<now, present, compressed, changes, asks, remembered, cache, busy, client>>

Places == {"top", "sub", "hls"}
Folders == {FolderOf[f] : f \in Files}
Unset == "unset"
Keys == Folders \X BOOLEAN
Uncached == [at |-> 0, walked |-> 0, items |-> {}, truncated |-> FALSE, error |-> FALSE, there |-> FALSE]
Resting == [pc |-> "idle", folder |-> Unset, recursive |-> TRUE, force |-> FALSE, kind |-> "all",
            start |-> 0, found |-> {}, walked |-> 0, truncated |-> FALSE, error |-> FALSE,
            items |-> {}, opened |-> "nothing"]
At(c, pc) == client[c].pc = pc
Key(c) == <<client[c].folder, client[c].recursive>>

-----------------------------------------------------------------------------
(* The folders, changed by encodes, uploads and hands; a folder that is away  *)
(* (unmounted) has none of its clips.                                         *)
Tick == now < MaxTime /\ now' = now + 1 /\ UNCHANGED <<present, compressed, changes, asks, remembered, cache, busy, client>>
Change ==
    /\ changes < MaxChanges /\ changes' = changes + 1
    /\ \/ \E f \in Files : present' = (IF f \in present THEN present \ {f} ELSE present \union {f}) /\ UNCHANGED compressed
       \/ \E f \in (Files \ Outputs) \ compressed : compressed' = compressed \union {f} /\ UNCHANGED present
    /\ UNCHANGED <<now, asks, remembered, cache, busy, client>>

-----------------------------------------------------------------------------
(* GET /api/library/videos.                                                   *)
Resolve(folder) ==
    IF folder # Unset THEN folder ELSE IF remembered # Unset THEN remembered ELSE OutputDir
Ask(c) ==
    /\ client[c].pc \in {"idle", "shown"} /\ asks < MaxAsks /\ asks' = asks + 1
    /\ \E r \in Requests :
          LET folder == Resolve(r.folder)
          IN  /\ client' = [client EXCEPT ![c] = [Resting EXCEPT
                        !.pc = "asked", !.folder = folder, !.start = now,
                        !.recursive = r.recursive, !.force = r.force, !.kind = r.kind]]
              /\ remembered' = folder
    /\ UNCHANGED <<now, present, compressed, changes, cache, busy>>

\* _cached_listing: the age of a listing is judged by the time taken before the lock.
Fresh(c) == LET hit == cache[Key(c)] IN hit.there /\ ~client[c].force /\ client[c].start < hit.at + Ttl
Filtered(c, items) == {i \in items : client[c].kind \in {"all", i.kind}}
Answer(c, listing) ==
    client' = [client EXCEPT ![c] = [@ EXCEPT
                  !.pc = "shown", !.walked = listing.walked, !.error = listing.error,
                  !.truncated = listing.truncated, !.items = Filtered(c, listing.items), !.found = {}]]
Hit(c) ==
    /\ At(c, "asked") /\ busy = {} /\ Fresh(c) /\ Answer(c, cache[Key(c)])
    /\ UNCHANGED <<now, present, compressed, changes, asks, remembered, cache, busy>>

\* _iter_video_entries does not enter an hls folder, and a walk that reaches the cap stops.
Eligible(c) ==
    {f \in present : /\ FolderOf[f] = client[c].folder
                     /\ Place[f] = "top" \/ (client[c].recursive /\ Place[f] # "hls")}
Walked(c, found, error, truncated) ==
    [client EXCEPT ![c] = [@ EXCEPT !.pc = "walked", !.found = found, !.walked = now,
                                    !.error = error, !.truncated = truncated]]
Walk(c) ==
    /\ At(c, "asked") /\ busy = {} /\ ~Fresh(c) /\ busy' = {c}
    /\ \/ \E found \in SUBSET Eligible(c) :
             /\ UNCHANGED changes
             /\ found = Eligible(c) \/ Cardinality(found) = Cap
             /\ Cardinality(found) <= Cap
             /\ client' = Walked(c, found, FALSE, Cardinality(found) = Cap)
       \/ /\ changes < MaxChanges /\ changes' = changes + 1
          /\ client' = Walked(c, {}, TRUE, FALSE)
    /\ UNCHANGED <<now, present, compressed, asks, remembered, cache>>

Kind(f) == IF f \in Outputs THEN "compressed" ELSE "original"
Listing(c, at) ==
    [at |-> at, walked |-> client[c].walked, truncated |-> client[c].truncated,
     error |-> client[c].error, there |-> TRUE,
     items |-> {[clip |-> f, kind |-> Kind(f), done |-> f \in compressed] : f \in client[c].found}]
BuiltLate(c) == Listing(c, now)
Built(c) == Listing(c, client[c].start)
StoredUnbounded(c, listing) == {[cache EXCEPT ![Key(c)] = listing]}
Stored(c, listing) ==
    LET full == [cache EXCEPT ![Key(c)] = listing]
        there == {k \in Keys : full[k].there}
    IN  IF Cardinality(there) <= Most THEN {full}
        ELSE {[full EXCEPT ![k] = Uncached] : k \in {k \in there : \A o \in there : full[k].at <= full[o].at}}
Classify(c) ==
    /\ At(c, "walked") /\ busy' = {}
    /\ cache' \in Stored(c, Built(c))
    /\ Answer(c, Built(c))
    /\ UNCHANGED <<now, present, compressed, changes, asks, remembered>>

-----------------------------------------------------------------------------
(* GET /api/library/file, meta and thumb, POST compress: _safe_video.         *)
AllowedRootsOnly(c, f) == FolderOf[f] \in {remembered, OutputDir}
Allowed(c, f) ==
    \/ FolderOf[f] \in {remembered, OutputDir}
    \/ c \in SaysFolder /\ FolderOf[f] = client[c].folder
Open(c) ==
    /\ At(c, "shown")
    /\ \E i \in client[c].items :
          client' = [client EXCEPT ![c] = [Resting EXCEPT !.opened = IF i.clip \notin present THEN "gone"
                                                          ELSE IF Allowed(c, i.clip) THEN "open" ELSE "refused"]]
    /\ UNCHANGED <<now, present, compressed, changes, asks, remembered, cache, busy>>

Init ==
    /\ now = 0 /\ present = Files /\ compressed = {} /\ changes = 0 /\ asks = 0
    /\ remembered = Unset /\ cache = [k \in Keys |-> Uncached] /\ busy = {}
    /\ client = [c \in Clients |-> Resting]
Next ==
    \/ Tick \/ Change
    \/ \E c \in Clients : Ask(c) \/ Hit(c) \/ Walk(c) \/ Classify(c) \/ Open(c)
Spec == Init /\ [][Next]_vars

-----------------------------------------------------------------------------
\* A listing is no older than the time to live, and a forced one was walked after it was
\* asked for; it stays in its folder, shows no clip twice, and as many listings are kept
\* as there is room for (library_bp.py:137-155).
ListingFresh ==
    /\ \A c \in Clients : client[c].pc = "shown" =>
          /\ client[c].walked + Ttl > client[c].start
          /\ client[c].force => client[c].walked >= client[c].start
          /\ \A i \in client[c].items :
                /\ FolderOf[i.clip] = client[c].folder
                /\ Place[i.clip] \in (IF client[c].recursive THEN {"top", "sub"} ELSE {"top"})
                /\ \A j \in client[c].items : i.clip = j.clip => i = j
    /\ Cardinality({k \in Keys : cache[k].there}) <= Most

\* A client that says which folder it listed opens every clip it was shown that is still
\* there, whatever the others browse meanwhile (library_bp.py:93-99).
ListedOpens == \A c \in SaysFolder : client[c].opened # "refused"
=============================================================================
