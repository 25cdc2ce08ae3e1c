------------------------------- MODULE CdCache -------------------------------
(***************************************************************************)
(* The sector cache (cd_cache.rs): the emulator thread reads sectors       *)
(* through a cache that a prefetch thread fills.  Both threads work under  *)
(* one mutex and wait on one condition variable, on which each wakes the   *)
(* other with notify_one.                                                  *)
(*                                                                         *)
(* Neither thread touches the shared state without the mutex and neither   *)
(* releases it in the middle of a step except by waiting, so each stretch  *)
(* between taking the mutex and releasing it is one action here.  A        *)
(* notification reaches a thread only if it is waiting at that moment.     *)
(*                                                                         *)
(* Nothing here has a name of CdRom's, so that CdRomProofs can extend both *)
(* parts of the drive.                                                     *)
(***************************************************************************)
EXTENDS Integers, Sequences

CONSTANTS
    Cue,          \* sequence of [start, end], in sectors, as in cue order
    Sectors,      \* the sectors the emulator asks for
    Readahead,    \* PREFETCH_READAHEAD_SECTORS
    Stride,       \* what prefetch_next advances by (0x930 in the code)
    Capacity,     \* CACHE_CAPACITY
    IoCanFail     \* may File::open, seek or read return an error

ASSUME CueAssumption ==
    Cue \in Seq([start : Nat, end : Nat])
ASSUME CacheAssumption ==
    /\ Sectors \subseteq Nat
    /\ Readahead \in Nat \ {0}
    /\ Stride \in Nat \ {0}
    /\ Capacity \in Nat /\ Capacity >= Readahead
    /\ IoCanFail \in BOOLEAN

VARIABLES
    reader,      \* the emulator thread: "idle", "waiting" or "woken"
    want,        \* the sector it is reading, or NoRead
    result,      \* what its last read returned
    prefetcher,  \* the prefetch thread: "running", "waiting", "done", "dead"
    prefetch_next, prefetch_remaining,
    sectors,     \* the cache: sector -> contents
    age,         \* how many cached sectors were used after a cached sector
    quit         \* the cache has been dropped

readerVars  == <<reader, want, result>>
requestVars == <<prefetch_next, prefetch_remaining>>
cacheVars   == <<sectors, age>>
threadVars == <<readerVars, prefetcher, requestVars, cacheVars, quit>>

\* The disc promised to the emulator thread; its data is the file's data.
Disc == INSTANCE CdDisc WITH Tracks <- Cue
NoRead == Disc!NoRead

CacheInit ==
    /\ reader = "idle" /\ want = NoRead /\ result = Disc!NoData
    /\ prefetcher = "running"
    /\ prefetch_next = 0 /\ prefetch_remaining = 0
    /\ sectors = <<>> /\ age = <<>>
    /\ quit = FALSE

-----------------------------------------------------------------------------
(* The least recently used cache (the lru crate): get makes a sector the   *)
(* youngest, put adds one and drops the oldest when there is no room,      *)
(* contains does neither.                                                  *)

Cached(s) == s \in DOMAIN sectors

Get(s) ==
    /\ age' = [k \in DOMAIN age |->
                  IF k = s THEN 0
                  ELSE IF age[k] < age[s] THEN age[k] + 1 ELSE age[k]]
    /\ UNCHANGED sectors

\* s is not cached.
Put(s, data) ==
    LET kept == {k \in DOMAIN sectors : age[k] + 1 < Capacity}
    IN  /\ sectors' = [k \in kept \cup {s} |->
                          IF k = s THEN data ELSE sectors[k]]
        /\ age' = [k \in kept \cup {s} |-> IF k = s THEN 0 ELSE age[k] + 1]

-----------------------------------------------------------------------------
(* The emulator thread: CdCache::read_sector and Drop.                     *)

\* notify_one, called by one of the two threads: the other wakes if it waits.
WakePrefetcher == prefetcher' = IF prefetcher = "waiting" THEN "running"
                                ELSE prefetcher
WakeReader     == reader' = IF reader = "waiting" THEN "woken" ELSE reader

\* Mutant: the request is written down but nobody is told.
RequestSilently(s) ==
    /\ prefetch_next' = s
    /\ prefetch_remaining' = Readahead
    /\ UNCHANGED prefetcher

\* The top of the loop: (re)state the request and tell the prefetcher.
Request(s) ==
    /\ prefetch_next' = s
    /\ prefetch_remaining' = Readahead
    /\ WakePrefetcher

\* Mutant: once woken, the newest sector is taken to be the one wanted.
TryReadNewest(s) ==
    /\ Request(s)
    /\ IF Cached(s) \/ (reader = "woken" /\ DOMAIN sectors # {})
       THEN /\ result' = sectors[CHOOSE k \in DOMAIN sectors : age[k] = 0]
            /\ reader' = "idle" /\ want' = NoRead
            /\ UNCHANGED cacheVars
       ELSE /\ reader' = "waiting" /\ want' = s
            /\ UNCHANGED <<cacheVars, result>>
    /\ UNCHANGED quit

\* One turn of the loop: return the sector if it is there, else wait.
TryRead(s) ==
    /\ Request(s)
    /\ IF Cached(s)
       THEN /\ Get(s)
            /\ result' = sectors[s]
            /\ reader' = "idle" /\ want' = NoRead
       ELSE /\ reader' = "waiting" /\ want' = s
            /\ UNCHANGED <<cacheVars, result>>
    /\ UNCHANGED quit

\* A poisoned mutex panics the emulator thread too: no read begins after the
\* prefetcher has died.
BeginRead(s) ==
    /\ reader = "idle" /\ ~quit
    /\ prefetcher # "dead"
    /\ TryRead(s)

ResumeRead ==
    /\ reader = "woken"
    /\ prefetcher # "dead"
    /\ TryRead(want)

\* Drop: the emulator thread owns the cache, so it is not reading.
DropCache ==
    /\ reader = "idle" /\ ~quit
    /\ prefetcher # "dead"
    /\ quit' = TRUE
    /\ WakePrefetcher
    /\ UNCHANGED <<readerVars, requestVars, cacheVars>>

-----------------------------------------------------------------------------
(* The prefetch thread: one turn of the loop of run_prefetcher.            *)

Quit ==
    /\ prefetcher = "running"
    /\ quit
    /\ prefetcher' = "done"
    /\ UNCHANGED <<readerVars, requestVars, cacheVars, quit>>

Sleep ==
    /\ prefetcher = "running" /\ ~quit
    /\ prefetch_remaining = 0
    /\ prefetcher' = "waiting"
    /\ UNCHANGED <<readerVars, requestVars, cacheVars, quit>>

\* Move the request on before serving it; at the end of the disc it is
\* cancelled, whatever was left of it.
Advance ==
    IF Disc!ValidSector(prefetch_next + Stride)
    THEN /\ prefetch_remaining' = prefetch_remaining - 1
         /\ prefetch_next' = prefetch_next + Stride
    ELSE /\ prefetch_remaining' = 0
         /\ UNCHANGED prefetch_next

Skip ==
    /\ prefetcher = "running" /\ ~quit
    /\ prefetch_remaining # 0
    /\ Cached(prefetch_next)
    /\ Advance
    /\ UNCHANGED <<readerVars, prefetcher, cacheVars, quit>>

\* Mutant: the sector stored is the one the request has moved on to.
FetchAdvanced ==
    /\ prefetcher = "running" /\ ~quit
    /\ prefetch_remaining # 0
    /\ ~Cached(prefetch_next)
    /\ Advance
    /\ Put(prefetch_next, Disc!Data(prefetch_next'))
    /\ WakeReader
    /\ UNCHANGED <<want, result, prefetcher, quit>>

\* Mutant: a sector beyond the disc is not stored and wakes nobody.
FetchValidOnly ==
    /\ prefetcher = "running" /\ ~quit
    /\ prefetch_remaining # 0
    /\ ~Cached(prefetch_next)
    /\ Advance
    /\ IF Disc!ValidSector(prefetch_next)
       THEN Put(prefetch_next, Disc!Data(prefetch_next)) /\ WakeReader
       ELSE UNCHANGED <<cacheVars, reader>>
    /\ UNCHANGED <<want, result, prefetcher, quit>>

\* Mutant: the sector is stored and the reader is not told.
FetchSilently ==
    /\ prefetcher = "running" /\ ~quit
    /\ prefetch_remaining # 0
    /\ ~Cached(prefetch_next)
    /\ Advance
    /\ Put(prefetch_next, Disc!Data(prefetch_next))
    /\ UNCHANGED <<reader, want, result, prefetcher, quit>>

\* Read the sector, or note that there is none, and tell the reader.
Fetch ==
    /\ prefetcher = "running" /\ ~quit
    /\ prefetch_remaining # 0
    /\ ~Cached(prefetch_next)
    /\ Advance
    /\ Put(prefetch_next, Disc!Data(prefetch_next))
    /\ WakeReader
    /\ UNCHANGED <<want, result, prefetcher, quit>>

\* An I/O error hits one of the expect()s: the thread is gone, the mutex is
\* poisoned and a reader that waits is never notified.
FetchFails ==
    /\ IoCanFail
    /\ prefetcher = "running" /\ ~quit
    /\ prefetch_remaining # 0
    /\ ~Cached(prefetch_next)
    /\ Disc!ValidSector(prefetch_next)
    /\ Advance
    /\ prefetcher' = "dead"
    /\ UNCHANGED <<readerVars, cacheVars, quit>>

-----------------------------------------------------------------------------
\* Condvar::wait may return without a notification.
SpuriousWakeup ==
    \/ /\ reader = "waiting"
       /\ reader' = "woken"
       /\ UNCHANGED <<want, result, prefetcher, requestVars, cacheVars, quit>>
    \/ /\ prefetcher = "waiting"
       /\ prefetcher' = "running"
       /\ UNCHANGED <<readerVars, requestVars, cacheVars, quit>>

Prefetch == Quit \/ Sleep \/ Skip \/ Fetch \/ FetchFails

CacheNext ==
    \/ \E s \in Sectors : BeginRead(s)
    \/ ResumeRead
    \/ DropCache
    \/ Prefetch
    \/ SpuriousWakeup

\* Both threads keep running; nobody has to read, drop or wake spuriously.
Fairness == WF_threadVars(Prefetch) /\ WF_threadVars(ResumeRead)

CacheSpec == CacheInit /\ [][CacheNext]_threadVars /\ Fairness

-----------------------------------------------------------------------------
(* Properties.                                                             *)

CacheTypeOK ==
    /\ reader \in {"idle", "waiting", "woken"}
    /\ want \in Sectors \cup {NoRead}
    /\ prefetcher \in {"running", "waiting", "done", "dead"}
    /\ prefetch_next \in Nat
    /\ prefetch_remaining \in 0..Readahead
    /\ DOMAIN sectors \subseteq Nat
    /\ age \in [DOMAIN sectors -> 0..(Capacity - 1)]
    /\ quit \in BOOLEAN

\* What is cached is what the disc holds, errors included.
CacheMatchesDisc == \A s \in DOMAIN sectors : sectors[s] = Disc!Data(s)

\* While the reader has not got its sector, the sector is in the cache or is
\* the very next thing the prefetcher will fetch: readahead for the same
\* request never runs over it and never evicts it.
RequestNotForgotten ==
    reader # "idle" /\ prefetcher # "dead" =>
        \/ Cached(want)
        \/ prefetch_next = want /\ prefetch_remaining > 0

\* No lost wakeup: nobody sleeps on the condition variable while what it
\* waits for is there.
NoLostWakeup ==
    /\ reader = "waiting" => ~Cached(want)
    /\ prefetcher = "waiting" => prefetch_remaining = 0 /\ ~quit

\* The emulator thread sees a plain disc.
ImplementsDisc == Disc!Spec

\* Every read returns, unless an I/O error has killed the prefetcher.
ReadsReturn == reader # "idle" ~> (reader = "idle" \/ prefetcher = "dead")

=============================================================================
