------------------------------ MODULE Level2Chunks ------------------------------
(***************************************************************************)
(* AwsLevel2ChunksDataProvider: the two latest volume scans of a radar,     *)
(* from the chunks that are uploaded while the radar scans.                 *)
(*                                                                          *)
(* Scans are stored under a number that goes round from 999 to 1; old ones  *)
(* are removed.  A refresh finds the latest scan by the gap that is left in *)
(* the numbers, and loads the chunks not loaded before of that scan and of  *)
(* the one before it.  A scan is known here by its serial number, which     *)
(* also stands for its time; a chunk is its number, and the last one ends   *)
(* the scan.                                                                *)
(***************************************************************************)
EXTENDS Integers, FiniteSets, FiniteSetsExt

CONSTANTS
    LastNumber,     \* the highest scan number, 999 in the code
    LastChunk,      \* the number of chunks of a scan
    FirstSerial,    \* the scan that is latest when the program starts
    LastSerial,     \* bound: the last scan of the model
    RecentScans,    \* the scans of two hours, for which times are cached
    MaxChunkFails   \* bound on the requests that fail

ASSUME Level2ChunksAssumption ==
    /\ LastNumber \in Nat /\ LastNumber > 2
    /\ LastChunk \in Nat \ {0}
    /\ FirstSerial \in Nat \ {0} /\ LastSerial \in Nat /\ FirstSerial <= LastSerial
    /\ FirstSerial >= RecentScans
    /\ RecentScans \in 1 .. LastNumber - 1
    /\ MaxChunkFails \in Nat

Serials == 1 .. LastSerial
NumberOf(s) == ((s - 1) % LastNumber) + 1

(* A time point that was never set, and a scan number there is not.         *)
NoScan == 0

VARIABLES
    newest,        \* the latest scan
    stored,        \* the scans of which there are objects in the bucket
    chunks,        \* scan -> its chunks that were uploaded
    seen,          \* the latest scan when scans were last listed
    listedLately,  \* whether lastTimeListed_ is less than two minutes ago
    scanTimes,     \* scanTimes_: number -> time, or NoScan
    currentScan,   \* currentScan_
    lastScan,      \* lastScan_
    loads,         \* the loads of a refresh that are still to be done
    refreshing,    \* whether a refresh runs
    chunkFails     \* number of requests that failed so far

bucket == <<newest, stored, chunks>>
times == <<seen, listedLately, scanTimes>>
scans == <<currentScan, lastScan>>
chunkVars == <<bucket, times, scans, loads, refreshing, chunkFails>>

(* ScanRecord: the scan its prefix names, the last chunk loaded (lastKey_,  *)
(* nextFile_ is one more), and whether there is nothing left to load.       *)
NewRecord(s) == [valid |-> TRUE, scan |-> s, lastKey |-> 0, hasAllFiles |-> FALSE]
InvalidRecord == [valid |-> FALSE, scan |-> NoScan, lastKey |-> 0, hasAllFiles |-> FALSE]
ScanRecords ==
    [valid : BOOLEAN, scan : Serials \cup {NoScan}, lastKey : 0 .. LastChunk,
     hasAllFiles : BOOLEAN]

ChunksTypeOK ==
    /\ newest \in Serials
    /\ stored \in SUBSET Serials /\ newest \in stored
    /\ chunks \in [Serials -> SUBSET (1 .. LastChunk)]
    /\ seen \in Serials
    /\ listedLately \in BOOLEAN
    /\ scanTimes \in [1 .. LastNumber -> Serials \cup {NoScan}]
    /\ currentScan \in ScanRecords /\ lastScan \in ScanRecords
    /\ loads \in SUBSET {"current", "last"}
    /\ refreshing \in BOOLEAN
    /\ chunkFails \in 0 .. MaxChunkFails

ChunksInit ==
    /\ newest = FirstSerial
    /\ stored = {s \in 1 .. FirstSerial : s > FirstSerial - (LastNumber - 1)}
    /\ chunks = [s \in Serials |-> IF s = FirstSerial THEN {1}
                                   ELSE IF s \in stored THEN 1 .. LastChunk ELSE {}]
    /\ seen = FirstSerial
    /\ listedLately = FALSE
    /\ scanTimes = [n \in 1 .. LastNumber |-> NoScan]
    /\ currentScan = InvalidRecord
    /\ lastScan = InvalidRecord
    /\ loads = {}
    /\ refreshing = FALSE
    /\ chunkFails = 0

----------------------------------------------------------------------------
(* The bucket.  A scan begins with its first chunk, the others follow in    *)
(* any order, some may be skipped.  Old scans are removed; at least one     *)
(* number is always free: it is the gap.  Fewer scans than there are        *)
(* numbers, which is those of three days, pass between two listings.        *)

BeginScan(removed) ==
    /\ newest < LastSerial
    /\ newest - seen < LastNumber - 2
    /\ LET s == newest + 1
       IN  /\ removed \subseteq stored \ {newest}
           /\ \A x \in stored \ removed : NumberOf(x) \notin {NumberOf(s), NumberOf(s + 1)}
           /\ newest' = s
           /\ stored' = (stored \ removed) \cup {s}
           /\ chunks' = [x \in Serials |-> IF x = s THEN {1}
                                           ELSE IF x \in removed THEN {} ELSE chunks[x]]
    /\ UNCHANGED <<times, scans, loads, refreshing, chunkFails>>

UploadChunk(s, c) ==
    /\ s \in {newest, newest - 1} \cap stored
    /\ c \notin chunks[s]
    /\ chunks' = [chunks EXCEPT ![s] = @ \cup {c}]
    /\ UNCHANGED <<newest, stored, times, scans, loads, refreshing, chunkFails>>

TwoMinutesPass ==
    /\ listedLately
    /\ listedLately' = FALSE
    /\ UNCHANGED <<bucket, seen, scanTimes, scans, loads, refreshing, chunkFails>>

----------------------------------------------------------------------------
(* ListObjects                                                              *)

(* The time of a scan is asked for unless it was cached in the last two     *)
(* hours: the number may have come round.                                   *)
AsksForTime(s) == scanTimes[NumberOf(s)] <= newest - RecentScans
GetScanTime(s) == IF AsksForTime(s) THEN s ELSE scanTimes[NumberOf(s)]

(* Mutant of PossibleLast: the round from the highest number to the first   *)
(* is not looked at.                                                        *)
PossibleLastNoWrap == {s \in stored : \A x \in stored : NumberOf(x) # NumberOf(s) + 1}

(* The scans after which a number is missing.                               *)
PossibleLast ==
    {s \in stored : \A x \in stored : NumberOf(x) # (NumberOf(s) % LastNumber) + 1}

TimesToAsk == {s \in stored : AsksForTime(s)}

(* The latest of the possible ones whose time is known, by time.            *)
LatestOf(S) == CHOOSE s \in S : \A x \in S : GetScanTime(x) <= GetScanTime(s)
LastScanOf(fails) ==
    IF PossibleLast \ fails = {} THEN NoScan ELSE LatestOf(PossibleLast \ fails)

(* Mutant of SecondLast: nothing comes before the first number.             *)
SecondLastNoWrap(s) ==
    IF s = NoScan THEN {} ELSE {x \in stored : NumberOf(x) = NumberOf(s) - 1}

(* The scan with the number before, if it is stored.                        *)
SecondLast(s) ==
    IF s = NoScan THEN {}
    ELSE {x \in stored : NumberOf(x) = IF NumberOf(s) = 1 THEN LastNumber ELSE NumberOf(s) - 1}

SamePrefix(r, s) ==
    IF NoScan \in {r.scan, s} THEN r.scan = s ELSE NumberOf(r.scan) = NumberOf(s)

(* A new latest scan: the current record becomes the last one if it is of   *)
(* the scan before, or if there is none before.                             *)
IsNewLatest(latest) == ~(currentScan.valid /\ SamePrefix(currentScan, latest))
CurrentPrecedes(latest) ==
    currentScan.valid /\ \A x \in SecondLast(latest) : SamePrefix(currentScan, x)

(* The scan for which a last record is made, whose time is asked for too.   *)
NewLast(latest) ==
    IF IsNewLatest(latest) /\ ~CurrentPrecedes(latest) THEN SecondLast(latest) ELSE {}

Rotate(latest) ==
    IF IsNewLatest(latest)
    THEN /\ currentScan' = NewRecord(latest)
         /\ lastScan' = IF CurrentPrecedes(latest) THEN currentScan
                        ELSE IF NewLast(latest) # {}
                             THEN NewRecord(CHOOSE x \in NewLast(latest) : TRUE)
                        ELSE lastScan
    ELSE UNCHANGED scans

(* The listing failed, or is left out: a scan that is not complete is       *)
(* loaded for two minutes before scans are listed again.                    *)
NothingListed == UNCHANGED <<seen, scanTimes, scans>>

Throttled == currentScan.valid /\ ~currentScan.hasAllFiles /\ listedLately

ScansListed(fails) ==
    LET latest == LastScanOf(fails)
        timed == (PossibleLast \cup NewLast(latest)) \ fails
    IN  /\ fails \subseteq PossibleLast \cup NewLast(latest)
        /\ seen' = newest
        /\ scanTimes' = [n \in 1 .. LastNumber |->
              IF \E s \in timed : NumberOf(s) = n
              THEN GetScanTime(CHOOSE s \in timed : NumberOf(s) = n) ELSE scanTimes[n]]
        /\ Rotate(latest)

FailRequests(n) == chunkFails + n <= MaxChunkFails /\ chunkFails' = chunkFails + n

(* Refresh: the listing, unless it is too early for one ...                 *)
BeginChunkRefresh(fails) ==
    /\ ~refreshing
    /\ refreshing' = TRUE
    /\ \/ Throttled /\ NothingListed /\ UNCHANGED <<listedLately, chunkFails>>
       \/ ~Throttled /\ listedLately' = TRUE /\ NothingListed /\ FailRequests(1)
       \/ ~Throttled /\ listedLately' = TRUE /\ ScansListed(fails)
            /\ FailRequests(Cardinality(fails))
    /\ loads' = {x \in {"current", "last"} :
                   IF x = "current" THEN currentScan'.valid ELSE lastScan'.valid}
    /\ UNCHANGED bucket

----------------------------------------------------------------------------
(* LoadScan: the chunks after the last one that was loaded, in order; a     *)
(* scan begins with its first chunk.  The first request that fails ends it. *)

NewChunks(r) ==
    IF r.scan \in stored /\ (r.lastKey > 0 \/ 1 \in chunks[r.scan])
    THEN {c \in chunks[r.scan] : c > r.lastKey} ELSE {}

(* Mutant of Loaded: the key kept is the next one's.                        *)
LoadedNext(r, some) ==
    IF some = {} THEN r
    ELSE [r EXCEPT !.lastKey = Max(some) + 1, !.hasAllFiles = LastChunk \in some]

Loaded(r, some) ==
    IF some = {} THEN r
    ELSE [r EXCEPT !.lastKey = Max(some), !.hasAllFiles = LastChunk \in some]

(* What LoadScan may leave, and the requests that failed: all new chunks    *)
(* loaded, or those before one that failed.                                 *)
LoadScan(r) ==
    IF r.hasAllFiles THEN {<<r, 0>>}
    ELSE {<<Loaded(r, NewChunks(r)), 0>>}
         \cup {<<Loaded(r, {x \in NewChunks(r) : x < c}), 1>> : c \in NewChunks(r)}

LoadCurrentScan ==
    /\ "current" \in loads
    /\ \E result \in LoadScan(currentScan) :
          currentScan' = result[1] /\ FailRequests(result[2])
    /\ loads' = loads \ {"current"}
    /\ UNCHANGED <<bucket, times, lastScan, refreshing>>

(* The last scan: from its chunks if some of them are loaded, else the file *)
(* of the archive if there is one by now, else from its chunks.             *)
LoadLastScan(inArchive) ==
    /\ "last" \in loads
    /\ IF ~lastScan.hasAllFiles /\ lastScan.lastKey = 0 /\ inArchive
       THEN lastScan' = [lastScan EXCEPT !.hasAllFiles = TRUE] /\ UNCHANGED chunkFails
       ELSE \E result \in LoadScan(lastScan) :
               lastScan' = result[1] /\ FailRequests(result[2])
    /\ loads' = loads \ {"last"}
    /\ UNCHANGED <<bucket, times, currentScan, refreshing>>

EndChunkRefresh ==
    /\ refreshing /\ loads = {}
    /\ refreshing' = FALSE
    /\ UNCHANGED <<bucket, times, scans, loads, chunkFails>>

----------------------------------------------------------------------------
ChunkRefreshStep ==
    \/ \E fails \in SUBSET TimesToAsk : BeginChunkRefresh(fails)
    \/ LoadCurrentScan
    \/ \E inArchive \in BOOLEAN : LoadLastScan(inArchive)
    \/ EndChunkRefresh

ChunksNext ==
    \/ \E removed \in SUBSET stored : BeginScan(removed)
    \/ \E s \in Serials, c \in 1 .. LastChunk : UploadChunk(s, c)
    \/ TwoMinutesPass
    \/ ChunkRefreshStep

(* The refresh timer of the product manager refreshes over and over, the    *)
(* requests of a refresh end, and the clock goes on.                        *)
ChunksFairness == WF_chunkVars(TwoMinutesPass) /\ WF_chunkVars(ChunkRefreshStep)

ChunksSpec == ChunksInit /\ [][ChunksNext]_chunkVars /\ ChunksFairness

----------------------------------------------------------------------------
(* Numbers tell the scans of a round apart.  The record of the current scan *)
(* may become older, if the times of later scans cannot be found for long.  *)
CurrentIsOfRound == currentScan.scan = NoScan \/ newest - currentScan.scan < LastNumber

(* A listing, of which no request fails, finds the latest scan and the one  *)
(* before it, wherever the numbers go round, whatever old scans are removed *)
(* and whatever scan of this round was taken for the current one before.    *)
ListingFindsNewest ==
    [][ (/\ ~refreshing /\ refreshing' /\ listedLately' /\ ~Throttled
         /\ chunkFails' = chunkFails /\ CurrentIsOfRound)
        => (/\ currentScan'.valid /\ currentScan'.scan = newest
            /\ (newest - 1 \in stored
                 => /\ lastScan'.valid
                    /\ lastScan'.scan = newest - 1 \/ currentScan'.scan = currentScan.scan))
      ]_chunkVars

(* A scan that is uploaded to its end is loaded to its end, also when       *)
(* chunks come late or not at all, listings are put off, requests fail and  *)
(* a scan whose time was not known was taken for the latest -- unless the   *)
(* next scan begins meanwhile.                                              *)
NewestCompletes ==
    LastChunk \in chunks[newest] /\ newest = LastSerial
        ~> currentScan.scan = newest /\ currentScan.hasAllFiles
=============================================================================
