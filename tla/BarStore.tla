------------------------------ MODULE BarStore ------------------------------
(***************************************************************************)
(* data/harvester/storage.py and the two data handlers in front of it: the *)
(* daily bars of one symbol in the SQLite table, and the processes that    *)
(* download them.  Rows of other symbols and intervals have other keys and *)
(* do not meet these.                                                      *)
(*                                                                         *)
(* A row is stored under the text of its timestamp.  One day has up to     *)
(* three texts: yfinance's naive midnight, Alpaca's midnight in New York   *)
(* with its offset, and that instant read back as naive UTC and stored     *)
(* again by the strategy bank.  A price is reduced to its adjustment: how  *)
(* many corporate actions yfinance had applied to the bar when it was      *)
(* downloaded (auto_adjust rescales the past), or Raw for Alpaca.          *)
(***************************************************************************)
EXTENDS Integers, FiniteSets, Sequences

CONSTANTS Jobs,        \* processes that use the store
          FirstDay,    \* the day the model starts on
          LastDay,     \* and the one it ends on
          Lookback,    \* days a download reaches back (data.yfinance_period)
          ChunkDays,   \* days of one Alpaca request
          MaxAdjust,   \* bound on corporate actions
          Enough,      \* rows from which the bank trusts the store
          None

ASSUME BarAssumption ==
    /\ FirstDay \in Nat \ {0, 1} /\ LastDay \in Nat /\ FirstDay <= LastDay
    /\ {Lookback, ChunkDays, Enough} \subseteq Nat \ {0} /\ MaxAdjust \in Nat

VARIABLES today,      \* the day it is
          adjust,     \* corporate actions yfinance has applied so far
          store,      \* the table: key -> price
          banking,    \* the processes in which the strategy bank asks for bars
          download,   \* Jobs -> the download a process is in, or None
          promised,   \* keys of every completely downloaded window (history)
          refreshed   \* key -> price when the last complete download that had
                      \* the table to itself began (history)

promises == <<promised, refreshed>>
vars == <<today, adjust, store, banking, download, promises>>

Providers == {"yfinance", "alpaca"}
Spellings == {"naive", "aware", "utc"}
Days == 1 .. LastDay
Keys == [day : Days, spelling : Spellings]
Raw == -1
Prices == -1 .. MaxAdjust

Spelling(provider) == IF provider = "alpaca" THEN "aware" ELSE "naive"
PriceNow(provider) == IF provider = "alpaca" THEN Raw ELSE adjust

\* Rows written over a table: new keys are added, known ones replaced.
Over(rows, table) ==
    [k \in DOMAIN rows \cup DOMAIN table |-> IF k \in DOMAIN rows THEN rows[k] ELSE table[k]]

Init ==
    /\ today = FirstDay /\ adjust = 0
    /\ store = <<>> /\ promised = {} /\ refreshed = <<>>
    /\ banking = {} /\ download = [j \in Jobs |-> None]

-----------------------------------------------------------------------------
(* The market *)

NewDay ==
    /\ today < LastDay
    /\ today' = today + 1
    /\ UNCHANGED <<adjust, store, banking, download, promises>>

CorporateAction ==
    /\ adjust < MaxAdjust
    /\ adjust' = adjust + 1
    /\ UNCHANGED <<today, store, banking, download, promises>>

-----------------------------------------------------------------------------
(* Downloads *)

Later(m, n) == IF m < n THEN n ELSE m
Sooner(m, n) == IF m < n THEN m ELSE n

\* The strategy bank asks for bars only when the table holds too little.
BankTrustsStore == Cardinality(DOMAIN store) >= Enough

BankAsks(j) ==
    /\ download[j] = None /\ j \notin banking
    /\ ~BankTrustsStore
    /\ banking' = banking \cup {j}
    /\ UNCHANGED <<today, adjust, store, download, promises>>

\* Sync and fetch_bars always download.  fetch_bars first loads the rows it
\* will answer with should the download bring nothing.
NewDownload(j, provider) ==
    [provider |-> provider, start |-> Later(1, today - Lookback),
     cursor |-> Later(1, today - Lookback), end |-> today, got |-> <<>>,
     loaded |-> IF j \in banking THEN store ELSE <<>>,
     missed |-> FALSE, raised |-> FALSE, stored |-> FALSE, began |-> PriceNow(provider),
     alone |-> \A i \in Jobs : download[i] = None]

\* A download that another one begins beside no longer has the table to itself.
Beside(d) == IF d = None THEN None ELSE [d EXCEPT !.alone = FALSE]

BeginDownload(j, provider) ==
    /\ download[j] = None
    /\ download' = [i \in Jobs |-> IF i = j THEN NewDownload(j, provider)
                                   ELSE Beside(download[i])]
    /\ UNCHANGED <<today, adjust, store, banking, promises>>

\* Alpaca is asked for one window after the other, both ends included;
\* yfinance for everything at once.
ChunkEnd(d) == IF d.provider = "alpaca" THEN Sooner(d.cursor + ChunkDays, d.end) ELSE d.end

NextCursor(d) == ChunkEnd(d)

Unfinished(d) == d # None /\ d.cursor < d.end

\* Days two windows share are kept from the later one.
FetchChunk(j) ==
    LET d == download[j] IN
    /\ Unfinished(d)
    /\ download' = [download EXCEPT
          ![j].got = Over([day \in d.cursor .. ChunkEnd(d) |-> PriceNow(d.provider)], @),
          ![j].cursor = NextCursor(d)]
    /\ UNCHANGED <<today, adjust, store, banking, promises>>

\* A window of Alpaca that fails is skipped; yfinance raises, or answers with
\* an empty frame.
FailChunk(j, raises) ==
    LET d == download[j] IN
    /\ Unfinished(d)
    /\ raises => d.provider = "yfinance"
    /\ download' = [download EXCEPT ![j].cursor = NextCursor(d), ![j].missed = TRUE,
                                    ![j].raised = raises]
    /\ UNCHANGED <<today, adjust, store, banking, promises>>

Downloaded(j) == download[j] # None /\ ~Unfinished(download[j])

\* The process is killed, or the exception leaves the caller: nothing has
\* been stored.
Abandon(j) ==
    /\ download[j] # None
    /\ download' = [download EXCEPT ![j] = None]
    /\ banking' = banking \ {j}
    /\ UNCHANGED <<today, adjust, store, promises>>

-----------------------------------------------------------------------------
(* The table *)

\* upsert_bars: INSERT ... ON CONFLICT DO UPDATE
Upserted(rows) == Over(rows, store)

KeysOf(days, provider) == [day : days, spelling : {Spelling(provider)}]

DownloadedRows(j) ==
    LET d == download[j] IN
    [k \in KeysOf(DOMAIN d.got, d.provider) |-> d.got[k.day]]

\* The upsert of fetch_bars and sync_universe, at the end of a download.
Upsert(j) ==
    LET d == download[j]
        window == KeysOf(d.start .. d.end, d.provider) IN
    /\ Downloaded(j) /\ ~d.raised /\ ~d.stored
    /\ j \in banking => d.got # <<>>
    /\ store' = Upserted(DownloadedRows(j))
    /\ promised' = IF d.missed THEN promised ELSE promised \cup window
    /\ refreshed' = IF d.missed \/ ~d.alone THEN refreshed
                    ELSE Over([k \in window |-> d.began], refreshed)
    /\ download' = [download EXCEPT ![j] = IF j \in banking THEN [d EXCEPT !.stored = TRUE]
                                           ELSE None]
    /\ UNCHANGED <<today, adjust, banking>>

-----------------------------------------------------------------------------
(* The strategy bank *)

\* Parsed as UTC and stripped of it, a timestamp that had an offset has
\* another text.
Reread(k) == IF k.spelling = "aware" THEN [k EXCEPT !.spelling = "utc"] ELSE k

\* The rows loaded from the table as they are stored again; of two that now
\* have one text the later one stays.
WrittenBack(rows) ==
    [k \in {Reread(l) : l \in DOMAIN rows} |->
        IF k \in DOMAIN rows THEN rows[k] ELSE rows[[k EXCEPT !.spelling = "aware"]]]

\* What fetch_bars answers with: the rows it has just stored, or, when the
\* download brought nothing, those it loaded before it.
Answer_Stored(j) == WrittenBack(download[j].loaded)
Answer(j) ==
    IF download[j].stored THEN DownloadedRows(j) ELSE WrittenBack(download[j].loaded)

\* _load_bars stores the answer, a second time if it was downloaded.
WriteBack(j) ==
    LET d == download[j] IN
    /\ j \in banking /\ Downloaded(j) /\ ~d.raised
    /\ d.stored \/ d.got = <<>>
    /\ store' = Upserted(Answer(j))
    /\ download' = [download EXCEPT ![j] = None]
    /\ banking' = banking \ {j}
    /\ UNCHANGED <<today, adjust, promises>>

\* ORDER BY timestamp: the order load_bars returns the texts of one day in.
Place(spelling) ==
    CASE spelling = "naive" -> 0 [] spelling = "aware" -> 1 [] spelling = "utc" -> 2

TextBefore(k, l) ==
    k.day < l.day \/ (k.day = l.day /\ Place(k.spelling) < Place(l.spelling))

\* Parsed as UTC, midnight in New York is some hours into the day.
Hour(k) == IF k.spelling = "naive" THEN 0 ELSE 4

\* The timestamp a row is grouped under.
Normalized_KeepHour(k) == <<k.day, Hour(k)>>
Normalized(k) == <<k.day, 0>>

Group(stamp) == {k \in DOMAIN store : Normalized(k) = stamp}
Groups == {Group(Normalized(k)) : k \in DOMAIN store}

First(keys) == CHOOSE k \in keys : \A l \in keys : ~TextBefore(l, k)
Last(keys) == CHOOSE k \in keys : \A l \in keys : ~TextBefore(k, l)

\* _dedupe_daily_bars of load_bars: the rows of a group are merged into one, in
\* the order they were loaded in.
DailyBars ==
    {[day |-> First(keys).day, hour |-> Normalized(First(keys))[2],
      open |-> store[First(keys)], close |-> store[Last(keys)],
      volumes |-> Cardinality(keys)] : keys \in Groups}

-----------------------------------------------------------------------------
Next ==
    \/ NewDay \/ CorporateAction
    \/ \E j \in Jobs :
          \/ BankAsks(j) \/ \E provider \in Providers : BeginDownload(j, provider)
          \/ FetchChunk(j) \/ (\E raises \in BOOLEAN : FailChunk(j, raises))
          \/ Upsert(j) \/ WriteBack(j) \/ Abandon(j)

Spec == Init /\ [][Next]_vars

-----------------------------------------------------------------------------
(* Properties *)

\* A table, or the rows of a frame.
Rows(f) == DOMAIN f \subseteq Keys /\ \A k \in DOMAIN f : f[k] \in Prices

TypeOK ==
    /\ today \in FirstDay .. LastDay /\ adjust \in 0 .. MaxAdjust
    /\ Rows(store) /\ Rows(refreshed) /\ promised \subseteq Keys
    /\ banking \subseteq Jobs
    /\ \A j \in Jobs : download[j] # None =>
          LET d == download[j] IN
          /\ d.provider \in Providers /\ {d.start, d.cursor, d.end} \subseteq Days
          /\ DOMAIN d.got \subseteq Days /\ \A day \in DOMAIN d.got : d.got[day] \in Prices
          /\ Rows(d.loaded) /\ d.began \in Prices
          /\ {d.missed, d.raised, d.stored, d.alone} \subseteq BOOLEAN

(***************************************************************************)
(* Once a download without a failed window has been stored, every bar of   *)
(* its window is in the table for good, whatever windows other downloads   *)
(* miss and whatever older rows other processes store; and when it had the *)
(* table to itself no bar of its window is ever at an older price again,   *)
(* neither by a later download nor by rows the bank loaded before one      *)
(* (fetch_historical_bars, lines 162-205; upsert_bars; bank.py:60-61).     *)
(***************************************************************************)
CompleteDownloadHeals ==
    /\ promised \subseteq DOMAIN store
    /\ \A k \in DOMAIN refreshed : store[k] >= refreshed[k]

(***************************************************************************)
(* "Ensure one OHLCV row per normalized day" (bank.py:78): of a table that *)
(* holds a day under up to three texts the bank gets every stored day      *)
(* once, with an open and a close that were stored for that day.           *)
(***************************************************************************)
Stored(day) == {store[k] : k \in {l \in DOMAIN store : l.day = day}}

BankHasOneRowPerDay ==
    /\ {row.day : row \in DailyBars} = {k.day : k \in DOMAIN store}
    /\ \A row, other \in DailyBars : row.day = other.day => row = other
    /\ \A row \in DailyBars : {row.open, row.close} \subseteq Stored(row.day)
=============================================================================
