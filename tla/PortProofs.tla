------------------------------- MODULE PortProofs -------------------------------
(***************************************************************************)
(* The two ports of core/interfaces.py that hold state of their own: the   *)
(* bar store behind AbstractDataHandler and the simulated book behind      *)
(* AbstractExecutionHandler.                                               *)
(*                                                                         *)
(* A complete download heals its window, for any number of processes, days *)
(* and corporate actions: the invariant says what a download has in hand   *)
(* (no day it has passed is missing unless a window failed, no price is    *)
(* older than the download), that prices of Alpaca never change, that a    *)
(* yfinance download has everything or nothing, and that whoever is at     *)
(* work holds nothing older than what a download on its own has stored.    *)
(* The bank gets every stored day once, because a row's text is one of     *)
(* three.                                                                  *)
(*                                                                         *)
(* An order of the simulated book fills once at most, never after it was   *)
(* cancelled, and no bar passes over one that was in the list it walked.    *)
(***************************************************************************)
EXTENDS BarStore, BacktestExecution, SequenceTheorems, FiniteSetTheorems, TLAPS

\* Rows under the texts of a table; Alpaca's prices never change.
SoundRows(f) ==
    \A k \in DOMAIN f : /\ k \in [day : Nat, spelling : Spellings]
                        /\ k.spelling = "naive" => f[k] \in Int
                        /\ k.spelling = "aware" => f[k] = Raw

\* Of a download d, when yfinance has applied so many corporate actions.
DownloadInv(d, applied) ==
    /\ DOMAIN d = {"provider", "start", "cursor", "end", "got", "loaded", "missed", "raised",
                   "stored", "began", "alone"}
    /\ d.provider \in Providers
    /\ d.start \in Nat /\ d.cursor \in Nat /\ d.end \in Nat
    /\ d.start < d.end /\ d.start <= d.cursor /\ d.cursor <= d.end
    /\ d.missed \in BOOLEAN /\ d.alone \in BOOLEAN /\ d.stored \in BOOLEAN
    /\ d.began \in Int
    /\ d.provider = "alpaca" => d.began = Raw
    /\ d.provider = "yfinance" => d.began <= applied
    /\ SoundRows(d.loaded)
    /\ DOMAIN d.got \subseteq d.start .. d.cursor
    /\ \A day \in DOMAIN d.got : d.got[day] \in Int /\ d.got[day] >= d.began
    /\ d.provider = "alpaca" => \A day \in DOMAIN d.got : d.got[day] = Raw
    /\ d.cursor = d.start => DOMAIN d.got = {} /\ ~d.missed
    /\ d.cursor > d.start /\ ~d.missed => d.start .. d.cursor \subseteq DOMAIN d.got
    /\ d.provider = "yfinance" => d.cursor \in {d.start, d.end}
    /\ d.provider = "yfinance" /\ d.missed => DOMAIN d.got = {}

DownloadsInv == \A j \in Jobs : download[j] # None => DownloadInv(download[j], adjust)

TimeInv ==
    /\ today \in Nat /\ today >= FirstDay /\ adjust \in Nat
    /\ download = [j \in Jobs |-> download[j]]

\* What has been refreshed has been promised, and no later than now.
RefreshedInv ==
    /\ DOMAIN refreshed \subseteq promised
    /\ \A k \in DOMAIN refreshed :
          /\ k.spelling \in {"naive", "aware"} /\ refreshed[k] \in Int
          /\ k.spelling = "aware" => refreshed[k] = Raw
          /\ k.spelling = "naive" => refreshed[k] <= adjust

\* Neither what a download d may still fetch nor what it may fall back on is
\* older than what has been refreshed.
NoOlder(d) ==
    \A k \in DOMAIN refreshed :
        k.spelling = "naive" =>
            /\ d.provider = "yfinance" => refreshed[k] <= d.began
            /\ ~d.stored /\ k \in DOMAIN d.loaded => refreshed[k] <= d.loaded[k]

\* That holds of every process; a download that is alone has no other beside it.
FreshInv ==
    \A j \in Jobs :
        download[j] # None =>
            /\ NoOlder(download[j])
            /\ download[j].alone => \A i \in Jobs : i # j => download[i] = None

\* Every row is stored under one of the three texts of its day.
KeysInv == DOMAIN store \subseteq [day : Nat, spelling : Spellings]

TableInv == SoundRows(store) /\ RefreshedInv /\ CompleteDownloadHeals

BarInv == TimeInv /\ DownloadsInv /\ TableInv /\ FreshInv

-----------------------------------------------------------------------------
(* Rows, windows and prices *)

(***************************************************************************)
(* The rows a download stores: one for each day in hand, under the text of *)
(* its provider.                                                           *)
(***************************************************************************)
LEMMA KeysOfDays ==
    ASSUME NEW days, NEW provider, NEW k \in KeysOf(days, provider)
    PROVE  k.day \in days /\ k.spelling = Spelling(provider)
BY DEF KeysOf

(***************************************************************************)
(* A download under way asks for a window that ends after its cursor and   *)
(* no later than the download.                                             *)
(***************************************************************************)
LEMMA WindowMoves ==
    ASSUME NEW d, NEW n, DownloadInv(d, n), Unfinished(d)
    PROVE  /\ ChunkEnd(d) \in Nat /\ d.cursor < ChunkEnd(d) /\ ChunkEnd(d) <= d.end
           /\ NextCursor(d) = ChunkEnd(d)
           /\ d.provider = "yfinance" => ChunkEnd(d) = d.end /\ d.cursor = d.start
BY BarAssumption DEF DownloadInv, Unfinished, ChunkEnd, NextCursor, Sooner, Providers

(***************************************************************************)
(* A price stays valid for a download while corporate actions happen.      *)
(***************************************************************************)
LEMMA DownloadStands ==
    ASSUME NEW d, NEW n \in Nat, NEW m \in Nat, n <= m, DownloadInv(d, n)
    PROVE  DownloadInv(d, m)
BY DEF DownloadInv

\* What a later step of a download leaves alone.
SameStart(new, d) ==
    /\ new.provider = d.provider /\ new.start = d.start /\ new.end = d.end
    /\ new.began = d.began /\ new.loaded = d.loaded
    /\ new.stored = d.stored /\ new.alone = d.alone

\* What a download has in hand after a window that ends at c.
Advanced(new, d, got, c) ==
    /\ c \in Nat /\ d.start < c /\ d.cursor < c /\ c <= d.end
    /\ DOMAIN new = DOMAIN d
    /\ SameStart(new, d) /\ new.missed = d.missed /\ new.cursor = c /\ new.got = got
    /\ d.provider = "yfinance" => c = d.end /\ ~d.missed
    /\ DOMAIN got \subseteq d.start .. c
    /\ \A day \in DOMAIN got : got[day] \in Int /\ got[day] >= d.began
    /\ d.provider = "alpaca" => \A day \in DOMAIN got : got[day] = Raw
    /\ ~d.missed => d.start .. c \subseteq DOMAIN got

\* A download that has taken one more window is as it should be.
LEMMA WindowInHand ==
    ASSUME NEW d, NEW n, DownloadInv(d, n), NEW c, NEW got, NEW new, Advanced(new, d, got, c)
    PROVE  DownloadInv(new, n)
BY DEF DownloadInv, Advanced, SameStart

\* A download after a window that arrived at a price, and after one that failed.
Fetched(d, price) ==
    [d EXCEPT !.got = Over([day \in d.cursor .. ChunkEnd(d) |-> price], @),
              !.cursor = NextCursor(d)]
Failed(d, raises) == [d EXCEPT !.cursor = NextCursor(d), !.missed = TRUE, !.raised = raises]

(***************************************************************************)
(* A window that arrives covers the days from the cursor to its own end.   *)
(***************************************************************************)
LEMMA WindowArrives ==
    ASSUME NEW d, NEW n, DownloadInv(d, n), Unfinished(d),
           NEW price \in Int, price >= d.began, d.provider = "alpaca" => price = Raw
    PROVE  DownloadInv(Fetched(d, price), n) /\ SameStart(Fetched(d, price), d)
<1> DEFINE got == Over([day \in d.cursor .. ChunkEnd(d) |-> price], d.got)
           new == [d EXCEPT !.got = got, !.cursor = NextCursor(d)]
<1>0. new = Fetched(d, price)
  BY Zenon DEF Fetched
<1>1. /\ ChunkEnd(d) \in Nat /\ d.cursor < ChunkEnd(d) /\ ChunkEnd(d) <= d.end
      /\ NextCursor(d) = ChunkEnd(d)
      /\ d.provider = "yfinance" => ChunkEnd(d) = d.end /\ d.cursor = d.start
  BY WindowMoves
<1>2. /\ DOMAIN new = DOMAIN d /\ SameStart(new, d) /\ new.missed = d.missed
      /\ new.cursor = ChunkEnd(d) /\ new.got = got
  BY <1>1 DEF DownloadInv, SameStart
<1>3. /\ DOMAIN got = (d.cursor .. ChunkEnd(d)) \cup DOMAIN d.got
      /\ \A day \in DOMAIN got : got[day] = price \/ (day \in DOMAIN d.got /\ got[day] = d.got[day])
  BY DEF Over
<1> HIDE DEF got, new
<1>4. DOMAIN got \subseteq d.start .. ChunkEnd(d)
  BY <1>1, <1>3 DEF DownloadInv
<1>5. \A day \in DOMAIN got : /\ got[day] \in Int /\ got[day] >= d.began
                              /\ d.provider = "alpaca" => got[day] = Raw
  BY <1>3 DEF DownloadInv
<1>6. ~d.missed => d.start .. ChunkEnd(d) \subseteq DOMAIN got
  BY <1>1, <1>3 DEF DownloadInv
<1>7. d.provider = "yfinance" => ~d.missed
  BY <1>1 DEF DownloadInv
<1>8. ChunkEnd(d) \in Nat /\ d.start < ChunkEnd(d)
  BY <1>1 DEF DownloadInv
<1>9. Advanced(new, d, got, ChunkEnd(d))
  BY <1>1, <1>2, <1>4, <1>5, <1>6, <1>7, <1>8 DEF Advanced
<1> QED  BY <1>0, <1>2, <1>9, WindowInHand

(***************************************************************************)
(* A window that fails leaves what there is; of yfinance that is nothing.  *)
(***************************************************************************)
LEMMA WindowFails ==
    ASSUME NEW d, NEW n, DownloadInv(d, n), Unfinished(d), NEW raises
    PROVE  DownloadInv(Failed(d, raises), n) /\ SameStart(Failed(d, raises), d)
<1> DEFINE new == [d EXCEPT !.cursor = NextCursor(d), !.missed = TRUE, !.raised = raises]
<1>0. new = Failed(d, raises)
  BY Zenon DEF Failed
<1>1. /\ ChunkEnd(d) \in Nat /\ d.cursor < ChunkEnd(d) /\ ChunkEnd(d) <= d.end
      /\ NextCursor(d) = ChunkEnd(d)
      /\ d.provider = "yfinance" => ChunkEnd(d) = d.end /\ d.cursor = d.start
  BY WindowMoves
<1>2. /\ DOMAIN new = DOMAIN d /\ SameStart(new, d) /\ new.missed = TRUE
      /\ new.cursor = ChunkEnd(d) /\ new.got = d.got
  BY <1>1 DEF DownloadInv, SameStart
<1>3. DOMAIN d.got \subseteq d.start .. ChunkEnd(d)
  BY <1>1 DEF DownloadInv
<1> QED
  <2> HIDE DEF new
  <2>1. new.missed \in BOOLEAN
    BY <1>2
  <2>2. new.provider \in Providers /\ new.alone \in BOOLEAN /\ new.stored \in BOOLEAN
    BY <1>2 DEF DownloadInv, SameStart
  <2>3. new.start < new.cursor /\ new.cursor <= new.end
    BY <1>1, <1>2 DEF DownloadInv, SameStart
  <2>4. SoundRows(new.loaded) /\ DOMAIN new.got \subseteq new.start .. new.cursor
    BY <1>2, <1>3 DEF DownloadInv, SameStart
  <2>5. new.provider = "yfinance" => DOMAIN new.got = {} /\ new.cursor = new.end
    BY <1>1, <1>2 DEF DownloadInv, SameStart
  <2>6. DownloadInv(new, n)
    BY <1>1, <1>2, <2>1, <2>2, <2>3, <2>4, <2>5 DEF DownloadInv, SameStart
  <2> QED
    BY <1>0, <1>2, <2>6

-----------------------------------------------------------------------------
LEMMA BarInit == Init => BarInv
BY BarAssumption DEF Init, BarInv, TimeInv, DownloadsInv, TableInv, SoundRows, RefreshedInv,
   FreshInv, CompleteDownloadHeals

(***************************************************************************)
(* A step of one process that leaves the promises alone keeps what is said *)
(* of the processes, when what this one then has in hand is sound and it   *)
(* began as it did.                                                        *)
(***************************************************************************)
LEMMA OneDownload ==
    ASSUME BarInv, NEW j \in Jobs, NEW new,
           download' = [download EXCEPT ![j] = new],
           new # None => /\ DownloadInv(new, adjust) /\ download[j] # None
                         /\ new.alone = download[j].alone /\ NoOlder(new),
           UNCHANGED <<today, adjust, refreshed>>
    PROVE  TimeInv' /\ DownloadsInv' /\ FreshInv'
<1>1. TimeInv'
  BY DEF BarInv, TimeInv
<1>2. \A i \in Jobs : download'[i] = IF i = j THEN new ELSE download[i]
  BY DEF BarInv, TimeInv
<1>3. ASSUME NEW i \in Jobs, download'[i] # None  PROVE DownloadInv(download'[i], adjust)
  BY <1>2, <1>3 DEF BarInv, DownloadsInv
<1>4. ASSUME NEW i \in Jobs, download'[i] # None
      PROVE  /\ NoOlder(download'[i])
             /\ download'[i].alone => \A l \in Jobs : l # i => download'[l] = None
  BY <1>2, <1>4 DEF BarInv, FreshInv
<1> QED
  BY <1>1, <1>3, <1>4 DEF DownloadsInv, FreshInv, NoOlder

\* A download keeps its distance from what was refreshed as long as it is the same.
LEMMA SameIsNoOlder ==
    ASSUME NEW new, NEW d, SameStart(new, d), NoOlder(d)
    PROVE  NoOlder(new)
BY DEF SameStart, NoOlder

(***************************************************************************)
(* Untouched tables stay as sound as they were, whatever time it is.       *)
(***************************************************************************)
LEMMA TablesStand ==
    ASSUME BarInv, UNCHANGED <<store, promised, refreshed>>, adjust' \in Nat, adjust' >= adjust
    PROVE  TableInv'
BY DEF BarInv, TimeInv, TableInv, SoundRows, RefreshedInv, CompleteDownloadHeals

(***************************************************************************)
(* A download begins with nothing in hand, before the day it ends on; what *)
(* it may fall back on is the table, and it is no longer alone when there  *)
(* are others.                                                             *)
(***************************************************************************)
LEMMA BeginStep ==
    ASSUME BarInv, NEW j \in Jobs, NEW provider \in Providers, BeginDownload(j, provider)
    PROVE  BarInv'
<1> DEFINE new == NewDownload(j, provider)
<1>1. /\ new.start \in Nat /\ new.start < today /\ today \in Nat
      /\ new.cursor = new.start /\ new.end = today /\ DOMAIN new.got = {}
  BY BarAssumption DEF BarInv, TimeInv, Later, NewDownload
<1>2. /\ new.began \in Int
      /\ provider = "alpaca" => new.began = Raw
      /\ provider = "yfinance" => new.began = adjust /\ new.began <= adjust
  BY DEF PriceNow, Raw, BarInv, TimeInv, NewDownload
<1>3. SoundRows(new.loaded) /\ (new.loaded = store \/ DOMAIN new.loaded = {})
  BY DEF NewDownload, SoundRows, BarInv, TableInv
<1>4. /\ new.provider = provider /\ new.missed = FALSE /\ new.stored = FALSE
      /\ new.alone = (\A i \in Jobs : download[i] = None)
      /\ DOMAIN new = {"provider", "start", "cursor", "end", "got", "loaded", "missed", "raised",
                       "stored", "began", "alone"}
  BY DEF NewDownload
<1>5. DownloadInv(new, adjust)
  <2>1. new.alone \in BOOLEAN /\ new.missed \in BOOLEAN /\ new.stored \in BOOLEAN
    BY ZenonT(30) DEF NewDownload
  <2> HIDE DEF new
  <2>2. new.start <= new.cursor /\ new.cursor <= new.end /\ new.start < new.end
    BY <1>1
  <2> QED
    BY <1>1, <1>2, <1>3, <1>4, <2>1, <2>2 DEF DownloadInv
<1> HIDE DEF new
<1>6. NoOlder(new)
  BY <1>2, <1>3, <1>4 DEF NoOlder, BarInv, TableInv, RefreshedInv, CompleteDownloadHeals
<1>7. /\ \A i \in Jobs : download'[i] = IF i = j THEN new ELSE Beside(download[i])
      /\ download' = [i \in Jobs |-> download'[i]]
      /\ UNCHANGED <<today, adjust, store, promised, refreshed>>
  BY DEF BeginDownload, promises, new
<1>8. ASSUME NEW d, d # None, DownloadInv(d, adjust), NoOlder(d)
      PROVE  /\ DownloadInv(Beside(d), adjust) /\ NoOlder(Beside(d)) /\ ~Beside(d).alone
  <2>1. PICK e : e = [d EXCEPT !.alone = FALSE]
    OBVIOUS
  <2>2. /\ DOMAIN e = DOMAIN d /\ e.alone = FALSE
        /\ e.provider = d.provider /\ e.start = d.start /\ e.end = d.end /\ e.cursor = d.cursor
        /\ e.began = d.began /\ e.loaded = d.loaded /\ e.stored = d.stored
        /\ e.missed = d.missed /\ e.got = d.got
    BY <1>8, <2>1 DEF DownloadInv
  <2>3. DownloadInv(e, adjust)
    BY <1>8, <2>2 DEF DownloadInv
  <2>4. NoOlder(e)
    BY <1>8, <2>2 DEF NoOlder
  <2> QED
    BY <1>8, <2>1, <2>2, <2>3, <2>4 DEF Beside
<1>9. TimeInv'
  BY <1>7 DEF BarInv, TimeInv
<1>10. ASSUME NEW i \in Jobs, download'[i] # None
       PROVE  /\ DownloadInv(download'[i], adjust) /\ NoOlder(download'[i])
              /\ download'[i].alone => \A l \in Jobs : l # i => download'[l] = None
  <2>1. CASE i = j
    BY <1>4, <1>5, <1>6, <1>7, <2>1 DEF Beside
  <2>2. CASE i # j
    <3>1. download'[i] = Beside(download[i]) /\ download[i] # None
      BY <1>7, <1>10, <2>2 DEF Beside
    <3> QED
      BY <1>8, <3>1 DEF BarInv, DownloadsInv, FreshInv
  <2> QED
    BY <2>1, <2>2
<1>11. DownloadsInv' /\ FreshInv'
  BY <1>7, <1>10 DEF DownloadsInv, FreshInv, NoOlder
<1>12. TableInv'
  BY <1>7, TablesStand DEF BarInv, TimeInv
<1> QED
  BY <1>9, <1>11, <1>12 DEF BarInv

(***************************************************************************)
(* Windows arrive, at the price of the moment.                             *)
(***************************************************************************)
LEMMA FetchStep ==
    ASSUME BarInv, NEW j \in Jobs, FetchChunk(j)
    PROVE  BarInv'
<1> DEFINE d == download[j]
           new == Fetched(d, PriceNow(d.provider))
<1>1. d # None /\ Unfinished(d) /\ DownloadInv(d, adjust) /\ NoOlder(d)
  BY DEF FetchChunk, Unfinished, BarInv, DownloadsInv, FreshInv
<1>2. /\ PriceNow(d.provider) \in Int /\ PriceNow(d.provider) >= d.began
      /\ d.provider = "alpaca" => PriceNow(d.provider) = Raw
  BY <1>1 DEF DownloadInv, PriceNow, Raw, Providers, BarInv, TimeInv
<1>3. DownloadInv(new, adjust) /\ SameStart(new, d)
  BY <1>1, <1>2, WindowArrives
<1>4. /\ download' = [download EXCEPT ![j] = new]
      /\ UNCHANGED <<today, adjust, store, promised, refreshed>>
  BY DEF FetchChunk, Fetched, promises, BarInv, TimeInv
<1> HIDE DEF new
<1>5. NoOlder(new) /\ new.alone = d.alone
  BY <1>1, <1>3, SameIsNoOlder DEF SameStart
<1> QED
  BY <1>1, <1>3, <1>4, <1>5, OneDownload, TablesStand DEF BarInv, TimeInv

(***************************************************************************)
(* Windows fail.                                                           *)
(***************************************************************************)
LEMMA FailStep ==
    ASSUME BarInv, NEW j \in Jobs, NEW raises, FailChunk(j, raises)
    PROVE  BarInv'
<1> DEFINE d == download[j]
           new == Failed(d, raises)
<1>1. d # None /\ Unfinished(d) /\ DownloadInv(d, adjust) /\ NoOlder(d)
  BY DEF FailChunk, Unfinished, BarInv, DownloadsInv, FreshInv
<1>2. DownloadInv(new, adjust) /\ SameStart(new, d)
  BY <1>1, WindowFails
<1>3. /\ download' = [download EXCEPT ![j] = new]
      /\ UNCHANGED <<today, adjust, store, promised, refreshed>>
  BY DEF FailChunk, Failed, promises, BarInv, TimeInv
<1> HIDE DEF new
<1>4. NoOlder(new) /\ new.alone = d.alone
  BY <1>1, <1>2, SameIsNoOlder DEF SameStart
<1> QED
  BY <1>1, <1>2, <1>3, <1>4, OneDownload, TablesStand DEF BarInv, TimeInv

(***************************************************************************)
(* The rows of a download: none older than when it began, and all of its   *)
(* window when none of it failed.                                          *)
(***************************************************************************)
LEMMA RowsInHand ==
    ASSUME NEW j \in Jobs, DownloadInv(download[j], adjust), adjust \in Nat
    PROVE  LET d == download[j]  rows == DownloadedRows(j) IN
           /\ SoundRows(rows)
           /\ \A k \in DOMAIN rows : rows[k] \in Int /\ rows[k] >= d.began
           /\ \A k \in DOMAIN rows : k.spelling = Spelling(d.provider)
           /\ d.cursor = d.end /\ ~d.missed => DOMAIN rows = KeysOf(d.start .. d.end, d.provider)
<1> DEFINE d == download[j]
           rows == DownloadedRows(j)
<1>1. /\ DOMAIN rows = KeysOf(DOMAIN d.got, d.provider)
      /\ \A k \in DOMAIN rows : rows[k] = d.got[k.day]
  BY DEF DownloadedRows
<1>2. \A k \in DOMAIN rows :
         /\ k.day \in DOMAIN d.got /\ k.spelling = Spelling(d.provider)
         /\ rows[k] \in Int /\ rows[k] >= d.began
         /\ d.provider = "alpaca" => rows[k] = Raw
  BY <1>1, KeysOfDays DEF DownloadInv
<1>3. Spelling(d.provider) \in Spellings /\ (Spelling(d.provider) = "aware" <=> d.provider = "alpaca")
  BY DEF Spelling, Spellings, DownloadInv, Providers
<1>4. \A k \in DOMAIN rows : k \in [day : Nat, spelling : Spellings]
  <2>1. DOMAIN d.got \subseteq Nat
    BY DEF DownloadInv
  <2> QED
    BY <1>1, <1>3, <2>1 DEF KeysOf
<1>5. ASSUME d.cursor = d.end, ~d.missed  PROVE DOMAIN rows = KeysOf(d.start .. d.end, d.provider)
  <2>1. d.start .. d.end = DOMAIN d.got
    BY <1>5 DEF DownloadInv
  <2> QED
    BY <1>1, <2>1
<1> HIDE DEF rows
<1>6. SoundRows(rows)
  BY <1>2, <1>3, <1>4 DEF SoundRows
<1> QED
  BY <1>2, <1>5, <1>6 DEF rows

\* A table h in which rows f have been written over a table g.
WrittenOver(h, f, g) ==
    /\ SoundRows(h) /\ DOMAIN h = DOMAIN f \cup DOMAIN g
    /\ \A k \in DOMAIN f : h[k] = f[k]
    /\ \A k \in DOMAIN g \ DOMAIN f : h[k] = g[k]

\* Rows of one table over another are sound when both are.
LEMMA OverIsSound ==
    ASSUME NEW f, NEW g, SoundRows(f), SoundRows(g)
    PROVE  WrittenOver(Over(f, g), f, g)
BY DEF Over, SoundRows, WrittenOver

(***************************************************************************)
(* Rows that are no older than what was refreshed may be stored.           *)
(***************************************************************************)
LEMMA StoreKeeps ==
    ASSUME BarInv, NEW rows, SoundRows(rows), store' = Over(rows, store),
           \A k \in DOMAIN rows \cap DOMAIN refreshed : k.spelling = "naive" => rows[k] >= refreshed[k],
           UNCHANGED <<adjust, refreshed>>,
           promised' = promised \/ promised' = promised \cup DOMAIN rows
    PROVE  TableInv'
<1> SoundRows(store)
  BY DEF BarInv, TableInv
<1>0. WrittenOver(store', rows, store)
  BY OverIsSound
<1>1. /\ SoundRows(store') /\ DOMAIN store' = DOMAIN rows \cup DOMAIN store
      /\ \A k \in DOMAIN rows : store'[k] = rows[k]
      /\ \A k \in DOMAIN store \ DOMAIN rows : store'[k] = store[k]
  BY <1>0 DEF WrittenOver
<1>2. \A k \in DOMAIN refreshed : store'[k] >= refreshed[k]
  <2> SUFFICES ASSUME NEW k \in DOMAIN refreshed PROVE store'[k] >= refreshed[k]
    OBVIOUS
  <2>1. /\ k \in DOMAIN store /\ store[k] >= refreshed[k] /\ k.spelling \in {"naive", "aware"}
        /\ k.spelling = "aware" => refreshed[k] = Raw
    BY DEF BarInv, TableInv, CompleteDownloadHeals, RefreshedInv
  <2>2. k \in DOMAIN rows /\ k.spelling = "aware" => rows[k] = Raw
    BY DEF SoundRows
  <2> QED
    BY <1>1, <2>1, <2>2 DEF Raw
<1>3. promised' \subseteq DOMAIN store' /\ promised \subseteq promised'
  BY <1>1 DEF BarInv, TableInv, CompleteDownloadHeals
<1>4. CompleteDownloadHeals'
  BY <1>2, <1>3 DEF CompleteDownloadHeals
<1>5. RefreshedInv'
  BY <1>3 DEF BarInv, TableInv, RefreshedInv
<1>6. SoundRows(store)'
  BY <1>1 DEF SoundRows
<1> QED
  BY <1>4, <1>5, <1>6 DEF TableInv

(***************************************************************************)
(* The end of a download: its rows replace those of its window, and when   *)
(* none of its windows failed all of them are there.                       *)
(***************************************************************************)
LEMMA UpsertStep ==
    ASSUME BarInv, NEW j \in Jobs, Upsert(j)
    PROVE  BarInv'
<1> DEFINE d == download[j]
           rows == DownloadedRows(j)
           window == KeysOf(d.start .. d.end, d.provider)
           fresh == [k \in window |-> d.began]
           new == IF j \in banking THEN [d EXCEPT !.stored = TRUE] ELSE None
<1>1. d # None /\ DownloadInv(d, adjust) /\ d.cursor = d.end /\ NoOlder(d)
  BY DEF Upsert, Downloaded, Unfinished, BarInv, DownloadsInv, FreshInv, DownloadInv
<1>2. /\ SoundRows(rows)
      /\ \A k \in DOMAIN rows : rows[k] \in Int /\ rows[k] >= d.began
      /\ \A k \in DOMAIN rows : k.spelling = Spelling(d.provider)
      /\ ~d.missed => DOMAIN rows = window
  BY <1>1, RowsInHand DEF BarInv, TimeInv
<1>3. /\ store' = Over(rows, store) /\ download' = [download EXCEPT ![j] = new]
      /\ promised' = IF d.missed THEN promised ELSE promised \cup window
      /\ refreshed' = IF d.missed \/ ~d.alone THEN refreshed ELSE Over(fresh, refreshed)
      /\ UNCHANGED <<today, adjust>>
  BY DEF Upsert, Upserted
<1>4. \A k \in DOMAIN rows \cap DOMAIN refreshed : k.spelling = "naive" => rows[k] >= refreshed[k]
  <2> SUFFICES ASSUME NEW k \in DOMAIN rows \cap DOMAIN refreshed, k.spelling = "naive"
               PROVE  rows[k] >= refreshed[k]
    OBVIOUS
  <2>1. d.provider = "yfinance"
    BY <1>1, <1>2 DEF Spelling, DownloadInv, Providers
  <2>2. refreshed[k] <= d.began /\ refreshed[k] \in Int /\ d.began \in Int
    BY <1>1, <2>1 DEF NoOlder, DownloadInv, BarInv, TableInv, RefreshedInv
  <2> QED
    BY <1>2, <2>2
<1>5. /\ Spelling(d.provider) \in {"naive", "aware"} /\ d.began \in Int
      /\ \A k \in window : k.spelling = Spelling(d.provider)
      /\ Spelling(d.provider) = "aware" => d.began = Raw
      /\ Spelling(d.provider) = "naive" => d.provider = "yfinance" /\ d.began <= adjust
      /\ d.missed \in BOOLEAN /\ d.alone \in BOOLEAN
  BY <1>1, KeysOfDays DEF Spelling, DownloadInv, Providers
<1>6. ~d.missed => DOMAIN fresh = window /\ \A k \in window : fresh[k] = d.began
  OBVIOUS
<1>7. new # None => /\ new.alone = d.alone /\ new.stored = TRUE /\ new.provider = d.provider
                    /\ new.began = d.began /\ new.loaded = d.loaded /\ DownloadInv(new, adjust)
  <2>1. PICK e : e = [d EXCEPT !.stored = TRUE]
    OBVIOUS
  <2>2. /\ DOMAIN e = DOMAIN d /\ e.alone = d.alone /\ e.stored = TRUE
        /\ e.provider = d.provider /\ e.start = d.start /\ e.end = d.end /\ e.cursor = d.cursor
        /\ e.began = d.began /\ e.loaded = d.loaded
        /\ e.missed = d.missed /\ e.got = d.got
    BY <1>1, <2>1 DEF DownloadInv
  <2>3. DownloadInv(e, adjust)
    BY <1>1, <2>2 DEF DownloadInv
  <2> QED
    BY <2>1, <2>2, <2>3
<1> HIDE DEF rows, window, fresh, new
<1>8. TimeInv'
  BY <1>3 DEF BarInv, TimeInv
<1>9. CASE d.missed \/ ~d.alone
  <2>1. refreshed' = refreshed
    BY <1>3, <1>9
  <2>2. new # None => NoOlder(new)
    BY <1>1, <1>7 DEF NoOlder
  <2>3. DownloadsInv' /\ FreshInv'
    BY <1>1, <1>3, <1>7, <2>1, <2>2, OneDownload
  <2>4. promised' = promised \/ promised' = promised \cup DOMAIN rows
    BY <1>2, <1>3, <1>5
  <2>5. TableInv'
    BY <1>2, <1>3, <1>4, <2>1, <2>4, StoreKeeps
  <2> QED
    BY <1>8, <2>3, <2>5 DEF BarInv
<1>10. CASE ~d.missed /\ d.alone
  <2>1. /\ DOMAIN refreshed' = window \cup DOMAIN refreshed
        /\ \A k \in window : refreshed'[k] = d.began
        /\ \A k \in DOMAIN refreshed \ window : refreshed'[k] = refreshed[k]
    BY <1>3, <1>6, <1>10 DEF Over
  <2>2. /\ SoundRows(store') /\ DOMAIN store' = window \cup DOMAIN store
        /\ \A k \in window : store'[k] = rows[k] /\ rows[k] >= d.began
        /\ \A k \in DOMAIN store \ window : store'[k] = store[k]
    <3>1. SoundRows(store) /\ DOMAIN rows = window
      BY <1>2, <1>10 DEF BarInv, TableInv
    <3> QED
      <4>1. WrittenOver(store', rows, store)
        BY <1>2, <1>3, <3>1, OverIsSound
      <4> QED
        BY <1>2, <3>1, <4>1 DEF WrittenOver
  <2>3. promised' = promised \cup window
    BY <1>3, <1>10
  <2>4. CompleteDownloadHeals'
    BY <2>1, <2>2, <2>3 DEF BarInv, TableInv, RefreshedInv, CompleteDownloadHeals
  <2>5. RefreshedInv'
    BY <1>3, <1>5, <2>1, <2>3 DEF BarInv, TableInv, RefreshedInv
  <2>6. \A i \in Jobs : i # j => download[i] = None
    BY <1>1, <1>10 DEF BarInv, FreshInv
  <2>7. \A i \in Jobs : download'[i] = IF i = j THEN new ELSE None
    BY <1>3, <2>6 DEF BarInv, TimeInv
  <2>8. DownloadsInv'
    BY <1>3, <1>7, <2>7 DEF DownloadsInv
  <2>9. ASSUME new # None, NEW k \in DOMAIN refreshed', k.spelling = "naive"
        PROVE  new.stored = TRUE /\ (new.provider = "yfinance" => refreshed'[k] <= new.began)
    BY <1>1, <1>5, <1>7, <2>1, <2>9 DEF NoOlder
  <2>10. FreshInv'
    <3> SUFFICES ASSUME NEW i \in Jobs, download'[i] # None
                 PROVE  /\ NoOlder(download[i])'
                        /\ \A l \in Jobs : l # i => download'[l] = None
      BY DEF FreshInv
    <3>1. i = j /\ download'[i] = new /\ new # None
      BY <2>7
    <3>2. NoOlder(download[i])'
      BY <2>9, <3>1 DEF NoOlder
    <3> QED
      BY <2>7, <3>1, <3>2
  <2>11. TableInv'
    BY <2>2, <2>4, <2>5 DEF TableInv, SoundRows
  <2> QED
    BY <1>8, <2>8, <2>10, <2>11 DEF BarInv
<1> QED
  BY <1>5, <1>9, <1>10

(***************************************************************************)
(* Rows that are read and stored again keep their price under the text     *)
(* they had without an offset, and get another text if they had one.       *)
(***************************************************************************)
LEMMA WrittenBackRows ==
    ASSUME NEW rows, SoundRows(rows)
    PROVE  /\ SoundRows(WrittenBack(rows))
           /\ \A k \in DOMAIN WrittenBack(rows) :
                 k.spelling = "naive" => k \in DOMAIN rows /\ WrittenBack(rows)[k] = rows[k]
<1>1. \A l \in DOMAIN rows :
         /\ Reread(l) \in [day : Nat, spelling : Spellings] /\ Reread(l).spelling # "aware"
         /\ Reread(l).spelling = "naive" => Reread(l) = l
  BY DEF SoundRows, Reread, Spellings
<1>2. DOMAIN WrittenBack(rows) = {Reread(l) : l \in DOMAIN rows}
  BY DEF WrittenBack
<1>3. \A k \in DOMAIN WrittenBack(rows) : k.spelling = "naive" =>
         k \in DOMAIN rows /\ WrittenBack(rows)[k] = rows[k]
  BY <1>1, <1>2 DEF WrittenBack
<1>4. \A k \in DOMAIN WrittenBack(rows) :
         k \in [day : Nat, spelling : Spellings] /\ k.spelling # "aware"
  BY <1>1, <1>2
<1> QED
  BY <1>3, <1>4 DEF SoundRows

(***************************************************************************)
(* What the bank stores again is no older than what was refreshed: its own *)
(* rows, or those loaded before any download that had the table to itself. *)
(***************************************************************************)
LEMMA WriteBackStep ==
    ASSUME BarInv, NEW j \in Jobs, WriteBack(j)
    PROVE  BarInv'
<1> DEFINE d == download[j]
           rows == Answer(j)
<1>1. d # None /\ DownloadInv(d, adjust) /\ d.stored \in BOOLEAN /\ NoOlder(d)
  BY DEF WriteBack, Downloaded, BarInv, DownloadsInv, FreshInv, DownloadInv
<1>2. /\ store' = Over(rows, store) /\ download' = [download EXCEPT ![j] = None]
      /\ UNCHANGED <<today, adjust, promised, refreshed>>
  BY DEF WriteBack, Upserted, promises
<1>3. /\ SoundRows(rows)
      /\ \A k \in DOMAIN rows \cap DOMAIN refreshed : k.spelling = "naive" => rows[k] >= refreshed[k]
  <2>1. CASE d.stored
    <3>1. rows = DownloadedRows(j)
      BY <2>1 DEF Answer
    <3>2. /\ SoundRows(rows)
          /\ \A k \in DOMAIN rows : rows[k] \in Int /\ rows[k] >= d.began
          /\ \A k \in DOMAIN rows : k.spelling = Spelling(d.provider)
      BY <1>1, <3>1, RowsInHand DEF BarInv, TimeInv
    <3> HIDE DEF rows
    <3>3. ASSUME NEW k \in DOMAIN rows \cap DOMAIN refreshed, k.spelling = "naive"
          PROVE  rows[k] >= refreshed[k]
      <4>1. d.provider = "yfinance"
        BY <1>1, <3>2, <3>3 DEF Spelling, DownloadInv, Providers
      <4>2. refreshed[k] <= d.began /\ refreshed[k] \in Int /\ d.began \in Int
        BY <1>1, <3>3, <4>1 DEF NoOlder, DownloadInv, BarInv, TableInv, RefreshedInv
      <4> QED
        BY <3>2, <3>3, <4>2
    <3> QED
      BY <3>2, <3>3
  <2>2. CASE ~d.stored
    <3>1. rows = WrittenBack(d.loaded) /\ SoundRows(d.loaded)
      BY <1>1, <2>2 DEF Answer, DownloadInv
    <3>2. /\ SoundRows(rows)
          /\ \A k \in DOMAIN rows : k.spelling = "naive" => k \in DOMAIN d.loaded /\ rows[k] = d.loaded[k]
      BY <3>1, WrittenBackRows
    <3> HIDE DEF rows
    <3>3. ASSUME NEW k \in DOMAIN rows \cap DOMAIN refreshed, k.spelling = "naive"
          PROVE  rows[k] >= refreshed[k]
      <4>1. k \in DOMAIN d.loaded /\ rows[k] = d.loaded[k] /\ d.loaded[k] \in Int
        BY <3>1, <3>2, <3>3 DEF SoundRows
      <4>2. refreshed[k] <= d.loaded[k] /\ refreshed[k] \in Int
        BY <1>1, <2>2, <3>3, <4>1 DEF NoOlder, BarInv, TableInv, RefreshedInv
      <4> QED
        BY <4>1, <4>2
    <3> QED
      BY <3>2, <3>3
  <2> QED
    BY <1>1, <2>1, <2>2
<1> HIDE DEF rows
<1>4. TableInv'
  BY <1>2, <1>3, StoreKeeps
<1>5. TimeInv' /\ DownloadsInv' /\ FreshInv'
  BY <1>2, OneDownload
<1> QED
  BY <1>4, <1>5 DEF BarInv

-----------------------------------------------------------------------------
LEMMA BarNext ==
    ASSUME BarInv, [Next]_vars
    PROVE  BarInv'
<1>1. CASE NewDay
  <2>1. today' = today + 1 /\ UNCHANGED <<adjust, store, download, promised, refreshed>>
    BY <1>1 DEF NewDay, promises
  <2>2. TimeInv' /\ DownloadsInv' /\ FreshInv'
    BY <2>1, BarAssumption DEF BarInv, TimeInv, DownloadsInv, FreshInv, NoOlder
  <2> QED  BY <2>1, <2>2, TablesStand DEF BarInv, TimeInv
<1>2. CASE CorporateAction
  <2>1. /\ adjust' = adjust + 1 /\ UNCHANGED <<today, store, download, promised, refreshed>>
    BY <1>2 DEF CorporateAction, promises
  <2>2. DownloadsInv'
    BY <2>1, DownloadStands DEF BarInv, TimeInv, DownloadsInv
  <2>3. FreshInv'
    BY <2>1 DEF BarInv, FreshInv, NoOlder
  <2> QED  BY <2>1, <2>2, <2>3, TablesStand DEF BarInv, TimeInv
<1>3. ASSUME NEW j \in Jobs, Abandon(j)  PROVE BarInv'
  <2>1. /\ download' = [download EXCEPT ![j] = None]
        /\ UNCHANGED <<today, adjust, store, promised, refreshed>>
    BY <1>3 DEF Abandon, promises
  <2> QED  BY <2>1, OneDownload, TablesStand DEF BarInv, TimeInv
<1>4. CASE UNCHANGED vars \/ \E j \in Jobs : BankAsks(j)
  <2>1. UNCHANGED <<today, adjust, store, download, promised, refreshed>>
    BY <1>4 DEF vars, promises, BankAsks
  <2>2. TimeInv' /\ DownloadsInv' /\ FreshInv'
    BY <2>1 DEF BarInv, TimeInv, DownloadsInv, FreshInv, NoOlder
  <2> QED  BY <2>1, <2>2, TablesStand DEF BarInv, TimeInv
<1> QED
  BY <1>1, <1>2, <1>3, <1>4, BeginStep, FetchStep, FailStep, UpsertStep, WriteBackStep DEF Next

(***************************************************************************)
(* The table and the downloads keep their invariant.                       *)
(***************************************************************************)
THEOREM StoreInvariant == Spec => []BarInv
BY BarInit, BarNext, PTL DEF Spec

(***************************************************************************)
(* Once a download without a failed window has been stored, its window has *)
(* no hole, whatever other processes miss, write or abandon, and if it had *)
(* the table to itself no older price comes back, also not from rows the   *)
(* bank stores again (fetch_historical_bars, upsert_bars, bank.py:60-61).  *)
(***************************************************************************)
THEOREM CompleteDownloadsHeal == Spec => []CompleteDownloadHeals
<1>1. BarInv => CompleteDownloadHeals
  BY DEF BarInv, TableInv
<1> QED  BY <1>1, StoreInvariant, PTL

-----------------------------------------------------------------------------
(* One row for every stored day *)

(***************************************************************************)
(* A group is every text its day is stored under: normalized timestamps    *)
(* are equal when the days are (_dedupe_daily_bars).                       *)
(***************************************************************************)
LEMMA GroupIsDay ==
    ASSUME NEW k \in DOMAIN store
    PROVE  Group(Normalized(k)) = {l \in DOMAIN store : l.day = k.day}
BY DEF Group, Normalized

(***************************************************************************)
(* The rows of one day come in some order: one of them is the first, and   *)
(* one the last (ORDER BY timestamp of load_bars).                         *)
(***************************************************************************)
LEMMA EndsOfDay ==
    ASSUME NEW n \in Nat, NEW keys \in SUBSET [day : Nat, spelling : Spellings], keys # {},
           \A k \in keys : k.day = n
    PROVE  First(keys) \in keys /\ Last(keys) \in keys
<1>1. \A k \in keys : k.spelling \in Spellings /\ Place(k.spelling) \in 0 .. 2
  BY DEF Spellings, Place
<1>2. \A k, l \in keys : TextBefore(k, l) <=> Place(k.spelling) < Place(l.spelling)
  BY DEF TextBefore
<1>3. \E k \in keys : \A l \in keys : Place(k.spelling) <= Place(l.spelling)
  <2>1. CASE \E k \in keys : Place(k.spelling) = 0
    BY <1>1, <2>1
  <2>2. CASE (\A k \in keys : Place(k.spelling) # 0) /\ \E k \in keys : Place(k.spelling) = 1
    BY <1>1, <2>2
  <2>3. CASE \A k \in keys : Place(k.spelling) \notin {0, 1}
    BY <1>1, <2>3
  <2> QED  BY <2>1, <2>2, <2>3
<1>4. \E k \in keys : \A l \in keys : Place(l.spelling) <= Place(k.spelling)
  <2>1. CASE \E k \in keys : Place(k.spelling) = 2
    BY <1>1, <2>1
  <2>2. CASE (\A k \in keys : Place(k.spelling) # 2) /\ \E k \in keys : Place(k.spelling) = 1
    BY <1>1, <2>2
  <2>3. CASE \A k \in keys : Place(k.spelling) \notin {1, 2}
    BY <1>1, <2>3
  <2> QED  BY <2>1, <2>2, <2>3
<1>5. (\E k \in keys : \A l \in keys : ~TextBefore(l, k))
      /\ (\E k \in keys : \A l \in keys : ~TextBefore(k, l))
  BY <1>1, <1>2, <1>3, <1>4
<1> QED  BY <1>5 DEF First, Last

\* The row _dedupe_daily_bars makes of a group.
Merged(keys) ==
    [day |-> First(keys).day, hour |-> Normalized(First(keys))[2],
     open |-> store[First(keys)], close |-> store[Last(keys)],
     volumes |-> Cardinality(keys)]

DayGroup(day) == {l \in DOMAIN store : l.day = day}

\* The merged rows are one for each stored day, from that day's prices.
LEMMA DailyBarsByDay ==
    ASSUME KeysInv
    PROVE  /\ DailyBars = {Merged(DayGroup(k.day)) : k \in DOMAIN store}
           /\ \A k \in DOMAIN store :
                 /\ Merged(DayGroup(k.day)).day = k.day
                 /\ Merged(DayGroup(k.day)).open \in Stored(k.day)
                 /\ Merged(DayGroup(k.day)).close \in Stored(k.day)
<1>1. Groups = {DayGroup(k.day) : k \in DOMAIN store}
  BY GroupIsDay DEF Groups, DayGroup
<1>2. DailyBars = {Merged(keys) : keys \in Groups}
  BY DEF DailyBars, Merged
<1>3. DailyBars = {Merged(DayGroup(k.day)) : k \in DOMAIN store}
  <2> HIDE DEF DailyBars, Groups, Merged, DayGroup
  <2> QED  BY <1>1, <1>2
<1>4. ASSUME NEW k \in DOMAIN store
      PROVE  /\ Merged(DayGroup(k.day)).day = k.day
             /\ Merged(DayGroup(k.day)).open \in Stored(k.day)
             /\ Merged(DayGroup(k.day)).close \in Stored(k.day)
  <2>1. k.day \in Nat /\ k \in DayGroup(k.day)
    BY DEF KeysInv, DayGroup
  <2>2. DayGroup(k.day) \in SUBSET [day : Nat, spelling : Spellings]
    BY DEF KeysInv, DayGroup
  <2>3. First(DayGroup(k.day)) \in DayGroup(k.day) /\ Last(DayGroup(k.day)) \in DayGroup(k.day)
    BY <2>1, <2>2, EndsOfDay DEF DayGroup
  <2>4. \A l \in DayGroup(k.day) : l.day = k.day /\ store[l] \in Stored(k.day)
    BY DEF DayGroup, Stored
  <2> QED  BY <2>3, <2>4 DEF Merged
<1> QED  BY <1>3, <1>4

(***************************************************************************)
(* Of a table that holds a day under up to three texts the bank gets every *)
(* stored day once, with an open and a close that were stored for that day *)
(* (_dedupe_daily_bars of bank.py over load_bars).                         *)
(***************************************************************************)
THEOREM BankSeesOneRowPerDay == Spec => []BankHasOneRowPerDay
<1>1. ASSUME KeysInv  PROVE BankHasOneRowPerDay
  <2>1. /\ DailyBars = {Merged(DayGroup(k.day)) : k \in DOMAIN store}
        /\ \A k \in DOMAIN store :
              /\ Merged(DayGroup(k.day)).day = k.day
              /\ Merged(DayGroup(k.day)).open \in Stored(k.day)
              /\ Merged(DayGroup(k.day)).close \in Stored(k.day)
    BY <1>1, DailyBarsByDay
  <2>2. {row.day : row \in DailyBars} = {k.day : k \in DOMAIN store}
    BY <2>1
  <2>3. \A row, other \in DailyBars : row.day = other.day => row = other
    BY <2>1
  <2>4. \A row \in DailyBars : {row.open, row.close} \subseteq Stored(row.day)
    BY <2>1
  <2> QED  BY <2>2, <2>3, <2>4 DEF BankHasOneRowPerDay
<1>2. BarInv => BankHasOneRowPerDay
  BY <1>1 DEF BarInv, TableInv, SoundRows, KeysInv
<1> QED  BY <1>2, StoreInvariant, PTL

-----------------------------------------------------------------------------
(* The simulated execution handler *)

Ack ==
    [id : Nat \cup ClientIds, symbol : Symbols, side : Sides, qty : Nat, limit : Int,
     status : {"ACCEPTED", "FILLED", "CANCELLED"}]

Bar == [sym : Symbols \cup {"none"}, low : Nat, high : Nat, close : Nat]

Fill == [n : Nat, sym : Symbols \cup {"none"}, qty : Int, price : Int, bar : Nat]

\* Every list of the book holds numbers of acks.
HandlerTypeOK ==
    /\ acks \in Seq(Ack) /\ fills \in Seq(Fill)
    /\ \A i \in DOMAIN openOrders : openOrders[i] \in DOMAIN acks
    /\ pending \subseteq DOMAIN acks /\ walked \subseteq DOMAIN acks
    /\ remaining \subseteq DOMAIN acks
    /\ bar \in Bar /\ barCount \in Nat

\* An order has one fill at most, and only an order that is no longer working has one.
FillsAreFinal ==
    /\ \A i, j \in DOMAIN fills : fills[i].n = fills[j].n => i = j
    /\ \A i \in DOMAIN fills :
          fills[i].n \in DOMAIN acks /\ acks[fills[i].n].status # "ACCEPTED"
    /\ \A n \in DOMAIN acks :
          acks[n].status = "FILLED" => \E i \in DOMAIN fills : fills[i].n = n

\* What on_bar has kept so far the bar did not trade through.
KeptIsUntouched ==
    \A n \in remaining : acks[n].status = "ACCEPTED" => ~TradedThrough(acks[n])

HandlerInv == HandlerTypeOK /\ FillsAreFinal /\ KeptIsUntouched

(***************************************************************************)
(* What the bar has to face is in the list the loop walks, also when       *)
(* _pending is another list by now, and of what it has passed the working  *)
(* orders have been kept.                                                  *)
(***************************************************************************)
FacedInv ==
    /\ cursor \in DOMAIN acks \cup {0}
    /\ faced \subseteq DOMAIN acks
    /\ pc # "idle" =>
          /\ faced \subseteq Iterated
          /\ \A n \in faced : n <= cursor /\ acks[n].status = "ACCEPTED" => n \in remaining

(***************************************************************************)
(* What a step may do to the acks already there: nothing but to change the *)
(* status of one of them.                                                  *)
(***************************************************************************)
SameTerms(a, b) ==
    /\ DOMAIN a \subseteq DOMAIN b
    /\ \A n \in DOMAIN a : /\ b[n].id = a[n].id /\ b[n].side = a[n].side
                           /\ b[n].limit = a[n].limit

Restated(a, n, st, b) == b = [a EXCEPT ![n].status = st]

\* Overwriting one status leaves everything else of the acks alone.
LEMMA StatusChange ==
    ASSUME NEW a \in Seq(Ack), NEW n \in DOMAIN a, NEW st \in {"FILLED", "CANCELLED"},
           NEW b, Restated(a, n, st, b)
    PROVE  /\ b \in Seq(Ack) /\ Len(b) = Len(a) /\ DOMAIN b = DOMAIN a
           /\ b[n].status = st
           /\ \A m \in DOMAIN a : m # n => b[m] = a[m]
           /\ SameTerms(a, b)
<1>1. DOMAIN a = 1 .. Len(a) /\ Len(a) \in Nat /\ a[n] \in Ack
  BY LenProperties, ElementOfSeq
<1>2. PICK c : c = [a[n] EXCEPT !.status = st]
  OBVIOUS
<1>3. /\ c \in Ack /\ c.status = st /\ c.id = a[n].id /\ c.side = a[n].side
      /\ c.limit = a[n].limit
  BY <1>1, <1>2 DEF Ack
<1>4. b = [a EXCEPT ![n] = c]
  BY <1>2 DEF Restated
<1>5. /\ b \in Seq(Ack) /\ Len(b) = Len(a)
      /\ \A m \in 1 .. Len(a) : b[m] = IF m = n THEN c ELSE a[m]
  BY <1>1, <1>3, <1>4, ExceptSeq
<1>6. DOMAIN b = DOMAIN a
  BY <1>4
<1> QED
  BY <1>1, <1>3, <1>5, <1>6 DEF SameTerms

(***************************************************************************)
(* The execution price is the limit or the close.                          *)
(***************************************************************************)
LEMMA PriceIsNumber ==
    ASSUME NEW a, a.limit \in Int, bar.close \in Int
    PROVE  FillPrice(a) \in Int
<1>1. PICK x \in Int, y \in Int : x = a.limit /\ y = bar.close
  OBVIOUS
<1>2. Min({x, y}) \in Int
  <2>1. \E z \in {x, y} : \A t \in {x, y} : z <= t
    OBVIOUS
  <2> QED
    BY <2>1 DEF Min
<1>3. Max({x, y}) \in Int
  <2>1. \E z \in {x, y} : \A t \in {x, y} : z >= t
    OBVIOUS
  <2> QED
    BY <2>1 DEF Max
<1> QED
  BY <1>1, <1>2, <1>3 DEF FillPrice

(***************************************************************************)
(* What was kept stays untouched when no working order is added to it and  *)
(* no ack changes its terms.                                               *)
(***************************************************************************)
LEMMA KeptStays ==
    ASSUME HandlerInv, acks' \in Seq(Ack), SameTerms(acks, acks'),
           \A n \in DOMAIN acks : acks'[n].status = "ACCEPTED" => acks[n].status = "ACCEPTED",
           remaining' \subseteq remaining, bar' = bar
    PROVE  KeptIsUntouched'
<1> SUFFICES ASSUME NEW n \in remaining', acks'[n].status = "ACCEPTED"
             PROVE  ~TradedThrough(acks[n])'
  BY DEF KeptIsUntouched
<1>1. n \in remaining /\ n \in DOMAIN acks
  BY DEF HandlerInv, HandlerTypeOK
<1>2. ~TradedThrough(acks[n])
  BY <1>1 DEF HandlerInv, KeptIsUntouched
<1>3. acks'[n].side = acks[n].side /\ acks'[n].limit = acks[n].limit
  BY <1>1 DEF SameTerms
<1> QED
  BY <1>2, <1>3 DEF TradedThrough

\* A new handler has an empty book.
LEMMA HandlerInitInv == HandlerInit => HandlerInv
<1> SUFFICES ASSUME HandlerInit PROVE HandlerInv
  OBVIOUS
<1>1. acks = <<>> /\ fills = <<>> /\ openOrders = <<>> /\ DOMAIN <<>> = {}
  BY DEF HandlerInit
<1>2. NoBar \in Bar
  BY DEF NoBar, Bar
<1>3. HandlerTypeOK
  BY <1>1, <1>2, EmptySeq DEF HandlerInit, HandlerTypeOK
<1>4. FillsAreFinal /\ KeptIsUntouched
  BY <1>1 DEF HandlerInit, FillsAreFinal, KeptIsUntouched
<1> QED
  BY <1>3, <1>4 DEF HandlerInv

(***************************************************************************)
(* A submission adds a working order that nothing has filled yet.          *)
(***************************************************************************)
LEMMA SubmitInv ==
    ASSUME HandlerInv, NEW symbol \in Symbols, NEW side \in Sides, NEW qty \in Quantities,
           NEW limit \in Int, NEW id \in ClientIds \cup {0},
           Submit(symbol, side, qty, limit, id)
    PROVE  HandlerInv' /\ CancelIsFinal
<1> DEFINE m == Len(acks)
           ack == [id |-> OrderId(m + 1, id), symbol |-> symbol, side |-> side,
                   qty |-> qty, limit |-> limit, status |-> "ACCEPTED"]
<1>1. /\ acks \in Seq(Ack) /\ m \in Nat /\ DOMAIN acks = 1 .. m
      /\ fills \in Seq(Fill) /\ DOMAIN fills = 1 .. Len(fills) /\ Len(fills) \in Nat
  BY LenProperties DEF HandlerInv, HandlerTypeOK
<1>2. ack \in Ack
  BY <1>1, BacktestExecutionAssumption DEF Ack, OrderId
<1>3. PICK new \in Ack : new = ack /\ new.status = "ACCEPTED"
  BY <1>2
<1>4. /\ acks' = Append(acks, new) /\ pending' = pending \cup {m + 1}
      /\ UNCHANGED <<walked, remaining, fills, bar, barCount>>
      /\ \A i \in DOMAIN openOrders' :
            \/ openOrders'[i] = m + 1
            \/ i \in DOMAIN openOrders /\ openOrders'[i] = openOrders[i]
  BY <1>3 DEF Submit
<1>5. /\ acks' \in Seq(Ack) /\ DOMAIN acks' = 1 .. (m + 1) /\ acks'[m + 1] = new
      /\ \A n \in 1 .. m : acks'[n] = acks[n]
  BY <1>1, <1>4, AppendProperties, LenProperties
<1>6. HandlerTypeOK'
  <2>1. m + 1 \in DOMAIN acks' /\ DOMAIN acks \subseteq DOMAIN acks'
    BY <1>1, <1>5
  <2>2. \A i \in DOMAIN openOrders' : openOrders'[i] \in DOMAIN acks'
    BY <1>4, <2>1 DEF HandlerInv, HandlerTypeOK
  <2> QED
    BY <1>4, <1>5, <2>1, <2>2 DEF HandlerInv, HandlerTypeOK
<1>7. FillsAreFinal'
  <2>1. \A i \in DOMAIN fills' :
            fills'[i].n \in DOMAIN acks' /\ acks'[fills'[i].n].status # "ACCEPTED"
    BY <1>1, <1>4, <1>5 DEF HandlerInv, FillsAreFinal
  <2>2. \A n \in DOMAIN acks' :
            acks'[n].status = "FILLED" => \E i \in DOMAIN fills' : fills'[i].n = n
    <3> SUFFICES ASSUME NEW n \in 1 .. (m + 1), acks'[n].status = "FILLED"
                 PROVE  \E i \in DOMAIN fills' : fills'[i].n = n
      BY <1>5
    <3>1. n # m + 1
      BY <1>3, <1>5
    <3>2. n \in DOMAIN acks /\ acks[n].status = "FILLED"
      BY <1>1, <1>5, <3>1
    <3> QED
      BY <1>4, <3>2 DEF HandlerInv, FillsAreFinal
  <2> QED
    BY <1>4, <2>1, <2>2 DEF HandlerInv, FillsAreFinal
<1>8. SameTerms(acks, acks')
  BY <1>1, <1>5 DEF SameTerms
<1>9. KeptIsUntouched'
  BY <1>1, <1>4, <1>5, <1>8, KeptStays
<1>10. CancelIsFinal
  BY <1>1, <1>4, <1>5 DEF CancelIsFinal
<1> QED
  BY <1>6, <1>7, <1>9, <1>10 DEF HandlerInv

(***************************************************************************)
(* A cancellation changes one status, of whatever it was, and drops        *)
(* entries from the book.                                                  *)
(***************************************************************************)
LEMMA CancelInv ==
    ASSUME HandlerInv, NEW id \in DOMAIN openOrders, Cancel(id)
    PROVE  HandlerInv' /\ CancelIsFinal
<1> DEFINE k == openOrders[id]
<1>1. /\ acks \in Seq(Ack) /\ k \in DOMAIN acks
      /\ fills \in Seq(Fill) /\ DOMAIN fills = 1 .. Len(fills) /\ Len(fills) \in Nat
  BY LenProperties DEF HandlerInv, HandlerTypeOK
<1>2. /\ acks' = [acks EXCEPT ![k].status = "CANCELLED"]
      /\ pending' \subseteq pending /\ walked' \subseteq pending \cup walked
      /\ UNCHANGED <<openOrders, remaining, fills, bar, barCount>>
  BY DEF Cancel, KeptPending
<1> HIDE DEF k
<1>3. /\ acks' \in Seq(Ack) /\ DOMAIN acks' = DOMAIN acks /\ SameTerms(acks, acks')
      /\ acks'[k].status = "CANCELLED"
      /\ \A n \in DOMAIN acks : n # k => acks'[n] = acks[n]
  <2>1. Restated(acks, k, "CANCELLED", acks')
    BY <1>2 DEF Restated
  <2> QED
    BY <1>1, <2>1, StatusChange
<1>4. HandlerTypeOK'
  BY <1>2, <1>3 DEF HandlerInv, HandlerTypeOK
<1>5. FillsAreFinal'
  BY <1>1, <1>2, <1>3 DEF HandlerInv, FillsAreFinal
<1>6. KeptIsUntouched'
  BY <1>2, <1>3, KeptStays
<1>7. CancelIsFinal
  BY <1>1, <1>2, <1>3 DEF CancelIsFinal
<1> QED
  BY <1>4, <1>5, <1>6, <1>7 DEF HandlerInv

(***************************************************************************)
(* A fill: the order was working, so it had no fill yet.                   *)
(***************************************************************************)
LEMMA FillInv ==
    ASSUME HandlerInv, NEW n \in Numbers, FillVisited(n)
    PROVE  HandlerInv' /\ CancelIsFinal
<1> DEFINE m == Len(fills)
           fill == [n |-> n, sym |-> BookedUnder(acks[n]), qty |-> Signed(acks[n]),
                    price |-> FillPrice(acks[n]), bar |-> barCount]
<1>1. /\ acks \in Seq(Ack) /\ n \in DOMAIN acks /\ acks[n] \in Ack
      /\ acks[n].status = "ACCEPTED"
      /\ fills \in Seq(Fill) /\ DOMAIN fills = 1 .. m /\ m \in Nat
      /\ bar \in Bar /\ barCount \in Nat
  <2>1. n \in pending \cup walked
    BY DEF FillVisited, Visits, ToVisit, Iterated
  <2>2. n \in DOMAIN acks /\ acks[n].status = "ACCEPTED"
    BY <2>1 DEF HandlerInv, HandlerTypeOK, FillVisited, Working
  <2> QED
    BY <2>2, LenProperties, ElementOfSeq DEF HandlerInv, HandlerTypeOK
<1>2. fill \in Fill
  <2>1. acks[n].limit \in Int /\ acks[n].qty \in Nat /\ bar.close \in Int
        /\ bar.sym \in Symbols \cup {"none"} /\ n \in Nat
    BY <1>1 DEF Ack, Bar, Numbers
  <2>2. FillPrice(acks[n]) \in Int
    BY <2>1, PriceIsNumber
  <2>3. Signed(acks[n]) \in Int
    BY <2>1 DEF Signed
  <2> QED
    BY <1>1, <2>1, <2>2, <2>3 DEF Fill, BookedUnder
<1>3. PICK new \in Fill : new = fill /\ new.n = n
  BY <1>2
<1>4. /\ acks' = [acks EXCEPT ![n].status = "FILLED"] /\ fills' = Append(fills, new)
      /\ UNCHANGED <<openOrders, pending, walked, remaining, bar, barCount>>
  BY <1>3 DEF FillVisited, StatusAfterFill
<1>5. /\ acks' \in Seq(Ack) /\ DOMAIN acks' = DOMAIN acks /\ SameTerms(acks, acks')
      /\ acks'[n].status = "FILLED"
      /\ \A k \in DOMAIN acks : k # n => acks'[k] = acks[k]
  <2>1. Restated(acks, n, "FILLED", acks')
    BY <1>4 DEF Restated
  <2> QED
    BY <1>1, <2>1, StatusChange
<1>6. /\ fills' \in Seq(Fill) /\ DOMAIN fills' = 1 .. (m + 1) /\ Len(fills') = m + 1
      /\ fills'[m + 1].n = n
      /\ \A i \in 1 .. m : fills'[i] = fills[i]
  BY <1>1, <1>3, <1>4, AppendProperties, LenProperties
<1>7. HandlerTypeOK'
  BY <1>4, <1>5, <1>6 DEF HandlerInv, HandlerTypeOK
<1>8. \A i \in 1 .. m : fills[i].n # n
  BY <1>1 DEF HandlerInv, FillsAreFinal
<1>9. FillsAreFinal'
  <2>1. ASSUME NEW i \in 1 .. (m + 1), NEW j \in 1 .. (m + 1), fills'[i].n = fills'[j].n
        PROVE  i = j
    <3>1. CASE i = m + 1 /\ j = m + 1
      BY <3>1
    <3>2. CASE i # m + 1 /\ j = m + 1
      <4>1. i \in 1 .. m
        BY <1>1, <3>2
      <4> QED
        BY <1>6, <1>8, <2>1, <3>2, <4>1
    <3>3. CASE i = m + 1 /\ j # m + 1
      <4>1. j \in 1 .. m
        BY <1>1, <3>3
      <4> QED
        BY <1>6, <1>8, <2>1, <3>3, <4>1
    <3>4. CASE i # m + 1 /\ j # m + 1
      <4>1. i \in 1 .. m /\ j \in 1 .. m
        BY <1>1, <3>4
      <4>2. fills[i].n = fills[j].n
        BY <1>6, <2>1, <4>1
      <4> QED
        BY <1>1, <4>1, <4>2 DEF HandlerInv, FillsAreFinal
    <3> QED
      BY <3>1, <3>2, <3>3, <3>4
  <2>2. ASSUME NEW i \in 1 .. (m + 1)
        PROVE  fills'[i].n \in DOMAIN acks' /\ acks'[fills'[i].n].status # "ACCEPTED"
    <3>1. CASE i = m + 1
      BY <1>1, <1>5, <1>6, <3>1
    <3>2. CASE i \in 1 .. m
      <4>1. fills[i].n \in DOMAIN acks /\ acks[fills[i].n].status # "ACCEPTED"
        BY <1>1, <3>2 DEF HandlerInv, FillsAreFinal
      <4> QED
        BY <1>5, <1>6, <1>8, <3>2, <4>1
    <3> QED
      BY <1>1, <3>1, <3>2
  <2>3. ASSUME NEW k \in DOMAIN acks, acks'[k].status = "FILLED"
        PROVE  \E i \in 1 .. (m + 1) : fills'[i].n = k
    <3>1. CASE k = n
      BY <1>1, <1>6, <3>1
    <3>2. CASE k # n
      <4>1. acks[k].status = "FILLED"
        BY <1>5, <2>3, <3>2
      <4>2. PICK i \in 1 .. m : fills[i].n = k
        BY <1>1, <2>3, <4>1 DEF HandlerInv, FillsAreFinal
      <4> QED
        BY <1>1, <1>6, <4>2
    <3> QED
      BY <3>1, <3>2
  <2> QED
    BY <1>5, <1>6, <2>1, <2>2, <2>3 DEF FillsAreFinal
<1>10. KeptIsUntouched'
  BY <1>1, <1>4, <1>5, KeptStays
<1>11. CancelIsFinal
  BY <1>1, <1>5, <1>6 DEF CancelIsFinal
<1> QED
  BY <1>7, <1>9, <1>10, <1>11 DEF HandlerInv

(***************************************************************************)
(* The other steps of on_bar move entries between the lists.               *)
(***************************************************************************)
LEMMA LoopInv ==
    ASSUME HandlerInv, NEW n \in Numbers, DropDead(n) \/ KeepVisited(n)
    PROVE  HandlerInv' /\ CancelIsFinal
<1>1. n \in pending \cup walked
  BY DEF DropDead, KeepVisited, Visits, ToVisit, Iterated
<1>2. /\ UNCHANGED <<acks, openOrders, pending, walked, fills, bar, barCount>>
      /\ \/ remaining' = remaining
         \/ remaining' = remaining \cup {n} /\ ~TradedThrough(acks[n])
  BY DEF DropDead, KeepVisited, book
<1>3. HandlerTypeOK'
  BY <1>1, <1>2 DEF HandlerInv, HandlerTypeOK
<1>4. FillsAreFinal'
  BY <1>2 DEF HandlerInv, FillsAreFinal
<1>5. KeptIsUntouched'
  BY <1>2 DEF HandlerInv, KeptIsUntouched, TradedThrough
<1>6. CancelIsFinal
  BY <1>2 DEF CancelIsFinal
<1> QED
  BY <1>3, <1>4, <1>5, <1>6 DEF HandlerInv

\* The frame of on_bar, its beginning, its end and the return from the callback.
LEMMA OnBarInv ==
    ASSUME HandlerInv,
           \/ \E s \in Symbols, shape \in BarShapes : BeginBar(s, shape)
           \/ ReturnFromCallback \/ EndBar \/ UNCHANGED handlerVars
    PROVE  HandlerInv' /\ CancelIsFinal
<1>1. /\ UNCHANGED <<acks, openOrders, fills>>
      /\ pending' \subseteq pending \cup remaining /\ walked' \subseteq walked
      /\ bar' \in Bar /\ barCount' \in Nat
      /\ \/ remaining' = {}
         \/ remaining' = remaining /\ bar' = bar
  <2>1. CASE \E s \in Symbols, shape \in BarShapes : BeginBar(s, shape)
    <3>1. PICK s \in Symbols, shape \in BarShapes : BeginBar(s, shape)
      BY <2>1
    <3>2. shape.low \in Nat /\ shape.high \in Nat /\ shape.close \in Nat
      BY BacktestExecutionAssumption
    <3>3. bar' \in Bar
      BY <3>1, <3>2 DEF BeginBar, Bar
    <3>4. barCount \in Nat
      BY DEF HandlerInv, HandlerTypeOK
    <3> QED
      BY <3>1, <3>3, <3>4 DEF BeginBar, book
  <2>2. CASE ReturnFromCallback
    BY <2>2 DEF ReturnFromCallback, book, loop, HandlerInv, HandlerTypeOK
  <2>3. CASE EndBar
    BY <2>3 DEF EndBar, NoBar, Bar, HandlerInv, HandlerTypeOK
  <2>4. CASE UNCHANGED handlerVars
    BY <2>4 DEF handlerVars, HandlerInv, HandlerTypeOK
  <2> QED
    BY <2>1, <2>2, <2>3, <2>4
<1>2. HandlerTypeOK'
  BY <1>1 DEF HandlerInv, HandlerTypeOK
<1>3. FillsAreFinal'
  BY <1>1 DEF HandlerInv, FillsAreFinal
<1>4. KeptIsUntouched'
  BY <1>1 DEF HandlerInv, KeptIsUntouched, TradedThrough
<1>5. CancelIsFinal
  BY <1>1 DEF CancelIsFinal
<1> QED
  BY <1>2, <1>3, <1>4, <1>5 DEF HandlerInv

\* Every step keeps the book's invariant, and no cancelled order fills in it.
LEMMA HandlerStep ==
    ASSUME HandlerInv, [HandlerNext]_handlerVars
    PROVE  HandlerInv' /\ CancelIsFinal
<1>1. CASE \E s \in Symbols, side \in Sides, q \in Quantities :
              \/ \E limit \in Limits, id \in ClientIds \cup {0} : Submit(s, side, q, limit, id)
              \/ \E close \in Closes : SubmitPassive(s, side, q, close)
  <2>1. PICK s \in Symbols, side \in Sides, q \in Quantities :
            \/ \E limit \in Limits, id \in ClientIds \cup {0} : Submit(s, side, q, limit, id)
            \/ \E close \in Closes : SubmitPassive(s, side, q, close)
    BY <1>1
  <2>2. CASE \E limit \in Limits, id \in ClientIds \cup {0} : Submit(s, side, q, limit, id)
    <3>1. PICK limit \in Limits, id \in ClientIds \cup {0} : Submit(s, side, q, limit, id)
      BY <2>2
    <3>2. limit \in Int
      BY BacktestExecutionAssumption
    <3> QED
      BY <3>1, <3>2, SubmitInv
  <2>3. CASE \E close \in Closes : SubmitPassive(s, side, q, close)
    <3>1. PICK close \in Closes : SubmitPassive(s, side, q, close)
      BY <2>3
    <3>2. PassivePrice(side, close) \in Int /\ 0 \in ClientIds \cup {0}
      BY BacktestExecutionAssumption DEF PassivePrice
    <3>3. Submit(s, side, q, PassivePrice(side, close), 0)
      BY <3>1 DEF SubmitPassive
    <3> QED
      BY <3>2, <3>3, SubmitInv
  <2> QED
    BY <2>1, <2>2, <2>3
<1>2. CASE \E id \in DOMAIN openOrders : Cancel(id)
  BY <1>2, CancelInv
<1>3. CASE \E s \in Symbols, shape \in BarShapes : BeginBar(s, shape)
  BY <1>3, OnBarInv
<1>4. CASE \E n \in Numbers : DropDead(n) \/ FillVisited(n) \/ KeepVisited(n)
  <2>1. PICK n \in Numbers : DropDead(n) \/ FillVisited(n) \/ KeepVisited(n)
    BY <1>4
  <2> QED
    BY <2>1, FillInv, LoopInv
<1>5. CASE ReturnFromCallback \/ EndBar \/ UNCHANGED handlerVars
  BY <1>5, OnBarInv
<1> QED
  BY <1>1, <1>2, <1>3, <1>4, <1>5 DEF HandlerNext

(***************************************************************************)
(* The user's calls: a submission lengthens the list being walked as long  *)
(* as no cancel has replaced it, a cancel saves that list for the loop.    *)
(***************************************************************************)
LEMMA FacedUser ==
    ASSUME HandlerInv, FacedInv,
           \/ \E symbol, side, qty, limit, id : Submit(symbol, side, qty, limit, id)
           \/ \E id \in DOMAIN openOrders : Cancel(id)
    PROVE  FacedInv'
<1>1. acks \in Seq(Ack) /\ Len(acks) \in Nat /\ DOMAIN acks = 1 .. Len(acks)
  BY LenProperties DEF HandlerInv, HandlerTypeOK
<1>2. CASE \E symbol, side, qty, limit, id : Submit(symbol, side, qty, limit, id)
  <2>1. PICK new : /\ acks' = Append(acks, new)
                   /\ pending' = pending \cup {Len(acks) + 1}
                   /\ faced' = IF pc = "callback" /\ ~rebound THEN faced \cup {Len(acks) + 1}
                               ELSE faced
                   /\ UNCHANGED <<pc, walked, rebound, cursor, remaining>>
    BY <1>2 DEF Submit
  <2>2. /\ Len(acks') = Len(acks) + 1 /\ DOMAIN acks' = 1 .. (Len(acks) + 1)
        /\ \A n \in DOMAIN acks : acks'[n] = acks[n]
    BY <1>1, <2>1
  <2>3. Iterated \subseteq Iterated'
    BY <2>1 DEF Iterated
  <2>4. cursor' \in DOMAIN acks' \cup {0} /\ faced' \subseteq DOMAIN acks'
    BY <1>1, <2>1, <2>2 DEF FacedInv
  <2>5. ASSUME pc' # "idle"  PROVE faced' \subseteq Iterated'
    BY <2>1, <2>3, <2>5 DEF FacedInv, Iterated
  <2>6. ASSUME pc' # "idle", NEW n \in faced', n <= cursor', acks'[n].status = "ACCEPTED"
        PROVE  n \in remaining'
    <3>1. n \in faced /\ n \in DOMAIN acks
      BY <1>1, <2>1, <2>6 DEF FacedInv
    <3> QED
      BY <2>1, <2>2, <2>6, <3>1 DEF FacedInv
  <2> QED
    BY <2>4, <2>5, <2>6 DEF FacedInv
<1>3. CASE \E id \in DOMAIN openOrders : Cancel(id)
  <2>1. PICK id \in DOMAIN openOrders : Cancel(id)
    BY <1>3
  <2> DEFINE k == openOrders[id]
  <2>2. /\ k \in DOMAIN acks /\ Restated(acks, k, "CANCELLED", acks')
        /\ UNCHANGED <<pc, cursor, remaining, faced>>
    BY <2>1 DEF Cancel, HandlerInv, HandlerTypeOK, Restated
  <2>3. pc # "idle" => Iterated' = Iterated
    BY <2>1 DEF Cancel, UserTurn, Iterated
  <2> HIDE DEF k
  <2>4. /\ acks' \in Seq(Ack) /\ DOMAIN acks' = DOMAIN acks
        /\ acks'[k].status = "CANCELLED"
        /\ \A n \in DOMAIN acks : n # k => acks'[n] = acks[n]
    <3>1. acks \in Seq(Ack)
      BY DEF HandlerInv, HandlerTypeOK
    <3> QED
      BY <2>2, <3>1, StatusChange
  <2> QED
    BY <2>2, <2>3, <2>4 DEF FacedInv
<1> QED
  BY <1>2, <1>3

(***************************************************************************)
(* The loop takes the entries in their order, so what it has not kept and  *)
(* is behind it does not work any more.                                    *)
(***************************************************************************)
LEMMA FacedVisit ==
    ASSUME HandlerInv, FacedInv, NEW n \in Numbers,
           DropDead(n) \/ FillVisited(n) \/ KeepVisited(n)
    PROVE  FacedInv'
<1>1. acks \in Seq(Ack) /\ Len(acks) \in Nat /\ DOMAIN acks = 1 .. Len(acks)
  BY LenProperties DEF HandlerInv, HandlerTypeOK
<1>2. /\ pc = "loop" /\ n \in Iterated /\ n > cursor
      /\ \A m \in Iterated : m > cursor => n <= m
  BY DEF DropDead, FillVisited, KeepVisited, Visits, ToVisit
<1>3. n \in DOMAIN acks
  BY <1>2 DEF Iterated, HandlerInv, HandlerTypeOK
<1>4. /\ cursor' = n /\ UNCHANGED <<faced, pending, walked, rebound>>
      /\ remaining \subseteq remaining' /\ pc' # "idle"
  BY <1>2 DEF DropDead, FillVisited, KeepVisited, book
<1>5. /\ DOMAIN acks' = DOMAIN acks
      /\ \A m \in DOMAIN acks : m # n => acks'[m] = acks[m]
      /\ acks'[n].status = "ACCEPTED" => n \in remaining'
  <2>1. CASE FillVisited(n)
    <3>1. Restated(acks, n, "FILLED", acks')
      BY <2>1 DEF FillVisited, StatusAfterFill, Restated
    <3>2. /\ acks' \in Seq(Ack) /\ DOMAIN acks' = DOMAIN acks
          /\ acks'[n].status = "FILLED"
          /\ \A m \in DOMAIN acks : m # n => acks'[m] = acks[m]
      <4>1. acks \in Seq(Ack)
        BY DEF HandlerInv, HandlerTypeOK
      <4> QED
        BY <1>3, <3>1, <4>1, StatusChange
    <3> QED
      BY <3>2
  <2>2. CASE DropDead(n) \/ KeepVisited(n)
    BY <2>2 DEF DropDead, KeepVisited, Working, book
  <2> QED
    BY <2>1, <2>2
<1>6. faced' \subseteq Iterated'
  BY <1>2, <1>4 DEF FacedInv, Iterated
<1>7. ASSUME NEW m \in faced', m <= n, acks'[m].status = "ACCEPTED"
      PROVE  m \in remaining'
  <2>1. m \in faced /\ m \in Iterated /\ m \in DOMAIN acks /\ m \in Nat /\ n \in Nat
    BY <1>1, <1>2, <1>3, <1>4 DEF FacedInv
  <2>2. CASE m = n
    BY <1>5, <1>7, <2>2
  <2>3. CASE m # n
    <3>1. m <= cursor
      BY <1>1, <1>2, <1>7, <2>1, <2>3 DEF FacedInv
    <3> QED
      BY <1>2, <1>4, <1>5, <1>7, <2>1, <2>3, <3>1 DEF FacedInv
  <2> QED
    BY <2>2, <2>3
<1> QED
  BY <1>1, <1>3, <1>4, <1>5, <1>6, <1>7 DEF FacedInv

\* The steps of the book keep what is said of the bar in progress.
LEMMA FacedStep ==
    ASSUME HandlerInv, FacedInv, [HandlerNext]_handlerVars
    PROVE  FacedInv'
<1>1. acks \in Seq(Ack) /\ Len(acks) \in Nat
  BY LenProperties DEF HandlerInv, HandlerTypeOK
<1>2. ASSUME NEW s \in Symbols, NEW shape \in BarShapes, BeginBar(s, shape)
      PROVE  FacedInv'
  <2>1. /\ acks' = acks /\ faced' = pending /\ Iterated' = pending /\ cursor' = 0
        /\ pending \subseteq DOMAIN acks /\ DOMAIN acks = 1 .. Len(acks)
    BY <1>1, <1>2, LenProperties DEF BeginBar, book, Iterated, HandlerInv, HandlerTypeOK
  <2>2. \A n \in faced' : ~(n <= cursor')
    BY <2>1
  <2> QED
    BY <1>1, <2>1, <2>2 DEF FacedInv
<1>3. CASE EndBar
  BY <1>1, <1>3 DEF EndBar, FacedInv
<1>4. CASE ReturnFromCallback \/ UNCHANGED handlerVars
  BY <1>4 DEF ReturnFromCallback, handlerVars, book, loop, FacedInv, Iterated
<1> QED
  BY <1>2, <1>3, <1>4, FacedUser, FacedVisit DEF HandlerNext, SubmitPassive

(***************************************************************************)
(* At the end of on_bar nothing is left to visit, so what the bar had to   *)
(* face and still works has been kept, and was not traded through.         *)
(***************************************************************************)
LEMMA EndKeeps ==
    ASSUME HandlerInv, FacedInv, [HandlerNext]_handlerVars
    PROVE  NonePassedOver
<1> SUFFICES ASSUME pc = "loop", pc' = "idle", NEW n \in faced,
                    acks[n].status = "ACCEPTED"
             PROVE  /\ n \in pending'
                    /\ IF acks[n].side = "BUY" THEN bar.low > acks[n].limit
                       ELSE bar.high < acks[n].limit
  BY DEF NonePassedOver
<1>1. EndBar
  BY DEF HandlerNext, handlerVars, Submit, SubmitPassive, Cancel, BeginBar, DropDead,
         FillVisited, KeepVisited, ReturnFromCallback, UserTurn, Visits
<1>2. n \in Iterated /\ n \in DOMAIN acks /\ n \in Nat /\ cursor \in Nat
  BY LenProperties DEF FacedInv, HandlerInv, HandlerTypeOK
<1>3. n <= cursor
  BY <1>1, <1>2 DEF EndBar, ToVisit, FacedInv
<1>4. n \in remaining /\ n \in pending'
  BY <1>1, <1>3 DEF EndBar, FacedInv
<1>5. ~TradedThrough(acks[n])
  BY <1>4 DEF HandlerInv, KeptIsUntouched
<1>6. acks[n] \in Ack /\ bar \in Bar
  BY <1>2, LenProperties, ElementOfSeq DEF HandlerInv, HandlerTypeOK
<1>7. /\ acks[n].limit \in Int /\ bar.low \in Int /\ bar.high \in Int
      /\ acks[n].side \in {"BUY", "SELL"}
  BY <1>6 DEF Ack, Bar, Sides
<1> QED
  BY <1>4, <1>5, <1>7 DEF TradedThrough

(***************************************************************************)
(* The inductive invariant of the book, between the bars, in the loop and  *)
(* in the callback alike: only an order that works no more has a fill,     *)
(* what the loop has kept the bar did not trade through, and what the bar  *)
(* has to face is still ahead of the loop or has been dealt with.          *)
(***************************************************************************)
THEOREM HandlerInvariant == HandlerSpec => [](HandlerInv /\ FacedInv)
<1>1. HandlerInit => HandlerInv /\ FacedInv
  <2>1. HandlerInit => FacedInv
    BY DEF HandlerInit, FacedInv
  <2> QED
    BY <2>1, HandlerInitInv
<1>2. HandlerInv /\ FacedInv /\ [HandlerNext]_handlerVars => (HandlerInv /\ FacedInv)'
  BY HandlerStep, FacedStep
<1> QED
  BY <1>1, <1>2, PTL DEF HandlerSpec

(***************************************************************************)
(* However the callback rearranges the book, an order fills at most once,  *)
(* a working one has no fill and a FILLED one has one (lines 111-144).     *)
(***************************************************************************)
THEOREM OrdersFillOnce == HandlerSpec => []FilledExactlyOnce
<1>1. HandlerInv => FilledExactlyOnce
  <2> SUFFICES ASSUME HandlerInv, NEW n \in DOMAIN acks
               PROVE  /\ Cardinality(FillsOf(n)) <= 1
                      /\ acks[n].status = "ACCEPTED" => FillsOf(n) = {}
                      /\ acks[n].status = "FILLED" => FillsOf(n) # {}
    BY DEF FilledExactlyOnce
  <2>1. \A i, j \in FillsOf(n) : i = j
    BY DEF HandlerInv, FillsAreFinal, FillsOf
  <2>2. Cardinality(FillsOf(n)) <= 1
    <3>1. CASE FillsOf(n) = {}
      BY <3>1, FS_EmptySet
    <3>2. CASE FillsOf(n) # {}
      <4>1. PICK i \in FillsOf(n) : TRUE
        BY <3>2
      <4>2. FillsOf(n) = {i}
        BY <2>1, <4>1
      <4>3. Cardinality({i}) = 1
        BY FS_Singleton
      <4> QED
        BY <4>2, <4>3
    <3> QED
      BY <3>1, <3>2
  <2>3. /\ acks[n].status = "ACCEPTED" => FillsOf(n) = {}
        /\ acks[n].status = "FILLED" => FillsOf(n) # {}
    BY DEF HandlerInv, FillsAreFinal, FillsOf
  <2> QED
    BY <2>2, <2>3
<1> QED
  BY <1>1, HandlerInvariant, PTL

(***************************************************************************)
(* Cancelled is final: no later step fills a cancelled order or makes it   *)
(* work again, the ones the loop has still to visit included.              *)
(***************************************************************************)
THEOREM CancelledNeverFill == HandlerSpec => NoFillAfterCancel
<1>1. HandlerInv /\ [HandlerNext]_handlerVars => CancelIsFinal
  BY HandlerStep
<1> QED
  BY <1>1, HandlerInvariant, PTL DEF HandlerSpec, NoFillAfterCancel

(***************************************************************************)
(* Whatever the callback submits and cancels while the loop walks the      *)
(* book, no order the bar had to face is passed over: what still works     *)
(* afterwards is pending and was not traded through (lines 111-146).       *)
(***************************************************************************)
THEOREM NoneIsPassedOver == HandlerSpec => NoMissedFill
<1>1. HandlerInv /\ FacedInv /\ [HandlerNext]_handlerVars => NonePassedOver
  BY EndKeeps
<1> QED
  BY <1>1, HandlerInvariant, PTL DEF HandlerSpec, NoMissedFill
===============================================================================
