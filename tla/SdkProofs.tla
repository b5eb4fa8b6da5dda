----------------------------- MODULE SdkProofs -----------------------------
(***************************************************************************)
(* The saves and the sound of webmelon.js, two parts of the SDK that share *)
(* no state.                                                               *)
(***************************************************************************)
EXTENDS SaveStorage, AudioPath, SequenceTheorems, TLAPS

----------------------------------------------------------------------------
(* The saving flag, the restore and the syncs, for any games and any       *)
(* number of saves, uploads and pending syncs.                             *)

\* What the counts are, whatever the browser and the user do.
Counts ==
    /\ timers \in Nat /\ reading \in Nat /\ closing \in Nat
    /\ isSaving => timers > 0 \/ reading > 0 \/ closing > 0

\* Before the restore has ended nothing of this page has been written, and nothing
\* syncs an empty directory over the stored one; after it the directory holds what
\* the user saved last, and no second restore sets it back.
Restored ==
    /\ restore \in {"none", "running", "done"}
    /\ restore = "running" <=> booting # NoGame
    /\ restore = "done" => file = latest
    /\ firmware \in {"none", "made"} /\ (restore # "none" => firmware = "made")
    /\ restore # "done" =>
         /\ stored = latest
         /\ game = NoGame /\ menu = "closed"
         /\ timers = 0 /\ reading = 0

\* The inductive invariant.
SavesInv == Counts /\ (careful => Restored)

\* onSaveWrite arms a timer unless something is under way.
LEMMA SaveWriteCounts ==
    ASSUME Counts, OnSaveWrite, UNCHANGED <<reading, closing>> PROVE Counts'
BY DEF Counts, OnSaveWrite

LEMMA LoadCartCounts ==
    ASSUME Counts, NEW g, NEW files, LoadCart(g, files), UNCHANGED <<reading, closing>>
    PROVE  Counts'
<1>1. CASE files[g] # 0
  BY <1>1, SaveWriteCounts DEF LoadCart
<1>2. CASE files[g] = 0
  BY <1>2 DEF LoadCart, Counts
<1> QED BY <1>1, <1>2

\* Each step keeps the counts: what leaves one of them goes on to the next, and
\* the last of them takes the flag down.
LEMMA CountsStep == Counts /\ [StorageNext]_storageVars => Counts'
<1> SUFFICES ASSUME Counts, [StorageNext]_storageVars PROVE Counts'
  OBVIOUS
<1>1. ASSUME NEW g \in Games, Play(g) PROVE Counts'
  BY <1>1, LoadCartCounts DEF Play, Counts
<1>2. ASSUME NEW g \in Games, Upload(g) \/ Delete(g) PROVE Counts'
  BY <1>2 DEF Upload, Delete, PageWrites, Counts
<1>3. CASE FinishRestore
  BY <1>3, LoadCartCounts DEF FinishRestore, Counts
<1>11. CASE ProbeFirmware \/ FinishFirmwareRestore
  BY <1>11 DEF ProbeFirmware, FinishFirmwareRestore, memory, Counts
<1>4. CASE GameSaves
  BY <1>4, SaveWriteCounts DEF GameSaves
<1>5. CASE RestoreFails \/ Quit \/ OpenSaves \/ CloseSaves
  BY <1>5 DEF RestoreFails, Quit, OpenSaves, CloseSaves, memory, Counts
<1>6. CASE TimerFires
  BY <1>6 DEF TimerFires, Counts
<1>7. CASE SyncStores
  BY <1>7 DEF SyncStores, Counts
<1>8. CASE SyncDone \/ SyncFails
  BY <1>8 DEF SyncDone, SyncFails, Counts
<1>9. CASE Reload
  BY <1>9 DEF Reload, Counts
<1>10. CASE UNCHANGED storageVars
  BY <1>10 DEF storageVars, memory, Counts
<1> QED
  BY <1>1, <1>2, <1>3, <1>4, <1>5, <1>6, <1>7, <1>8, <1>9, <1>10, <1>11 DEF StorageNext

LEMMA RestoredStep ==
    ASSUME Counts, careful, Restored, [StorageNext]_storageVars PROVE Restored'
<1>1. ASSUME NEW g \in Games, Play(g) PROVE Restored'
  <2>1. g # NoGame
    BY GamesAssumption
  <2>2. CASE restore = "none"
    BY <1>1, <2>1, <2>2 DEF Play, Restored
  <2>3. CASE restore # "none"
    BY <1>1, <2>3 DEF Play, InitializeFirmware, Restored
  <2> QED BY <2>2, <2>3
<1>2. ASSUME NEW g \in Games, Upload(g) \/ Delete(g) PROVE Restored'
  BY <1>2 DEF Upload, Delete, PageWrites, Restored
<1>3. CASE FinishRestore
  BY <1>3 DEF FinishRestore, InitializeFirmware, Restored
<1>10. CASE ProbeFirmware
  BY <1>10 DEF ProbeFirmware, InitializeFirmware, memory, Restored
<1>4. CASE GameSaves
  BY <1>4 DEF GameSaves, Restored
<1>5. CASE Quit \/ OpenSaves \/ CloseSaves
  BY <1>5 DEF Quit, OpenSaves, CloseSaves, memory, Restored
<1>6. CASE TimerFires \/ SyncStores \/ SyncDone
  <2>1. restore = "done" \/ SyncDone
    <3>1. ~(0 > 0)
      OBVIOUS
    <3>2. restore # "done" => ~(timers > 0) /\ ~(reading > 0)
      BY <3>1, Zenon DEF Restored
    <3> QED BY <1>6, <3>2 DEF TimerFires, SyncStores
  <2>2. UNCHANGED <<restore, file, latest, booting, game, menu, firmware>>
    BY <1>6 DEF TimerFires, SyncStores, SyncDone
  <2>3. SyncDone => UNCHANGED <<stored, timers, reading>>
    BY DEF SyncDone
  <2> QED BY <2>1, <2>2, <2>3 DEF Restored
<1>7. CASE Reload
  BY <1>7 DEF Reload, Restored
<1>8. CASE UNCHANGED storageVars
  BY <1>8 DEF storageVars, memory, Restored
<1>9. ~RestoreFails /\ ~SyncFails /\ ~FinishFirmwareRestore
  BY DEF RestoreFails, SyncFails, FinishFirmwareRestore, Restored
<1> QED
  BY <1>1, <1>2, <1>3, <1>4, <1>5, <1>6, <1>7, <1>8, <1>9, <1>10 DEF StorageNext

LEMMA CarefulStays == [StorageNext]_storageVars => careful' = careful
BY DEF StorageNext, Play, Upload, Delete, PageWrites, FinishRestore, RestoreFails, ProbeFirmware,
   FinishFirmwareRestore, GameSaves, Quit,
   TimerFires, SyncStores, SyncDone, SyncFails, OpenSaves, CloseSaves, Reload, storageVars

\* The inductive invariant: the flag's counts for everybody, what file, copy and last
\* save have to do with each other for a careful user.
THEOREM SaveInv == StorageSpec => []SavesInv
<1>1. StorageInit => SavesInv
  BY DEF StorageInit, SavesInv, Counts, Restored
<1>2. SavesInv /\ [StorageNext]_storageVars => SavesInv'
  BY CountsStep, RestoredStep, CarefulStays DEF SavesInv
<1> QED BY <1>1, <1>2, PTL DEF StorageSpec

\* webmelon.js: the saving flag never sticks.  Whatever mix of timers, uploads, failed
\* syncs, games and reloads led here, something under way takes it down.
THEOREM SaveSavingHasASync == StorageSpec => []SavingHasASync
<1>1. SavesInv => SavingHasASync
  BY DEF SavesInv, Counts, SavingHasASync
<1> QED BY <1>1, SaveInv, PTL

\* nds.ts: a game of a careful user starts from the last save, upload or deletion, on
\* this page or before a reload that found it stored.
THEOREM SaveStartsFromSave == StorageSpec => StartsFromSave
<1>1. ASSUME SavesInv, StorageNext
      PROVE  careful /\ game' \notin {game, NoGame} => file'[game'] = latest'[game']
  <2>1. SUFFICES ASSUME careful, game' \notin {game, NoGame}
                 PROVE  file'[game'] = latest'[game']
    OBVIOUS
  <2>2. Restored
    BY <1>1, <2>1 DEF SavesInv
  <2>3. CASE \E g \in Games : Play(g)
    BY <2>1, <2>2, <2>3 DEF Play, LoadCart, Restored
  <2>4. CASE FinishRestore
    BY <2>1, <2>2, <2>4 DEF FinishRestore, LoadCart, Restored
  <2>5. ~(\E g \in Games : Play(g)) /\ ~FinishRestore => game' \in {game, NoGame}
    BY <1>1 DEF StorageNext, Upload, Delete, PageWrites, RestoreFails, ProbeFirmware,
       FinishFirmwareRestore, GameSaves, Quit,
       TimerFires, SyncStores, SyncDone, SyncFails, OpenSaves, CloseSaves, Reload
  <2> QED BY <2>1, <2>3, <2>4, <2>5
<1>2. SavesInv /\ [StorageNext]_storageVars
        => [careful /\ game' \notin {game, NoGame} => file'[game'] = latest'[game']]_storageVars
  BY <1>1
<1> QED BY <1>2, SaveInv, PTL DEF StorageSpec, StartsFromSave

\* A sync replaces the stored directory as a whole, and still sets back no game's save,
\* for any number of syncs of timers and page that overtake each other.
THEOREM SaveStoredFollowsLatest == StorageSpec => StoredFollowsLatest
<1>1. ASSUME SavesInv, StorageNext, NEW g \in Games
      PROVE  careful /\ stored'[g] # stored[g] => stored'[g] = latest[g]
  <2>1. SUFFICES ASSUME careful, stored' # stored PROVE stored' = latest
    OBVIOUS
  <2>2. SyncStores
    BY <1>1, <2>1 DEF StorageNext, Play, Upload, Delete, PageWrites, FinishRestore, RestoreFails,
       ProbeFirmware, FinishFirmwareRestore, GameSaves, Quit, TimerFires, SyncDone, SyncFails,
       OpenSaves, CloseSaves, Reload
  <2> QED BY <1>1, <2>1, <2>2 DEF SyncStores, SavesInv, Restored, Counts
<1>2. SavesInv /\ [StorageNext]_storageVars
        => [\A g \in Games :
              careful /\ stored'[g] # stored[g] => stored'[g] = latest[g]]_storageVars
  BY <1>1
<1> QED BY <1>2, SaveInv, PTL DEF StorageSpec, StoredFollowsLatest
----------------------------------------------------------------------------
(* Rings are queues: what Fill and Drop do to the contents.                *)

LEMMA FunIsSeq ==
    ASSUME NEW S, NEW n \in Nat, NEW f \in [1..n -> S]
    PROVE  f \in Seq(S) /\ Len(f) = n /\ DOMAIN f = 1..n
OBVIOUS

LEMMA Cut ==
    ASSUME NEW S, NEW s \in Seq(S), NEW a \in Nat, NEW b \in Nat, a <= b, b <= Len(s)
    PROVE  /\ SubSeq(s, a + 1, b) \in Seq(S) /\ Len(SubSeq(s, a + 1, b)) = b - a
           /\ \A i \in 1..(b - a) : SubSeq(s, a + 1, b)[i] = s[a + i]
<1>1. \A i \in (a + 1)..b : s[i] \in S
  BY ElementOfSeq
<1> QED BY <1>1, SubSeqProperties

LEMMA CutLast ==
    ASSUME NEW S, NEW s \in Seq(S), NEW a \in Nat, NEW n \in Nat, a + n <= Len(s)
    PROVE  /\ SubSeq(s, a + 1, a + n) \in Seq(S) /\ Len(SubSeq(s, a + 1, a + n)) = n
           /\ \A i \in 1..n : SubSeq(s, a + 1, a + n)[i] = s[a + i]
<1>1. \A i \in (a + 1)..(a + n) : s[i] \in S
  BY ElementOfSeq
<1> QED BY <1>1, SubSeqProperties

LEMMA Beginning ==
    ASSUME NEW S, NEW s \in Seq(S), NEW n \in Nat, n <= Len(s)
    PROVE  /\ SubSeq(s, 1, n) \in Seq(S) /\ Len(SubSeq(s, 1, n)) = n
           /\ \A i \in 1..n : SubSeq(s, 1, n)[i] = s[i]
<1>1. \A i \in 1..n : s[i] \in S
  BY ElementOfSeq
<1> QED BY <1>1, SubSeqProperties

LEMMA RingSizes ==
    /\ Cap \in Nat \ {0} /\ Target \in Nat \ {0} /\ Batch \in Nat \ {0} /\ Quantum \in Nat \ {0}
    /\ Target < Cap /\ Batch <= Cap
BY RingAssumption

\* The slot of a position; positions wrap at most twice.
Slot(x) == x % Cap

LEMMA Wrap ==
    ASSUME NEW x \in Nat
    PROVE  /\ Slot(x) \in 0..(Cap - 1)
           /\ x < Cap => Slot(x) = x
           /\ x >= Cap /\ x < 2 * Cap => Slot(x) = x - Cap
           /\ x >= 2 * Cap /\ x < 3 * Cap => Slot(x) = x - 2 * Cap
BY RingSizes DEF Slot

LEMMA ContentsIsSeq ==
    ASSUME NEW r \in Rings(Cap)
    PROVE  /\ Contents(r) \in Seq(Samples) /\ Len(Contents(r)) = r.len
           /\ DOMAIN Contents(r) = 1..r.len
           /\ \A i \in 1..r.len : Contents(r)[i] = r.slots[Slot(r.head + i - 1)]
<1>1. r.len \in Nat /\ r.head \in Nat /\ r.slots \in [0..(Cap - 1) -> Samples]
  BY RingSizes DEF Rings
<1>2. \A i \in 1..r.len : r.slots[Slot(r.head + i - 1)] \in Samples
  <2> SUFFICES ASSUME NEW i \in 1..r.len PROVE r.slots[Slot(r.head + i - 1)] \in Samples
    OBVIOUS
  <2>1. r.head + i - 1 \in Nat
    BY <1>1
  <2> QED BY <1>1, <2>1, Wrap
<1>3. Contents(r) = [i \in 1..r.len |-> r.slots[Slot(r.head + i - 1)]]
  BY DEF Contents, Slot
<1>4. Contents(r) \in [1..r.len -> Samples]
  BY <1>2, <1>3
<1> QED BY <1>1, <1>3, <1>4, FunIsSeq

LEMMA Behind ==
    ASSUME NEW r \in Rings(Cap), NEW s \in Seq(Samples)
    PROVE  /\ Contents(r) \o s \in Seq(Samples)
           /\ Len(Contents(r) \o s) = r.len + Len(s)
           /\ \A i \in 1..(r.len + Len(s)) :
                 (Contents(r) \o s)[i] = IF i <= r.len THEN Contents(r)[i] ELSE s[i - r.len]
<1>1. Contents(r) \in Seq(Samples) /\ Len(Contents(r)) = r.len
  BY ContentsIsSeq
<1>2. /\ Contents(r) \o s \in Seq(Samples)
      /\ Len(Contents(r) \o s) = Len(Contents(r)) + Len(s)
      /\ \A i \in 1..(Len(Contents(r)) + Len(s)) : (Contents(r) \o s)[i] =
            IF i <= Len(Contents(r)) THEN Contents(r)[i] ELSE s[i - Len(Contents(r))]
  BY <1>1, ConcatProperties, Zenon
<1> QED BY <1>1, <1>2, Zenon

\* Where a slot of the ring ends up: an old sample stays, a new one is behind them.
LEMMA FillSlot ==
    ASSUME NEW h \in 0..(Cap - 1), NEW l \in 0..Cap, NEW n \in Nat, l + n <= Cap,
           NEW j \in 1..(l + n)
    PROVE  /\ Slot(h + j - 1) \in 0..(Cap - 1)
           /\ j <= l => ~(Slot(Slot(h + j - 1) + 2 * Cap - h - l) < n)
           /\ j > l => /\ Slot(Slot(h + j - 1) + 2 * Cap - h - l) < n
                       /\ Slot(Slot(h + j - 1) + 2 * Cap - h - l) + 1 = j - l
<1>1. PICK y \in Nat : y = h + j - 1
  OBVIOUS
<1>2. PICK k : k = Slot(y)
  OBVIOUS
<1>3. k \in 0..(Cap - 1) /\ (k = y \/ k = y - Cap)
  <2>1. y < 2 * Cap
    BY <1>1, RingSizes
  <2> QED BY <1>2, <2>1, Wrap, RingSizes
<1>4. PICK x \in Nat : x = k + 2 * Cap - h - l
  BY <1>3, RingSizes
<1>5. x = 2 * Cap + (j - 1 - l) \/ x = Cap + (j - 1 - l)
  BY <1>1, <1>3, <1>4, RingSizes
<1>6. x < 3 * Cap
  BY <1>3, <1>4, RingSizes
<1>7. CASE j <= l
  <2>1. Slot(x) = Cap + (j - 1 - l)
    BY <1>5, <1>6, <1>7, Wrap, RingSizes
  <2>2. ~(Slot(x) < n)
    BY <1>7, <2>1, RingSizes
  <2> QED BY <1>1, <1>2, <1>3, <1>4, <1>7, <2>2
<1>8. CASE j > l
  <2>1. Slot(x) = j - 1 - l
    BY <1>5, <1>6, <1>8, Wrap, RingSizes
  <2>2. Slot(x) < n /\ Slot(x) + 1 = j - l
    BY <1>8, <2>1, RingSizes
  <2> QED BY <1>1, <1>2, <1>3, <1>4, <1>8, <2>2
<1> QED BY <1>7, <1>8

LEMMA FillIsAppend ==
    ASSUME NEW r \in Rings(Cap), NEW batch \in Seq(Samples)
    PROVE  /\ Fill(r, batch) \in Rings(Cap)
           /\ Fill(r, batch).len = r.len + Least(Len(batch), Cap - r.len)
           /\ Contents(Fill(r, batch))
                = Contents(r) \o SubSeq(batch, 1, Least(Len(batch), Cap - r.len))
<1> DEFINE n == Least(Len(batch), Cap - r.len)
           f == Fill(r, batch)
           At(i) == Slot(i + 2 * Cap - r.head - r.len)
           part == SubSeq(batch, 1, n)
<1>1. r.len \in 0..Cap /\ r.head \in 0..(Cap - 1) /\ r.slots \in [0..(Cap - 1) -> Samples]
  BY DEF Rings
<1>2. n \in Nat /\ n <= Len(batch) /\ r.len + n <= Cap
  BY <1>1, RingSizes DEF Least
<1>3. f = [r EXCEPT !.slots = [i \in 0..(Cap - 1) |->
                                  IF At(i) < n THEN batch[At(i) + 1] ELSE r.slots[i]],
                    !.len = r.len + n]
  BY <1>1 DEF Fill, Slot
<1>4. \A i \in 0..(Cap - 1) : At(i) \in Nat
  <2> SUFFICES ASSUME NEW i \in 0..(Cap - 1) PROVE At(i) \in Nat
    OBVIOUS
  <2>1. PICK x \in Nat : x = i + 2 * Cap - r.head - r.len
    BY <1>1, RingSizes
  <2>2. Slot(x) \in Nat
    BY Wrap, SMTT(60)
  <2> QED BY <2>1, <2>2
<1> HIDE DEF At
<1>5. /\ f.slots \in [0..(Cap - 1) -> Samples] /\ f.head = r.head /\ f.len = r.len + n
      /\ \A i \in 0..(Cap - 1) :
            f.slots[i] = IF At(i) < n THEN batch[At(i) + 1] ELSE r.slots[i]
  <2>1. \A i \in 0..(Cap - 1) :
           (IF At(i) < n THEN batch[At(i) + 1] ELSE r.slots[i]) \in Samples
    <3> SUFFICES ASSUME NEW i \in 0..(Cap - 1), At(i) < n PROVE batch[At(i) + 1] \in Samples
      BY <1>1
    <3>1. At(i) + 1 \in 1..Len(batch)
      BY <1>2, <1>4
    <3> QED BY <3>1, ElementOfSeq
  <2> QED BY <1>3, <2>1 DEF Rings
<1>6. f \in Rings(Cap)
  <2>1. r.len + n \in 0..Cap
    BY <1>1, <1>2
  <2> QED BY <1>3, <1>5, <2>1 DEF Rings
<1>7. part \in Seq(Samples) /\ Len(part) = n /\ \A i \in 1..n : part[i] = batch[i]
  BY <1>2, SubSeqProperties
<1>8. Contents(f) = Contents(r) \o part
  <2>1. /\ Contents(r) \in Seq(Samples) /\ Len(Contents(r)) = r.len
        /\ Contents(f) \in Seq(Samples) /\ Len(Contents(f)) = r.len + n
    BY <1>5, <1>6, ContentsIsSeq
  <2>2. /\ Contents(r) \o part \in Seq(Samples) /\ Len(Contents(r) \o part) = r.len + n
        /\ \A j \in 1..(r.len + n) : (Contents(r) \o part)[j] =
              IF j <= r.len THEN Contents(r)[j] ELSE part[j - r.len]
    <3> HIDE DEF part, n
    <3> QED BY <1>7, Behind
  <2>3. ASSUME NEW j \in 1..(r.len + n)
        PROVE  Contents(f)[j] = (Contents(r) \o part)[j]
    <3>1. PICK k : k = Slot(r.head + j - 1)
      OBVIOUS
    <3>2. k \in 0..(Cap - 1) /\ (j <= r.len => ~(At(k) < n))
          /\ (j > r.len => At(k) < n /\ At(k) + 1 = j - r.len)
      BY <1>1, <1>2, <3>1, FillSlot DEF At
    <3>3. Contents(f)[j] = f.slots[k]
      BY <1>5, <1>6, <3>1, ContentsIsSeq
    <3>4. CASE j <= r.len
      <4>1. Contents(r)[j] = r.slots[k]
        BY <1>1, <3>1, <3>4, ContentsIsSeq
      <4> QED BY <1>5, <2>2, <3>2, <3>3, <3>4, <4>1
    <3>5. CASE j > r.len
      <4>1. j - r.len \in 1..n
        BY <1>1, <1>2, <3>5
      <4>2. part[j - r.len] = batch[j - r.len]
        BY <1>7, <4>1
      <4>3. ~(j <= r.len)
        BY <1>1, <3>5
      <4> QED BY <1>5, <2>2, <3>2, <3>3, <3>5, <4>2, <4>3
    <3>6. j <= r.len \/ j > r.len
      BY <1>1, <1>2
    <3> QED BY <3>4, <3>5, <3>6
  <2> QED BY <2>1, <2>2, <2>3, SeqEqual
<1> QED BY <1>5, <1>6, <1>8

\* Where the head goes, and where the samples that stay are found from there.
LEMMA NextHead ==
    ASSUME NEW hd \in 0..(Cap - 1), NEW l \in 0..Cap, NEW n \in 0..l
    PROVE  \E h \in 0..(Cap - 1) : h = Slot(hd + n) /\ (h = hd + n \/ h = hd + n - Cap)
<1>1. hd + n \in Nat /\ hd + n < 2 * Cap
  BY RingSizes
<1>2. hd + n < Cap => Slot(hd + n) = hd + n
  BY <1>1, Wrap, RingSizes
<1>3. hd + n >= Cap => Slot(hd + n) = hd + n - Cap
  BY <1>1, Wrap, RingSizes
<1> QED BY <1>1, <1>2, <1>3, RingSizes

LEMMA SameSlot ==
    ASSUME NEW h \in 0..(Cap - 1), NEW hd \in 0..(Cap - 1), NEW l \in 0..Cap,
           NEW n \in 0..l, NEW j \in 1..(l - n), h = hd + n \/ h = hd + n - Cap
    PROVE  Slot(h + j - 1) = Slot(hd + (n + j) - 1)
<1>1. /\ h + j - 1 \in Nat /\ h + j - 1 < 2 * Cap
      /\ hd + (n + j) - 1 \in Nat /\ hd + (n + j) - 1 < 2 * Cap
  BY RingSizes
<1>2. CASE h = hd + n
  BY <1>2
<1>3. CASE h = hd + n - Cap
  <2>1. h + j - 1 < Cap /\ hd + (n + j) - 1 >= Cap /\ h + j - 1 = hd + (n + j) - 1 - Cap
    BY <1>3, RingSizes
  <2>2. Slot(h + j - 1) = h + j - 1
    BY <1>1, <2>1, Wrap, RingSizes
  <2>3. Slot(hd + (n + j) - 1) = hd + (n + j) - 1 - Cap
    BY <1>1, <2>1, Wrap, RingSizes
  <2> QED BY <2>1, <2>2, <2>3
<1> QED BY <1>2, <1>3

LEMMA DropIsSubSeq ==
    ASSUME NEW r \in Rings(Cap), NEW n \in 0..r.len
    PROVE  /\ Drop(r, n) \in Rings(r.len - n) /\ Drop(r, n) \in Rings(Cap)
           /\ Drop(r, n).len = r.len - n
           /\ Contents(Drop(r, n)) = SubSeq(Contents(r), n + 1, r.len)
<1> DEFINE d == Drop(r, n)
<1>1. r.len \in 0..Cap /\ r.head \in 0..(Cap - 1) /\ r.slots \in [0..(Cap - 1) -> Samples]
      /\ r.len \in Nat /\ n \in Nat /\ n <= r.len /\ r.head \in Nat
  BY RingSizes DEF Rings
<1>2. PICK h \in 0..(Cap - 1) : h = Slot(r.head + n) /\ (h = r.head + n \/ h = r.head + n - Cap)
  BY <1>1, NextHead, Zenon
<1>3. d = [r EXCEPT !.head = h, !.len = r.len - n]
  BY <1>2 DEF Drop, Slot
<1>4. d.slots = r.slots /\ d.head = h /\ d.len = r.len - n
  BY <1>3 DEF Rings
<1>5. d \in Rings(r.len - n) /\ d \in Rings(Cap)
  <2>1. r.len - n \in 0..Cap /\ r.len - n \in 0..(r.len - n)
    BY <1>1, RingSizes
  <2> QED BY <1>1, <1>2, <1>3, <2>1 DEF Rings
<1>6. Contents(d) = SubSeq(Contents(r), n + 1, r.len)
  <2> DEFINE t == SubSeq(Contents(r), n + 1, r.len)
  <2>1. /\ Contents(r) \in Seq(Samples) /\ Len(Contents(r)) = r.len
        /\ Contents(d) \in Seq(Samples) /\ Len(Contents(d)) = r.len - n
    BY <1>4, <1>5, ContentsIsSeq
  <2>2. \A i \in (n + 1)..r.len : Contents(r)[i] \in Samples
    BY <1>1, <2>1, ElementOfSeq
  <2>3. /\ t \in Seq(Samples) /\ Len(t) = r.len - n
        /\ \A i \in 1..(r.len - n) : t[i] = Contents(r)[n + i]
    BY <1>1, <2>2, SubSeqProperties
  <2>4. ASSUME NEW j \in 1..(r.len - n) PROVE Contents(d)[j] = t[j]
    <3>1. Contents(d)[j] = r.slots[Slot(h + j - 1)]
      BY <1>4, <1>5, ContentsIsSeq
    <3>2. t[j] = r.slots[Slot(r.head + (n + j) - 1)]
      <4>1. n + j \in 1..r.len
        BY <1>1
      <4> QED BY <2>3, <4>1, ContentsIsSeq
    <3>3. Slot(h + j - 1) = Slot(r.head + (n + j) - 1)
      BY <1>1, <1>2, SameSlot, Zenon
    <3> QED BY <3>1, <3>2, <3>3
  <2> QED BY <2>1, <2>3, <2>4, SeqEqual
<1> QED BY <1>4, <1>5, <1>6


\* What the ring does with a message, and the queue with a frame.
LEMMA ReceiveIsAddAndTrim ==
    ASSUME NEW r \in Rings(Cap - 1), NEW batch \in Seq(Samples)
    PROVE  /\ Receive(r, batch) \in Rings(Cap - 1)
           /\ Contents(Receive(r, batch)) =
                LET all == Contents(r) \o batch
                IN  IF Len(all) < Cap THEN all
                    ELSE Queue!Newest(SubSeq(all, 1, Cap), Target)
<1> DEFINE all == Contents(r) \o batch
           n == Least(Len(batch), Cap - r.len)
           f == Fill(r, batch)
<1>1. /\ r \in Rings(Cap) /\ r.len \in 0..(Cap - 1) /\ Len(batch) \in Nat
  BY RingSizes DEF Rings
<1>2. /\ f \in Rings(Cap) /\ f.len = r.len + n /\ Contents(f) = Contents(r) \o SubSeq(batch, 1, n)
  BY <1>1, FillIsAppend
<1>3. /\ Contents(r) \in Seq(Samples) /\ Len(Contents(r)) = r.len
      /\ Contents(f) \in Seq(Samples) /\ Len(Contents(f)) = f.len
  BY <1>1, <1>2, ContentsIsSeq
<1>4. /\ all \in Seq(Samples) /\ Len(all) = r.len + Len(batch)
      /\ \A i \in 1..(r.len + Len(batch)) :
            all[i] = IF i <= r.len THEN Contents(r)[i] ELSE batch[i - r.len]
  BY <1>1, Behind, Zenon
<1>5. CASE r.len + Len(batch) < Cap
  <2>1. n = Len(batch)
    BY <1>1, <1>5, RingSizes DEF Least
  <2>2. SubSeq(batch, 1, n) = batch
    BY <2>1, SubSeqFull
  <2>3. Receive(r, batch) = f /\ f.len \in 0..(Cap - 1)
    BY <1>1, <1>2, <1>5, <2>1, RingSizes DEF Receive
  <2>4. f \in Rings(Cap - 1)
    BY <1>2, <2>3 DEF Rings
  <2> QED BY <1>2, <1>4, <1>5, <2>2, <2>3, <2>4
<1>6. CASE r.len + Len(batch) >= Cap
  <2>1. n = Cap - r.len /\ n \in 1..Len(batch) /\ f.len = Cap
    BY <1>1, <1>2, <1>6, RingSizes DEF Least
  <2>2. Receive(r, batch) = Drop(f, Cap - Target)
    BY <2>1, RingSizes DEF Receive
  <2>3. /\ Drop(f, Cap - Target) \in Rings(Target)
        /\ Contents(Drop(f, Cap - Target)) = SubSeq(Contents(f), Cap - Target + 1, Cap)
    <3>1. Cap - Target \in 0..f.len /\ f.len - (Cap - Target) = Target
      BY <2>1, RingSizes
    <3> HIDE DEF f
    <3> QED BY <1>2, <2>1, <3>1, DropIsSubSeq
  <2>4. Drop(f, Cap - Target) \in Rings(Cap - 1)
    BY <2>3, RingSizes DEF Rings
  <2>5. Contents(f) = SubSeq(all, 1, Cap)
    <3> DEFINE u == SubSeq(all, 1, Cap)
               part == SubSeq(batch, 1, n)
    <3>1. /\ part \in Seq(Samples) /\ Len(part) = n /\ \A i \in 1..n : part[i] = batch[i]
      BY <1>1, <2>1, SubSeqProperties
    <3>2. Cap \in Nat /\ Cap <= Len(all)
      BY <1>4, <1>6, RingSizes
    <3>3. u \in Seq(Samples) /\ Len(u) = Cap /\ \A i \in 1..Cap : u[i] = all[i]
      <4>1. all \in Seq(Samples)
        BY <1>4
      <4> HIDE DEF all
      <4> QED BY <3>2, <4>1, Beginning
    <3> HIDE DEF u, part, all, f, n
    <3>4. \A i \in 1..(r.len + n) : (Contents(r) \o part)[i] =
             IF i <= r.len THEN Contents(r)[i] ELSE part[i - r.len]
      BY <1>1, <3>1, Behind
    <3>5. ASSUME NEW i \in 1..Cap PROVE Contents(f)[i] = u[i]
      <4>1. Contents(f)[i] = IF i <= r.len THEN Contents(r)[i] ELSE part[i - r.len]
        BY <1>1, <1>2, <2>1, <3>4, RingSizes DEF part
      <4>2. u[i] = IF i <= r.len THEN Contents(r)[i] ELSE batch[i - r.len]
        <5>1. i \in 1..(r.len + Len(batch))
          BY <1>1, <1>6, RingSizes
        <5>2. u[i] = all[i]
          BY <3>3, Zenon
        <5>3. all[i] = IF i <= r.len THEN Contents(r)[i] ELSE batch[i - r.len]
          BY <1>4, <5>1, Zenon
        <5> QED BY <5>2, <5>3, Zenon
      <4>3. i > r.len => i - r.len \in 1..n
        BY <1>1, <2>1, RingSizes
      <4> QED BY <1>1, <3>1, <4>1, <4>2, <4>3
    <3>6. Len(Contents(f)) = Cap
      BY <1>3, <2>1
    <3> QED BY <1>3, <3>3, <3>5, <3>6, SeqEqual DEF u
  <2>6. Len(Contents(f)) = Cap /\ ~(Len(all) < Cap)
    BY <1>3, <1>4, <1>6, <2>1, RingSizes
  <2>7. Queue!Newest(Contents(f), Target) = SubSeq(Contents(f), Cap - Target + 1, Cap)
    BY <2>6 DEF Queue!Newest
  <2> QED BY <2>2, <2>3, <2>4, <2>5, <2>6, <2>7
<1> QED BY <1>1, <1>5, <1>6, RingSizes

LEMMA NewestBehind ==
    ASSUME NEW s \in Seq(Samples), NEW t \in Seq(Samples),
           NEW m \in 0..Len(s), m = Len(s) + Len(t) - Cap
    PROVE  SubSeq(s, m + 1, Len(s)) \o t = Queue!Newest(s \o t, Cap)
<1> DEFINE u == SubSeq(s, m + 1, Len(s))
           v == SubSeq(s \o t, m + 1, m + Cap)
<1>1. /\ Len(s) \in Nat /\ Len(t) \in Nat /\ m \in Nat /\ m <= Len(s) /\ Cap \in Nat
      /\ m + Cap = Len(s) + Len(t)
  BY RingSizes
<1>2. u \in Seq(Samples) /\ Len(u) = Len(s) - m /\ \A i \in 1..(Len(s) - m) : u[i] = s[m + i]
  <2>1. m \in Nat /\ Len(s) \in Nat /\ m <= Len(s) /\ Len(s) <= Len(s)
    BY <1>1
  <2> QED BY <2>1, Cut, SMTT(60)
<1>3. /\ s \o t \in Seq(Samples) /\ Len(s \o t) = m + Cap
      /\ \A i \in 1..(m + Cap) : (s \o t)[i] = IF i <= Len(s) THEN s[i] ELSE t[i - Len(s)]
  <2>1. /\ s \o t \in Seq(Samples) /\ Len(s \o t) = Len(s) + Len(t)
        /\ \A i \in 1..(Len(s) + Len(t)) :
              (s \o t)[i] = IF i <= Len(s) THEN s[i] ELSE t[i - Len(s)]
    BY ConcatProperties
  <2> QED BY <1>1, <2>1
<1>4. v \in Seq(Samples) /\ Len(v) = Cap /\ \A i \in 1..Cap : v[i] = (s \o t)[m + i]
  <2>1. m \in Nat /\ Cap \in Nat /\ s \o t \in Seq(Samples) /\ m + Cap <= Len(s \o t)
    BY <1>1, <1>3
  <2> QED BY <2>1, CutLast
<1>5. Queue!Newest(s \o t, Cap) = v
  <2>1. Len(s \o t) - Cap + 1 = m + 1
    BY <1>1, <1>3
  <2> QED BY <1>3, <2>1, Zenon DEF Queue!Newest
<1> HIDE DEF u, v
<1>6. /\ u \o t \in Seq(Samples) /\ Len(u \o t) = Cap
      /\ \A i \in 1..Cap :
            (u \o t)[i] = IF i <= Len(s) - m THEN u[i] ELSE t[i - (Len(s) - m)]
  <2>1. /\ u \o t \in Seq(Samples) /\ Len(u \o t) = Len(u) + Len(t)
        /\ \A i \in 1..(Len(u) + Len(t)) :
              (u \o t)[i] = IF i <= Len(u) THEN u[i] ELSE t[i - Len(u)]
    BY <1>2, ConcatProperties
  <2>2. Len(u) = Len(s) - m /\ Len(u) + Len(t) = Cap
    BY <1>1, <1>2
  <2> QED BY <2>1, <2>2
<1>7. ASSUME NEW i \in 1..Cap PROVE (u \o t)[i] = v[i]
  <2>1. PICK k \in 1..(m + Cap) : k = m + i
    <3>1. m + i \in 1..(m + Cap)
      BY <1>1
    <3> QED BY <3>1, Zenon
  <2>2. v[i] = IF k <= Len(s) THEN s[k] ELSE t[k - Len(s)]
    BY <1>3, <1>4, <2>1
  <2>3. CASE k <= Len(s)
    <3>1. i \in 1..(Len(s) - m) /\ i <= Len(s) - m
      BY <1>1, <2>1, <2>3
    <3> QED BY <1>2, <1>6, <2>1, <2>2, <2>3, <3>1
  <2>4. CASE ~(k <= Len(s))
    <3>1. ~(i <= Len(s) - m) /\ i - (Len(s) - m) = k - Len(s)
      BY <1>1, <2>1, <2>4
    <3> QED BY <1>6, <2>2, <2>4, <3>1
  <2> QED BY <2>3, <2>4
<1>8. u \o t = v
  BY <1>4, <1>6, <1>7, SeqEqual
<1> QED BY <1>5, <1>8 DEF u

LEMMA PushIsAddMakingRoom ==
    ASSUME NEW r \in Rings(Cap), NEW batch \in Seq(Samples), Len(batch) <= Cap
    PROVE  /\ Push(r, batch) \in Rings(Cap)
           /\ Contents(Push(r, batch)) =
                LET all == Contents(r) \o batch
                IN  IF Len(all) <= Cap THEN all ELSE Queue!Newest(all, Cap)
<1> DEFINE all == Contents(r) \o batch
           l == Len(batch)
<1>1. r.len \in 0..Cap /\ l \in Nat
  BY RingSizes DEF Rings
<1>2. /\ Contents(r) \in Seq(Samples) /\ Len(Contents(r)) = r.len
  BY ContentsIsSeq
<1>3. /\ all \in Seq(Samples) /\ Len(all) = r.len + l
      /\ \A i \in 1..(r.len + l) :
            all[i] = IF i <= r.len THEN Contents(r)[i] ELSE batch[i - r.len]
  BY Behind, Zenon
<1>4. SubSeq(batch, 1, l) = batch
  BY SubSeqFull
<1>5. CASE r.len + l <= Cap
  <2>1. Push(r, batch) = Fill(r, batch) /\ Least(l, Cap - r.len) = l
    BY <1>1, <1>5, RingSizes DEF Push, Least
  <2>2. Fill(r, batch) \in Rings(Cap) /\ Contents(Fill(r, batch)) = all
    <3> HIDE DEF l
    <3> QED BY <1>4, <2>1, FillIsAppend DEF l
  <2>3. Len(all) <= Cap
    BY <1>3, <1>5
  <2> QED BY <2>1, <2>2, <2>3
<1>6. CASE r.len + l > Cap
  <2> DEFINE m == r.len + l - Cap
             d == Drop(r, m)
  <2>1. m \in 0..r.len
    BY <1>1, <1>6, RingSizes
  <2>2. /\ d \in Rings(Cap) /\ d.len = r.len - m
        /\ Contents(d) = SubSeq(Contents(r), m + 1, r.len)
    <3> HIDE DEF m
    <3> QED BY <2>1, DropIsSubSeq
  <2>3. Push(r, batch) = Fill(d, batch) /\ Least(l, Cap - d.len) = l
    BY <1>1, <1>6, <2>2, RingSizes DEF Push, Least
  <2>4. Fill(d, batch) \in Rings(Cap) /\ Contents(Fill(d, batch)) = Contents(d) \o batch
    <3> HIDE DEF d
    <3> QED BY <1>4, <2>2, <2>3, FillIsAppend
  <2>5. Contents(d) \o batch = Queue!Newest(all, Cap)
    <3>1. m \in 0..Len(Contents(r)) /\ m = Len(Contents(r)) + Len(batch) - Cap
      BY <1>2, <2>1
    <3>2. Contents(d) = SubSeq(Contents(r), m + 1, Len(Contents(r)))
      BY <1>2, <2>2
    <3> HIDE DEF m, d
    <3> QED BY <1>2, <3>1, <3>2, NewestBehind
  <2>6. ~(Len(all) <= Cap)
    BY <1>1, <1>3, <1>6, RingSizes
  <2> QED BY <2>3, <2>4, <2>5, <2>6
<1> QED BY <1>1, <1>5, <1>6, RingSizes

----------------------------------------------------------------------------
(* The sound, for rings of any size, frames and quanta of any length, any  *)
(* number of games and any samples.                                        *)

SoundTypes ==
    /\ {worklets, playing, paused, running, ready, started, ordered} \subseteq BOOLEAN
    /\ ctx \in 1..MaxGames /\ node \in 0..ctx /\ loading \subseteq 1..ctx
    /\ ring \in Rings(Cap - 1) /\ fifo \in Rings(Cap)
    /\ port \in Seq(Queue!Frames)
    /\ made \in Samples /\ first \in 0..made /\ heard \in 0..made

\* Only a game that runs has a processor, or asks for one; nothing is left of one
\* that was shut down.
Lives ==
    /\ loading # {} \/ ready \/ node # 0 => worklets
    /\ ~playing => /\ ~ready /\ ctx \notin loading
                   /\ ring.len = 0 /\ port = << >>
                   /\ \A i \in DOMAIN fifo.slots : fifo.slots[i] = 0
    /\ ready => ctx \notin loading
    /\ port # << >> => worklets

\* A context that has its processor was asked for last.
LoadsInOrder == ordered /\ ready => loading = {} /\ node = ctx

\* Samples that follow what was heard and the game's start; the silence that a former
\* game left behind comes before them.
Sound(s, last, start, newest) ==
    /\ \A i \in DOMAIN s : s[i] = 0 \/ (s[i] > last /\ s[i] > start /\ s[i] <= newest)
    /\ \A i, j \in DOMAIN s : i < j => s[i] < s[j] \/ (s[i] = 0 /\ s[j] = 0)

NoSilence(s) == \A i \in DOMAIN s : s[i] # 0

\* The message k comes after what waits to be played and after the messages before it.
Follows(k) ==
    /\ Sound(port[k], heard, first, made) /\ NoSilence(port[k])
    /\ Later(Waiting, port[k])
    /\ \A l \in DOMAIN port : k < l => Later(port[k], port[l])

Order ==
    /\ Sound(Waiting, heard, first, made)
    /\ worklets => NoSilence(Waiting)
    /\ \A k \in DOMAIN port : Follows(k)

\* The inductive invariant.
SoundInv == SoundTypes /\ Lives /\ LoadsInOrder /\ Order /\ NewestIsKept

----------------------------------------------------------------------------
(* Samples in order, and what keeps them so.                               *)

Part(t, s, a) == \A i \in DOMAIN t : a + i \in DOMAIN s /\ t[i] = s[a + i]

LEMMA PartOf ==
    ASSUME NEW s, NEW t, NEW a \in Nat, Part(t, s, a), DOMAIN t \subseteq Nat
    PROVE  /\ \A h, f, m : Sound(s, h, f, m) => Sound(t, h, f, m)
           /\ NoSilence(s) => NoSilence(t)
           /\ \A u : Later(s, u) => Later(t, u)
<1>1. ASSUME NEW h, NEW f, NEW m, Sound(s, h, f, m) PROVE Sound(t, h, f, m)
  <2>1. \A i \in DOMAIN t : t[i] = 0 \/ (t[i] > h /\ t[i] > f /\ t[i] <= m)
    BY <1>1 DEF Part, Sound
  <2>2. ASSUME NEW i \in DOMAIN t, NEW j \in DOMAIN t, i < j
        PROVE  t[i] < t[j] \/ (t[i] = 0 /\ t[j] = 0)
    <3>1. a + i < a + j
      BY <2>2
    <3> QED BY <1>1, <3>1 DEF Part, Sound
  <2> QED BY <2>1, <2>2 DEF Sound
<1>2. NoSilence(s) => NoSilence(t)
  BY DEF Part, NoSilence
<1>3. ASSUME NEW u, Later(s, u) PROVE Later(t, u)
  BY <1>3 DEF Part, Later
<1> QED BY <1>1, <1>2, <1>3

LEMMA SoundAndSound ==
    ASSUME NEW s \in Seq(Samples), NEW t \in Seq(Samples), NoSilence(t), Later(s, t)
    PROVE  /\ \A h, f, m : Sound(s, h, f, m) /\ Sound(t, h, f, m) => Sound(s \o t, h, f, m)
           /\ NoSilence(s) => NoSilence(s \o t)
           /\ \A u : Later(s, u) /\ Later(t, u) => Later(s \o t, u)
<1> DEFINE w == s \o t
<1>1. /\ w \in Seq(Samples) /\ Len(w) = Len(s) + Len(t)
      /\ \A i \in 1..(Len(s) + Len(t)) : w[i] = IF i <= Len(s) THEN s[i] ELSE t[i - Len(s)]
  BY ConcatProperties
<1>2. /\ DOMAIN w = 1..(Len(s) + Len(t)) /\ DOMAIN s = 1..Len(s) /\ DOMAIN t = 1..Len(t)
      /\ Len(s) \in Nat /\ Len(t) \in Nat
  BY <1>1
<1> HIDE DEF w
<1>3. ASSUME NEW i \in DOMAIN w
      PROVE  \/ i \in DOMAIN s /\ w[i] = s[i]
             \/ \E k \in DOMAIN t : i = k + Len(s) /\ w[i] = t[k]
  <2>1. CASE i <= Len(s)
    BY <1>1, <1>2, <2>1
  <2>2. CASE i > Len(s)
    <3>1. i - Len(s) \in DOMAIN t /\ w[i] = t[i - Len(s)] /\ i = (i - Len(s)) + Len(s)
      BY <1>1, <1>2, <2>2
    <3> QED BY <3>1, Zenon
  <2> QED BY <1>2, <2>1, <2>2
<1>4. ASSUME NEW h, NEW f, NEW m, Sound(s, h, f, m), Sound(t, h, f, m) PROVE Sound(w, h, f, m)
  <2>1. \A i \in DOMAIN w : w[i] = 0 \/ (w[i] > h /\ w[i] > f /\ w[i] <= m)
    BY <1>3, <1>4 DEF Sound
  <2>2. ASSUME NEW i \in DOMAIN w, NEW j \in DOMAIN w, i < j
        PROVE  w[i] < w[j] \/ (w[i] = 0 /\ w[j] = 0)
    <3>1. CASE j \in DOMAIN s /\ w[j] = s[j]
      <4>1. i \in DOMAIN s /\ w[i] = s[i]
        BY <1>2, <1>3, <2>2, <3>1
      <4> QED BY <1>4, <2>2, <3>1, <4>1 DEF Sound
    <3>2. CASE \E k \in DOMAIN t : j = k + Len(s) /\ w[j] = t[k]
      <4>1. PICK k \in DOMAIN t : j = k + Len(s) /\ w[j] = t[k]
        BY <3>2
      <4>2. CASE i \in DOMAIN s /\ w[i] = s[i]
        BY <4>1, <4>2 DEF Later
      <4>3. CASE \E l \in DOMAIN t : i = l + Len(s) /\ w[i] = t[l]
        <5>1. PICK l \in DOMAIN t : i = l + Len(s) /\ w[i] = t[l]
          BY <4>3
        <5>2. l < k
          BY <1>2, <2>2, <4>1, <5>1
        <5> QED BY <1>4, <4>1, <5>1, <5>2 DEF Sound
      <4> QED BY <1>3, <4>2, <4>3
    <3> QED BY <1>3, <3>1, <3>2
  <2> QED BY <2>1, <2>2 DEF Sound
<1>5. NoSilence(s) => NoSilence(w)
  BY <1>3 DEF NoSilence
<1>6. ASSUME NEW u, Later(s, u), Later(t, u) PROVE Later(w, u)
  BY <1>3, <1>6 DEF Later
<1> QED BY <1>4, <1>5, <1>6 DEF w

\* What the ring keeps of a message is a part of what it held and the message.
LEMMA ReceivePart ==
    ASSUME NEW r \in Rings(Cap - 1), NEW batch \in Seq(Samples)
    PROVE  \E a \in Nat : Part(Contents(Receive(r, batch)), Contents(r) \o batch, a)
<1> DEFINE all == Contents(r) \o batch
           c == Contents(Receive(r, batch))
<1>1. c = IF Len(all) < Cap THEN all ELSE Queue!Newest(SubSeq(all, 1, Cap), Target)
  BY ReceiveIsAddAndTrim
<1>2. all \in Seq(Samples)
  <2>1. r \in Rings(Cap)
    BY RingSizes DEF Rings
  <2> QED BY <2>1, Behind
<1> HIDE DEF all, c
<1>3. CASE Len(all) < Cap
  <2>1. \A i \in DOMAIN c : 0 + i \in DOMAIN all /\ c[i] = all[0 + i]
    BY <1>1, <1>2, <1>3
  <2> QED BY <2>1 DEF Part, all, c
<1>4. CASE ~(Len(all) < Cap)
  <2> DEFINE b == SubSeq(all, 1, Cap)
             a == Cap - Target
  <2>1. Cap \in Nat /\ Cap <= Len(all) /\ a \in Nat /\ Target \in Nat /\ a + Target = Cap
    BY <1>2, <1>4, RingSizes
  <2>2. b \in Seq(Samples) /\ Len(b) = Cap /\ \A i \in 1..Cap : b[i] = all[i]
    BY <1>2, <2>1, Beginning
  <2> HIDE DEF a, b
  <2>3. /\ SubSeq(b, a + 1, a + Target) \in Seq(Samples)
        /\ Len(SubSeq(b, a + 1, a + Target)) = Target
        /\ \A i \in 1..Target : SubSeq(b, a + 1, a + Target)[i] = b[a + i]
    BY <2>1, <2>2, CutLast
  <2>4. c = SubSeq(b, a + 1, a + Target)
    <3>1. Len(b) - Target + 1 = a + 1 /\ Len(b) = a + Target
      BY <2>1, <2>2
    <3>2. c = SubSeq(b, Len(b) - Target + 1, Len(b))
      BY <1>1, <1>4 DEF Queue!Newest, b
    <3> QED BY <3>1, <3>2
  <2>5. ASSUME NEW i \in DOMAIN c PROVE a + i \in DOMAIN all /\ c[i] = all[a + i]
    <3>1. i \in 1..Target /\ a + i \in 1..Cap
      BY <2>1, <2>3, <2>4
    <3>2. c[i] = b[a + i]
      BY <2>3, <2>4, <3>1
    <3>3. b[a + i] = all[a + i]
      BY <2>2, <3>1
    <3>4. DOMAIN all = 1..Len(all) /\ Len(all) \in Nat
      BY <1>2
    <3>5. a + i \in DOMAIN all
      BY <2>1, <3>1, <3>4
    <3> QED BY <3>2, <3>3, <3>5
  <2> QED BY <2>1, <2>5 DEF Part, all, c
<1> QED BY <1>3, <1>4

LEMMA SampleIsNat ==
    ASSUME NEW s \in Seq(Samples), NEW i \in DOMAIN s
    PROVE  s[i] \in Nat
<1>1. i \in 1..Len(s)
  OBVIOUS
<1>2. s[i] \in Samples
  BY <1>1, ElementOfSeq
<1> QED BY <1>2, AudioBoundsAssumption DEF Samples

LEMMA PushPart ==
    ASSUME NEW r \in Rings(Cap), NEW batch \in Seq(Samples), Len(batch) \in 1..Cap
    PROVE  /\ \E a \in Nat : Part(Contents(Push(r, batch)), Contents(r) \o batch, a)
           /\ Len(Contents(Push(r, batch))) > 0
           /\ Last(Contents(Push(r, batch))) = batch[Len(batch)]
<1> DEFINE all == Contents(r) \o batch
           c == Contents(Push(r, batch))
<1>1. c = IF Len(all) <= Cap THEN all ELSE Queue!Newest(all, Cap)
  BY PushIsAddMakingRoom
<1>2. all \in Seq(Samples) /\ Len(all) \in Nat /\ Len(all) >= Len(batch)
      /\ all[Len(all)] = batch[Len(batch)]
  <2>1. /\ all \in Seq(Samples) /\ Len(all) = r.len + Len(batch)
        /\ \A i \in 1..(r.len + Len(batch)) :
              all[i] = IF i <= r.len THEN Contents(r)[i] ELSE batch[i - r.len]
    BY Behind
  <2>2. r.len \in Nat
    BY RingSizes DEF Rings
  <2> HIDE DEF all
  <2>3. PICK i \in 1..(r.len + Len(batch)) : i = r.len + Len(batch)
    BY <2>2
  <2>4. ~(i <= r.len) /\ i - r.len = Len(batch)
    BY <2>2, <2>3
  <2>5. all[i] = batch[Len(batch)]
    BY <2>1, <2>4
  <2> QED BY <2>1, <2>2, <2>3, <2>5
<1> HIDE DEF all, c
<1>3. CASE Len(all) <= Cap
  <2>1. \A i \in DOMAIN c : 0 + i \in DOMAIN all /\ c[i] = all[0 + i]
    BY <1>1, <1>2, <1>3
  <2>2. Len(c) > 0 /\ Last(c) = batch[Len(batch)]
    BY <1>1, <1>2, <1>3 DEF Last
  <2> QED BY <2>1, <2>2 DEF Part, all, c
<1>4. CASE ~(Len(all) <= Cap)
  <2> DEFINE a == Len(all) - Cap
  <2>1. Cap \in Nat /\ Cap > 0 /\ a \in Nat /\ a + Cap = Len(all) /\ a + Cap <= Len(all)
    BY <1>2, <1>4, RingSizes
  <2> HIDE DEF a
  <2>2. /\ SubSeq(all, a + 1, a + Cap) \in Seq(Samples)
        /\ Len(SubSeq(all, a + 1, a + Cap)) = Cap
        /\ \A i \in 1..Cap : SubSeq(all, a + 1, a + Cap)[i] = all[a + i]
    BY <1>2, <2>1, CutLast
  <2>3. c = SubSeq(all, a + 1, a + Cap)
    <3>1. Len(all) - Cap + 1 = a + 1
      BY <1>2, <2>1
    <3>2. c = SubSeq(all, Len(all) - Cap + 1, Len(all))
      BY <1>1, <1>4 DEF Queue!Newest
    <3> QED BY <2>1, <3>1, <3>2
  <2>4. ASSUME NEW i \in DOMAIN c PROVE a + i \in DOMAIN all /\ c[i] = all[a + i]
    <3>1. i \in 1..Cap
      BY <2>1, <2>2, <2>3
    <3>2. DOMAIN all = 1..Len(all) /\ Len(all) \in Nat
      BY <1>2
    <3>3. a + i \in DOMAIN all
      BY <2>1, <3>1, <3>2
    <3> QED BY <2>2, <2>3, <3>1, <3>3
  <2>5. Len(c) > 0 /\ Last(c) = batch[Len(batch)]
    <3>1. Len(c) = Cap /\ Cap \in 1..Cap
      <4>1. Len(c) = Cap
        BY <2>2, <2>3, Zenon
      <4> QED BY <2>1, <4>1
    <3>2. c[Cap] = all[a + Cap]
      BY <2>2, <2>3, <3>1
    <3> QED BY <1>2, <2>1, <3>1, <3>2 DEF Last
  <2> QED BY <2>1, <2>4, <2>5 DEF Part, all, c
<1> QED BY <1>3, <1>4

\* What the speaker has taken: the rest comes later.
LEMMA HeardInOrder ==
    ASSUME NEW s \in Seq(Samples), NEW f, NEW m \in Nat, NEW n \in 0..Len(s),
           heard \in 0..m, Sound(s, heard, f, m),
           NEW last, last = LastHeard(SubSeq(s, 1, n))
    PROVE  /\ last \in 0..m
           /\ Sound(SubSeq(s, n + 1, Len(s)), last, f, m)
           /\ \A u : Later(s, u) /\ Sound(u, heard, f, m) /\ NoSilence(u) => Sound(u, last, f, m)
<1> DEFINE taken == SubSeq(s, 1, n)
           rest == SubSeq(s, n + 1, Len(s))
<1>1. n \in Nat /\ Len(s) \in Nat /\ n <= Len(s) /\ DOMAIN s = 1..Len(s)
  OBVIOUS
<1>2. taken \in Seq(Samples) /\ Len(taken) = n /\ \A i \in 1..n : taken[i] = s[i]
  BY <1>1, Beginning
<1>3. /\ rest \in Seq(Samples) /\ Len(rest) = Len(s) - n
      /\ \A i \in 1..(Len(s) - n) : rest[i] = s[n + i]
  <2> HIDE DEF taken
  <2>1. Len(s) \in Nat /\ Len(s) <= Len(s)
    BY <1>1
  <2> QED BY <1>1, <2>1, Cut
<1> HIDE DEF taken, rest
<1>4. DOMAIN taken = 1..n /\ DOMAIN rest = 1..(Len(s) - n)
  BY <1>1, <1>2, <1>3
<1>5. Part(rest, s, n)
  <2> SUFFICES ASSUME NEW i \in DOMAIN rest PROVE n + i \in DOMAIN s /\ rest[i] = s[n + i]
    BY DEF Part
  <2> QED BY <1>1, <1>3, <1>4
<1>6. Sound(rest, heard, f, m)
  <2>1. DOMAIN rest \subseteq Nat
    BY <1>1, <1>4
  <2> QED BY <1>1, <1>5, <2>1, PartOf
<1>7. CASE \A i \in DOMAIN taken : taken[i] = 0
  <2>1. last = heard
    BY <1>7 DEF LastHeard, taken
  <2> QED BY <1>6, <2>1 DEF rest
<1>8. CASE \E i \in DOMAIN taken : taken[i] # 0
  <2> DEFINE P(i) == taken[i] # 0 /\ \A j \in DOMAIN taken : j > i => taken[j] = 0
  <2>1. last = taken[CHOOSE i \in DOMAIN taken : P(i)]
    BY <1>8 DEF LastHeard, taken
  <2>2. PICK i \in 1..n : taken[i] # 0
    BY <1>4, <1>8
  <2>3. n \in 1..n /\ taken[n] # 0
    <3>1. n \in 1..n
      BY <1>1, <2>2
    <3>2. CASE i < n
      <4>1. i \in DOMAIN s /\ n \in DOMAIN s /\ s[i] # 0
        BY <1>1, <1>2, <2>2, <3>1
      <4>2. s[i] \in Nat /\ s[i] < s[n]
        <5>1. s[i] < s[n]
          BY <3>2, <4>1 DEF Sound
        <5> QED BY <4>1, <5>1, SampleIsNat
      <4> QED BY <1>2, <3>1, <4>2
    <3> QED BY <1>1, <2>2, <3>1, <3>2
  <2>4. P(n)
    BY <1>1, <1>4, <2>3
  <2>5. ASSUME NEW k \in DOMAIN taken, P(k) PROVE k = n
    BY <1>1, <1>4, <2>3, <2>5
  <2> HIDE DEF P
  <2>6. (CHOOSE k \in DOMAIN taken : P(k)) = n
    BY <1>4, <2>3, <2>4, <2>5
  <2>7. last = s[n] /\ s[n] # 0 /\ n \in DOMAIN s
    <3>1. last = taken[n]
      BY <2>1, <2>6, Zenon
    <3> QED BY <1>1, <1>2, <2>3, <3>1
  <2>8. last \in 0..m /\ last > heard /\ last > f
    <3>1. s[n] \in Nat
      BY <2>7, SampleIsNat
    <3> QED BY <2>7, <3>1 DEF Sound
  <2>9. Sound(rest, last, f, m)
    <3>1. ASSUME NEW j \in DOMAIN rest PROVE rest[j] > last
      <4>1. PICK k \in DOMAIN s : k = n + j /\ rest[j] = s[k] /\ n < k
        <5>1. n + j \in DOMAIN s /\ rest[j] = s[n + j] /\ n < n + j
          BY <1>1, <1>3, <1>4
        <5> QED BY <5>1, Zenon
      <4>2. s[n] < s[k]
        BY <2>7, <4>1 DEF Sound
      <4>3. s[n] \in Nat /\ s[k] \in Nat
        BY <2>7, <4>1, SampleIsNat
      <4> QED BY <2>7, <4>1, <4>2, <4>3
    <3> QED BY <1>6, <3>1 DEF Sound
  <2>10. ASSUME NEW u, Later(s, u), Sound(u, heard, f, m), NoSilence(u)
         PROVE  Sound(u, last, f, m)
    <3>1. \A j \in DOMAIN u : last < u[j]
      BY <2>7, <2>10 DEF Later
    <3>2. \A j \in DOMAIN u : u[j] > f /\ u[j] <= m /\ u[j] > last
      BY <2>10, <3>1 DEF Sound, NoSilence
    <3> QED BY <2>10, <3>2 DEF Sound
  <2> QED BY <2>8, <2>9, <2>10 DEF rest
<1> QED BY <1>7, <1>8

----------------------------------------------------------------------------
(* The sound's invariant holds.                                            *)

LEMMA RingsAre ==
    /\ \A r \in Rings(Cap - 1) : r \in Rings(Cap)
    /\ Empty \in Rings(Cap - 1) /\ Empty \in Rings(Cap) /\ Contents(Empty) = << >>
    /\ MaxSamples \in Nat /\ MaxGames \in Nat \ {0} /\ 0 \in Samples
<1>1. \A r \in Rings(Cap - 1) : r \in Rings(Cap)
  BY RingSizes DEF Rings
<1>2. MaxSamples \in Nat /\ MaxGames \in Nat \ {0} /\ 0 \in Samples
  BY AudioBoundsAssumption DEF Samples
<1>3. Empty \in Rings(Cap - 1)
  BY <1>2, RingSizes DEF Empty, Rings
<1>4. Empty.len = 0
  BY DEF Empty
<1>5. Contents(Empty) \in Seq(Samples) /\ Len(Contents(Empty)) = 0
  BY <1>1, <1>3, <1>4, ContentsIsSeq
<1>6. Contents(Empty) = << >>
  BY <1>5, EmptySeq
<1> QED BY <1>1, <1>2, <1>3, <1>6

LEMMA WaitingIsSeq ==
    ASSUME SoundTypes
    PROVE  /\ Waiting \in Seq(Samples) /\ DOMAIN Waiting = 1..Len(Waiting)
           /\ Len(Waiting) = IF worklets THEN ring.len ELSE fifo.len
<1>1. ring \in Rings(Cap) /\ fifo \in Rings(Cap)
  BY RingsAre DEF SoundTypes
<1>2. /\ Contents(ring) \in Seq(Samples) /\ Len(Contents(ring)) = ring.len
      /\ Contents(fifo) \in Seq(Samples) /\ Len(Contents(fifo)) = fifo.len
  BY <1>1, ContentsIsSeq
<1> QED BY <1>2 DEF Waiting

\* The samples of a frame.
LEMMA FramesAre ==
    ASSUME NEW batch \in Queue!Frames
    PROVE  /\ batch \in Seq(Nat) /\ Len(batch) \in 1..Batch /\ DOMAIN batch = 1..Len(batch)
           /\ (\A i \in DOMAIN batch : batch[i] <= MaxSamples) => batch \in Seq(Samples)
<1>1. PICK n \in 1..Batch, m \in 0..MaxSamples : batch = [i \in 1..n |-> m + i]
  BY DEF Queue!Frames
<1>2. n \in Nat /\ m \in Nat
  BY <1>1, RingSizes, RingsAre
<1>3. batch \in [1..n -> Nat] /\ DOMAIN batch = 1..n /\ \A i \in 1..n : batch[i] = m + i
  BY <1>1, <1>2
<1>4. batch \in Seq(Nat) /\ Len(batch) = n
  BY <1>2, <1>3, FunIsSeq
<1>5. ASSUME \A i \in DOMAIN batch : batch[i] <= MaxSamples PROVE batch \in Seq(Samples)
  <2>1. batch \in [1..n -> Samples]
    BY <1>2, <1>3, <1>5, RingsAre DEF Samples
  <2> QED BY <1>2, <2>1, FunIsSeq
<1> QED BY <1>3, <1>4, <1>5

LEMMA NewFrame ==
    ASSUME SoundInv, NEW n \in 1..Batch, made + n <= MaxSamples,
           NEW batch, batch = [i \in 1..n |-> made + i]
    PROVE  /\ batch \in Queue!Frames /\ batch \in Seq(Samples)
           /\ Len(batch) = n /\ n \in Nat /\ n > 0 /\ batch[n] = made + n
           /\ Sound(batch, heard, first, made + n) /\ NoSilence(batch) /\ Later(Waiting, batch)
           /\ \A k \in DOMAIN port : Later(port[k], batch)
<1>1. /\ n \in Nat /\ n > 0 /\ made \in Nat /\ made <= MaxSamples
      /\ heard \in 0..made /\ first \in 0..made
  BY RingSizes, RingsAre DEF SoundInv, SoundTypes, Samples
<1>2. batch \in Queue!Frames
  <2>1. made \in 0..MaxSamples
    BY <1>1, RingsAre
  <2> QED BY <2>1 DEF Queue!Frames
<1>3. DOMAIN batch = 1..n /\ \A i \in 1..n : batch[i] = made + i /\ batch[i] \in Nat
  BY <1>1
<1>4. Len(batch) = n /\ batch[n] = made + n
  <2>1. batch \in [1..n -> Nat]
    BY <1>1
  <2> QED BY <1>1, <1>3, <2>1, FunIsSeq
<1>5. \A i \in DOMAIN batch : batch[i] <= MaxSamples
  BY <1>1, <1>3, RingsAre
<1>6. batch \in Seq(Samples)
  BY <1>2, <1>5, FramesAre
<1>7. Sound(batch, heard, first, made + n) /\ NoSilence(batch)
  BY <1>1, <1>3 DEF Sound, NoSilence
<1>8. ASSUME NEW s \in Seq(Nat), Sound(s, heard, first, made) PROVE Later(s, batch)
  <2> SUFFICES ASSUME NEW i \in DOMAIN s, NEW j \in DOMAIN batch PROVE s[i] < batch[j]
    BY DEF Later
  <2>1. s[i] \in Nat /\ s[i] <= made
    <3>1. s[i] \in Nat
      OBVIOUS
    <3> QED BY <1>1, <1>8, <3>1 DEF Sound
  <2> QED BY <1>1, <1>3, <2>1
<1>9. Later(Waiting, batch)
  <2>1. \A i \in DOMAIN Waiting : Waiting[i] \in Nat
    BY WaitingIsSeq, SampleIsNat DEF SoundInv
  <2>2. Waiting \in Seq(Nat)
    BY <2>1, WaitingIsSeq DEF SoundInv
  <2> QED BY <1>8, <2>2 DEF SoundInv, Order
<1>10. ASSUME NEW k \in DOMAIN port PROVE Later(port[k], batch)
  <2>1. port[k] \in Queue!Frames
    BY DEF SoundInv, SoundTypes
  <2> QED BY <1>8, <2>1, FramesAre DEF SoundInv, Order, Follows
<1> QED BY <1>1, <1>2, <1>4, <1>6, <1>7, <1>9, <1>10

\* A message on its way.
LEMMA Message ==
    ASSUME SoundInv, NEW k \in DOMAIN port
    PROVE  port[k] \in Queue!Frames /\ port[k] \in Seq(Samples)
<1>1. port[k] \in Queue!Frames
  BY DEF SoundInv, SoundTypes
<1>2. \A i \in DOMAIN port[k] : port[k][i] <= MaxSamples
  <2>1. /\ made \in Nat /\ made <= MaxSamples /\ MaxSamples \in Nat
        /\ Sound(port[k], heard, first, made) /\ NoSilence(port[k])
    BY RingsAre DEF SoundInv, SoundTypes, Samples, Order, Follows
  <2>2. \A i \in DOMAIN port[k] : port[k][i] \in Nat
    BY <1>1, FramesAre
  <2> QED BY <2>1, <2>2 DEF Sound, NoSilence
<1> QED BY <1>1, <1>2, FramesAre

\* A queue of silence is sound for any game.
LEMMA Silence ==
    ASSUME NEW s, NEW h, NEW f, NEW m, \A i \in DOMAIN s : s[i] = 0
    PROVE  Sound(s, h, f, m)
BY DEF Sound

\* What each action may touch, besides the lives of the games.
LEMMA SoundInit == Init => SoundInv
<1> SUFFICES ASSUME Init PROVE SoundInv
  OBVIOUS
<1> USE DEF Init
<1>1. SoundTypes
  <2>1. port \in Seq(Queue!Frames)
    BY EmptySeq
  <2>2. {worklets, playing, paused, running, ready, started, ordered} \subseteq BOOLEAN
    OBVIOUS
  <2>3. ctx \in 1..MaxGames /\ node \in 0..ctx /\ loading \subseteq 1..ctx
    BY RingsAre
  <2>4. made \in Samples /\ first \in 0..made /\ heard \in 0..made
    BY RingsAre
  <2> QED BY <2>1, <2>2, <2>3, <2>4, RingsAre DEF SoundTypes
<1>2. Lives
  BY DEF Lives, Empty
<1>3. LoadsInOrder
  BY DEF LoadsInOrder
<1>4. Waiting = << >>
  BY RingsAre DEF Waiting
<1>5. Order
  BY <1>4 DEF Order, Sound, NoSilence
<1>6. NewestIsKept
  BY DEF NewestIsKept
<1> QED BY <1>1, <1>2, <1>3, <1>5, <1>6 DEF SoundInv

LEMMA StepTypes == SoundInv /\ Next => SoundTypes'
<1> SUFFICES ASSUME SoundInv, Next PROVE SoundTypes'
  OBVIOUS
<1> USE DEF SoundInv
<1>0. SoundTypes /\ Lives /\ made \in Nat /\ first \in Nat /\ ctx \in Nat
  BY RingsAre DEF SoundTypes, Samples
<1>1. CASE Start
  BY <1>0, <1>1 DEF SoundTypes, Start, buffer
<1>2. CASE Pause \/ Resume \/ ContextFollows
  BY <1>0, <1>2 DEF SoundTypes, Pause, Resume, ContextFollows, buffer
<1>3. CASE Shutdown
  <2>1. fifo' \in Rings(Cap)
    BY <1>0, <1>3, RingsAre DEF SoundTypes, Shutdown, Rings, Empty
  <2>2. port' \in Seq(Queue!Frames)
    BY <1>3, EmptySeq DEF Shutdown
  <2>3. ctx' \in 1..MaxGames /\ node' \in 0..ctx' /\ loading' \subseteq 1..ctx'
    BY <1>0, <1>3, RingsAre DEF SoundTypes, Shutdown
  <2> QED BY <1>0, <1>3, <2>1, <2>2, <2>3, RingsAre DEF SoundTypes, Shutdown
<1>4. CASE \E c \in loading : Loaded(c) \/ LoadFails(c)
  <2>1. PICK c \in loading : Loaded(c) \/ LoadFails(c)
    BY <1>4
  <2>2. c \in 1..ctx
    BY <1>0 DEF SoundTypes
  <2>3. node' \in 0..ctx /\ loading' \subseteq 1..ctx /\ ready' \in BOOLEAN
    <3>1. node' \in 0..ctx /\ loading' \subseteq 1..ctx
      <4>1. (node' = c \/ node' = node) /\ loading' = loading \ {c}
        BY <2>1, Zenon DEF Loaded, LoadFails
      <4>2. ctx \in Nat /\ node \in 0..ctx /\ loading \subseteq 1..ctx
        BY <1>0 DEF SoundTypes
      <4> QED BY <2>2, <4>1, <4>2
    <3>2. ready' \in BOOLEAN
      <4>1. (ready \/ c = ctx) \in BOOLEAN
        OBVIOUS
      <4>2. ready' = (ready \/ c = ctx) \/ ready' = ready
        BY <2>1 DEF Loaded, LoadFails
      <4>3. ready \in BOOLEAN
        BY <1>0 DEF SoundTypes
      <4> QED BY <4>1, <4>2, <4>3, Zenon
    <3> QED BY <3>1, <3>2
  <2> QED BY <1>0, <2>1, <2>3 DEF SoundTypes, Loaded, LoadFails, buffer
<1>5. CASE \E n \in 1..Batch : Frame(n)
  <2>1. PICK n \in 1..Batch : Frame(n)
    BY <1>5
  <2> DEFINE batch == [i \in 1..n |-> made + i]
  <2>2. made + n <= MaxSamples
    BY <2>1 DEF Frame
  <2>3. /\ batch \in Queue!Frames /\ batch \in Seq(Samples)
        /\ Len(batch) = n /\ n \in Nat /\ n > 0
    BY <2>2, NewFrame
  <2>4. /\ made' = made + n
        /\ port' = IF node = ctx /\ running THEN Append(port, batch) ELSE port
        /\ fifo' = IF node = 0 /\ ~worklets THEN Push(fifo, batch) ELSE fifo
        /\ UNCHANGED <<life, ring, started, heard>>
    BY <2>1 DEF Frame
  <2> HIDE DEF batch
  <2>5. port' \in Seq(Queue!Frames)
    BY <1>0, <2>3, <2>4, AppendProperties DEF SoundTypes
  <2>6. Len(batch) <= Cap
    BY <2>3, RingSizes
  <2>7. fifo' \in Rings(Cap)
    BY <1>0, <2>3, <2>4, <2>6, PushIsAddMakingRoom DEF SoundTypes
  <2>8. made' \in Samples /\ first' \in 0..made' /\ heard' \in 0..made'
    BY <1>0, <2>2, <2>3, <2>4, RingsAre DEF SoundTypes, life, Samples
  <2> QED BY <1>0, <2>4, <2>5, <2>7, <2>8 DEF SoundTypes, life
<1>6. CASE Deliver
  <2>1. port # << >> /\ port \in Seq(Queue!Frames)
    BY <1>0, <1>6 DEF SoundTypes, Deliver
  <2>2. Tail(port) \in Seq(Queue!Frames) /\ Head(port) = port[1] /\ 1 \in DOMAIN port
    BY <2>1, HeadTailProperties
  <2>3. Receive(ring, Head(port)) \in Rings(Cap - 1)
    BY <1>0, <2>2, Message, ReceiveIsAddAndTrim DEF SoundTypes
  <2> QED BY <1>0, <1>6, <2>2, <2>3 DEF SoundTypes, Deliver, life
<1>7. ASSUME NEW r \in Rings(Cap), Hear(r), Sound(Contents(r), heard, first, made)
      PROVE  /\ heard' \in 0..made
             /\ Drop(r, Least(Quantum, r.len)) \in Rings(Cap)
             /\ r \in Rings(Cap - 1) => Drop(r, Least(Quantum, r.len)) \in Rings(Cap - 1)
  <2>1. Least(Quantum, r.len) \in 0..r.len /\ r.len \in 0..Cap
    BY RingSizes DEF Rings, Least
  <2>2. Contents(r) \in Seq(Samples) /\ Len(Contents(r)) = r.len
    BY ContentsIsSeq
  <2>3. heard' = LastHeard(SubSeq(Contents(r), 1, Least(Quantum, r.len)))
    BY <1>7 DEF Hear
  <2>4. heard' \in 0..made
    <3>1. heard \in 0..made
      BY <1>0 DEF SoundTypes
    <3> QED BY <1>0, <1>7, <2>1, <2>2, <2>3, <3>1, HeardInOrder
  <2>5. /\ Drop(r, Least(Quantum, r.len)) \in Rings(r.len - Least(Quantum, r.len))
        /\ Drop(r, Least(Quantum, r.len)) \in Rings(Cap)
    BY <2>1, DropIsSubSeq
  <2>6. ASSUME r \in Rings(Cap - 1) PROVE Drop(r, Least(Quantum, r.len)) \in Rings(Cap - 1)
    <3>1. r.len \in 0..(Cap - 1)
      BY <2>6 DEF Rings
    <3>2. 0..(r.len - Least(Quantum, r.len)) \subseteq 0..(Cap - 1)
      BY <2>1, <3>1, RingSizes
    <3> QED BY <2>5, <3>2 DEF Rings
  <2> QED BY <2>4, <2>5, <2>6
<1>8. CASE Process
  <2>1. worklets /\ Waiting = Contents(ring) /\ ring \in Rings(Cap) /\ ring \in Rings(Cap - 1)
    BY <1>0, <1>8, RingsAre DEF Process, Lives, Waiting, SoundTypes
  <2>2. /\ heard' \in 0..made
        /\ Drop(ring, Least(Quantum, ring.len)) \in Rings(Cap - 1)
    BY <1>7, <1>8, <2>1 DEF Process, Order
  <2>3. (ring.len >= Quantum) \in BOOLEAN
    OBVIOUS
  <2> QED BY <1>0, <1>8, <2>2, <2>3 DEF SoundTypes, Process, life
<1>9. CASE ProcessQueue
  <2>1. Waiting = Contents(fifo) /\ fifo \in Rings(Cap)
    BY <1>0, <1>9 DEF ProcessQueue, Waiting, SoundTypes
  <2>2. /\ heard' \in 0..made
        /\ Drop(fifo, Least(Quantum, fifo.len)) \in Rings(Cap)
    BY <1>7, <1>9, <2>1 DEF ProcessQueue, Order
  <2> QED BY <1>0, <1>9, <2>2 DEF SoundTypes, ProcessQueue, life
<1> QED BY <1>1, <1>2, <1>3, <1>4, <1>5, <1>6, <1>8, <1>9 DEF Next

LEMMA StepLives == SoundInv /\ Next => Lives'
<1> SUFFICES ASSUME SoundInv, Next PROVE Lives'
  OBVIOUS
<1>0. /\ Lives /\ ctx \in Nat /\ loading \subseteq 1..ctx /\ node \in 0..ctx
      /\ fifo \in Rings(Cap) /\ worklets \in BOOLEAN
  BY RingsAre DEF SoundInv, SoundTypes
<1>1. CASE Start
  BY <1>0, <1>1 DEF Lives, Start, buffer
<1>2. CASE Pause \/ Resume \/ ContextFollows
  BY <1>0, <1>2 DEF Lives, Pause, Resume, ContextFollows, buffer
<1>3. CASE Shutdown
  <2>1. /\ \A i \in DOMAIN fifo'.slots : fifo'.slots[i] = 0
    BY <1>0, <1>3 DEF Shutdown, Rings, Empty
  <2>2. ctx' \notin loading'
    BY <1>0, <1>3 DEF Shutdown
  <2>3. ring'.len = 0
    BY <1>3 DEF Shutdown, Empty
  <2> QED BY <1>0, <1>3, <2>1, <2>2, <2>3 DEF Lives, Shutdown
<1>4. CASE \E c \in loading : Loaded(c) \/ LoadFails(c)
  <2>1. PICK c \in loading : Loaded(c) \/ LoadFails(c)
    BY <1>4
  <2>2. /\ worklets /\ (~playing => c # ctx)
    BY <1>0, <2>1 DEF Lives
  <2>3. /\ loading' = loading \ {c}
        /\ (node' = node \/ node' = c)
        /\ (ready' = ready \/ ready' = (ready \/ c = ctx))
        /\ UNCHANGED <<worklets, playing, ctx, port, ring, fifo>>
    BY <2>1, Zenon DEF Loaded, LoadFails, buffer
  <2>4. ready' => ready \/ c = ctx
    BY <2>3, Zenon
  <2> QED BY <1>0, <2>2, <2>3, <2>4 DEF Lives
<1>5. CASE \E n \in 1..Batch : Frame(n)
  <2>1. PICK n \in 1..Batch : Frame(n)
    BY <1>5
  <2>2. /\ playing' /\ UNCHANGED <<worklets, playing, ctx, loading, node, ready>>
        /\ node = ctx \/ port' = port
    BY <2>1 DEF Frame, life
  <2>3. ctx # 0
    BY DEF SoundInv, SoundTypes
  <2> QED BY <1>0, <2>2, <2>3 DEF Lives
<1>6. CASE Deliver
  <2>1. ready /\ port # << >> /\ UNCHANGED <<worklets, playing, ctx, loading, node, ready>>
    BY <1>6 DEF Deliver, life
  <2> QED BY <1>0, <2>1 DEF Lives
<1>7. CASE Process
  <2>1. ready /\ UNCHANGED <<worklets, playing, ctx, loading, node, ready, port>>
    BY <1>7 DEF Process, life
  <2> QED BY <1>0, <2>1 DEF Lives
<1>8. CASE ProcessQueue
  <2>1. playing /\ UNCHANGED <<worklets, playing, ctx, loading, node, ready, port>>
    BY <1>8 DEF ProcessQueue, life
  <2> QED BY <1>0, <2>1 DEF Lives
<1> QED BY <1>1, <1>2, <1>3, <1>4, <1>5, <1>6, <1>7, <1>8 DEF Next

LEMMA StepLoads == SoundInv /\ Next => LoadsInOrder'
<1> SUFFICES ASSUME SoundInv, Next, ordered', ready' PROVE loading' = {} /\ node' = ctx'
  BY DEF LoadsInOrder
<1>0. /\ LoadsInOrder /\ Lives /\ ctx \in Nat /\ loading \subseteq 1..ctx
  BY RingsAre DEF SoundInv, SoundTypes
<1>1. CASE Start
  BY <1>0, <1>1 DEF Lives, Start
<1>2. CASE Pause \/ Resume \/ ContextFollows
  BY <1>0, <1>2 DEF LoadsInOrder, Pause, Resume, ContextFollows
<1>3. CASE Shutdown
  BY <1>3 DEF Shutdown
<1>4. CASE \E c \in loading : Loaded(c) \/ LoadFails(c)
  <2>1. PICK c \in loading : Loaded(c) \/ LoadFails(c)
    BY <1>4
  <2>2. ordered
    BY <2>1 DEF Loaded, LoadFails
  <2>3. ~ready
    BY <1>0, <2>1, <2>2 DEF LoadsInOrder
  <2>4. Loaded(c) /\ c = ctx
    BY <2>1, <2>3 DEF Loaded, LoadFails
  <2>5. \A d \in loading : c <= d
    BY <2>2, <2>4 DEF Loaded, NextToLoad
  <2>6. loading = {c}
    <3>1. \A d \in loading : d = c
      BY <1>0, <2>4, <2>5
    <3> QED BY <2>1, <3>1
  <2> QED BY <2>4, <2>6 DEF Loaded
<1>5. CASE \/ \E n \in 1..Batch : Frame(n)
           \/ Deliver \/ Process \/ ProcessQueue
  <2>1. UNCHANGED life
    BY <1>5 DEF Frame, Deliver, Process, ProcessQueue
  <2> QED BY <1>0, <2>1 DEF LoadsInOrder, life
<1> QED BY <1>1, <1>2, <1>3, <1>4, <1>5 DEF Next

\* What waits to be played, after a step of each kind.
LEMMA StepWaiting ==
    ASSUME SoundInv, Next
    PROVE  \/ Start /\ Waiting' = Waiting /\ (\A i \in DOMAIN Waiting : Waiting[i] = 0)
           \/ Shutdown /\ \/ worklets /\ Waiting' = << >>
                          \/ ~worklets /\ Waiting' = [i \in DOMAIN Waiting |-> 0]
           \/ /\ Waiting' = Waiting
              /\ UNCHANGED <<worklets, playing, port, fifo, first, made, heard>>
           \/ \E n \in 1..Batch, batch \in Queue!Frames :
                /\ Frame(n) /\ batch = [i \in 1..n |-> made + i]
                /\ \/ worklets /\ Waiting' = Waiting
                   \/ ~worklets /\ fifo' = Push(fifo, batch) /\ port' = port
           \/ worklets /\ Deliver
           \/ worklets /\ Process
           \/ ~worklets /\ ProcessQueue
<1>0. SoundTypes /\ Lives
  BY DEF SoundInv
<1>1. CASE Start
  <2>1. \A i \in DOMAIN Waiting : Waiting[i] = 0
    <3>1. ~playing /\ ring.len = 0 /\ \A i \in DOMAIN fifo.slots : fifo.slots[i] = 0
      BY <1>0, <1>1 DEF Start, Lives
    <3>2. CASE worklets
      BY <1>0, <3>1, <3>2, WaitingIsSeq
    <3>3. CASE ~worklets
      <4>1. fifo \in Rings(Cap) /\ Waiting = Contents(fifo)
        BY <1>0, <3>3 DEF SoundTypes, Waiting
      <4>2. DOMAIN fifo.slots = 0..(Cap - 1) /\ fifo.head \in Nat /\ fifo.len \in Nat
        BY <4>1, RingSizes DEF Rings
      <4> SUFFICES ASSUME NEW i \in 1..fifo.len PROVE Contents(fifo)[i] = 0
        BY <4>1, ContentsIsSeq
      <4>3. fifo.head + i - 1 \in Nat
        BY <4>2
      <4> QED BY <3>1, <4>1, <4>2, <4>3, ContentsIsSeq, Wrap, ZenonT(60)
    <3> QED BY <3>2, <3>3
  <2>2. Waiting' = Waiting
    BY <1>1 DEF Start, buffer, Waiting
  <2> QED BY <1>1, <2>1, <2>2
<1>2. CASE Pause \/ Resume \/ ContextFollows
  BY <1>2 DEF Pause, Resume, ContextFollows, buffer, Waiting
<1>3. CASE Shutdown
  <2>1. CASE worklets
    BY <1>3, <2>1, RingsAre DEF Shutdown, Waiting
  <2>2. CASE ~worklets
    <3>1. /\ fifo \in Rings(Cap) /\ fifo' = [fifo EXCEPT !.slots = Empty.slots]
          /\ Waiting = Contents(fifo) /\ Waiting' = Contents(fifo')
      BY <1>0, <1>3, <2>2 DEF SoundTypes, Shutdown, Waiting
    <3>2. /\ fifo'.slots = [i \in 0..(Cap - 1) |-> 0]
          /\ fifo'.head = fifo.head /\ fifo'.len = fifo.len
          /\ fifo.head \in Nat /\ fifo.len \in Nat
      BY <3>1, RingSizes DEF Empty, Rings
    <3>3. fifo' \in Rings(Cap)
      BY <3>1, RingsAre DEF Rings, Empty
    <3>4. /\ Contents(fifo') \in Seq(Samples) /\ Len(Contents(fifo')) = fifo.len
          /\ DOMAIN Contents(fifo') = 1..fifo.len /\ DOMAIN Contents(fifo) = 1..fifo.len
          /\ \A i \in 1..fifo.len : Contents(fifo')[i] = fifo'.slots[Slot(fifo'.head + i - 1)]
      BY <3>1, <3>2, <3>3, ContentsIsSeq
    <3>5. ASSUME NEW i \in 1..fifo.len PROVE Contents(fifo')[i] = 0
      <4>1. fifo'.head + i - 1 \in Nat
        BY <3>2
      <4>2. Slot(fifo'.head + i - 1) \in 0..(Cap - 1)
        BY <4>1, Wrap
      <4> QED BY <3>2, <3>4, <4>2
    <3>6. Contents(fifo') = [i \in DOMAIN Contents(fifo) |-> 0]
      BY <3>4, <3>5
    <3> QED BY <1>3, <2>2, <3>1, <3>6
  <2> QED BY <2>1, <2>2
<1>4. CASE \E c \in loading : Loaded(c) \/ LoadFails(c)
  BY <1>4 DEF Loaded, LoadFails, buffer, Waiting
<1>5. CASE \E n \in 1..Batch : Frame(n)
  <2>1. PICK n \in 1..Batch : Frame(n)
    BY <1>5
  <2>2. PICK batch : batch = [i \in 1..n |-> made + i]
    OBVIOUS
  <2>3. batch \in Queue!Frames
    <3>1. made + n <= MaxSamples
      BY <2>1 DEF Frame
    <3> QED BY <2>2, <3>1, NewFrame
  <2>4. CASE worklets
    <3>1. Waiting' = Waiting
      BY <2>1, <2>4 DEF Frame, life, Waiting
    <3> QED BY <2>1, <2>2, <2>3, <2>4, <3>1
  <2>5. CASE ~worklets
    <3>1. node = 0 /\ ctx # 0
      BY <1>0, <2>5, RingsAre DEF Lives, SoundTypes
    <3>2. fifo' = Push(fifo, batch) /\ port' = port
      BY <2>1, <2>2, <2>5, <3>1 DEF Frame
    <3> QED BY <2>1, <2>2, <2>3, <2>5, <3>2
  <2> QED BY <2>4, <2>5
<1>6. CASE Deliver \/ Process
  BY <1>0, <1>6 DEF Deliver, Process, Lives
<1>7. CASE ProcessQueue
  BY <1>7 DEF ProcessQueue
<1> QED BY <1>1, <1>2, <1>3, <1>4, <1>5, <1>6, <1>7 DEF Next

LEMMA StepOrder == SoundInv /\ Next => Order'
<1> SUFFICES ASSUME SoundInv, Next PROVE Order'
  OBVIOUS
<1>0. /\ SoundTypes /\ Lives /\ Order /\ made \in Nat
      /\ Waiting \in Seq(Samples) /\ DOMAIN Waiting = 1..Len(Waiting)
      /\ port \in Seq(Queue!Frames) /\ DOMAIN port = 1..Len(port) /\ Len(port) \in Nat
  BY WaitingIsSeq, RingsAre DEF SoundInv, SoundTypes, Samples
<1>1. CASE Start /\ Waiting' = Waiting /\ \A i \in DOMAIN Waiting : Waiting[i] = 0
  <2>1. port' = << >> /\ worklets' = worklets
    BY <1>0, <1>1 DEF Start, Lives, buffer
  <2>2. Sound(Waiting', heard', first', made')
    BY <1>1, Silence
  <2>3. worklets => NoSilence(Waiting')
    BY <1>0, <1>1 DEF Order
  <2> QED BY <2>1, <2>2, <2>3 DEF Order
<1>2. CASE Shutdown /\ \/ worklets /\ Waiting' = << >>
                       \/ ~worklets /\ Waiting' = [i \in DOMAIN Waiting |-> 0]
  <2>1. port' = << >> /\ worklets' = worklets
    BY <1>2 DEF Shutdown
  <2>2. \A i \in DOMAIN Waiting' : Waiting'[i] = 0
    BY <1>2
  <2>3. Sound(Waiting', heard', first', made')
    BY <2>2, Silence
  <2>4. worklets => NoSilence(Waiting')
    BY <1>2 DEF NoSilence
  <2> QED BY <2>1, <2>3, <2>4 DEF Order
<1>3. CASE /\ Waiting' = Waiting
           /\ UNCHANGED <<worklets, playing, port, fifo, first, made, heard>>
  BY <1>0, <1>3 DEF Order, Follows
<1>4. ASSUME NEW n \in 1..Batch, NEW batch \in Queue!Frames,
             Frame(n), batch = [i \in 1..n |-> made + i],
             \/ worklets /\ Waiting' = Waiting
             \/ ~worklets /\ fifo' = Push(fifo, batch) /\ port' = port
      PROVE  Order'
  <2>1. made + n <= MaxSamples
    BY <1>4 DEF Frame
  <2>2. /\ batch \in Seq(Samples) /\ Len(batch) = n /\ n \in Nat /\ n > 0
        /\ Sound(batch, heard, first, made + n) /\ NoSilence(batch) /\ Later(Waiting, batch)
        /\ \A k \in DOMAIN port : Later(port[k], batch)
    BY <1>4, <2>1, NewFrame
  <2>3. /\ made' = made + n
        /\ port' = IF node = ctx /\ running THEN Append(port, batch) ELSE port
        /\ UNCHANGED <<worklets, first, heard>>
    BY <1>4 DEF Frame, life
  <2>4. ASSUME NEW s \in Seq(Nat), Sound(s, heard, first, made)
        PROVE  Sound(s, heard, first, made + n)
    <3> SUFFICES ASSUME NEW i \in DOMAIN s, s[i] <= made PROVE s[i] <= made + n
      BY <2>4 DEF Sound
    <3>1. s[i] \in Nat
      OBVIOUS
    <3> QED BY <1>0, <2>2, <3>1
  <2>5. \A s \in Seq(Samples) : s \in Seq(Nat)
    BY RingsAre DEF Samples
  <2>6. Sound(Waiting, heard, first, made + n)
    BY <1>0, <2>4, <2>5 DEF Order
  <2>7. \A k \in DOMAIN port : port[k] \in Seq(Samples) /\ Sound(port[k], heard, first, made + n)
    BY <1>0, <2>4, <2>5, Message DEF Order, Follows
  <2>8. CASE worklets /\ Waiting' = Waiting
    <3>1. CASE port' = port
      BY <1>0, <2>3, <2>6, <2>7, <2>8, <3>1 DEF Order, Follows
    <3>2. CASE port' = Append(port, batch)
      <4>1. /\ DOMAIN port' = 1..(Len(port) + 1)
            /\ \A k \in DOMAIN port : port'[k] = port[k]
            /\ port'[Len(port) + 1] = batch
        BY <1>0, <3>2, AppendProperties
      <4>2. ASSUME NEW k \in DOMAIN port' PROVE Follows(k)'
        <5>1. CASE k \in DOMAIN port
          <6>1. ASSUME NEW l \in DOMAIN port', k < l PROVE Later(port[k], port'[l])
            <7>1. CASE l \in DOMAIN port
              BY <1>0, <4>1, <5>1, <6>1, <7>1 DEF Order, Follows
            <7>2. CASE l = Len(port) + 1
              BY <2>2, <4>1, <5>1, <7>2
            <7> QED BY <1>0, <4>1, <7>1, <7>2
          <6> QED BY <1>0, <2>3, <2>7, <2>8, <4>1, <5>1, <6>1 DEF Order, Follows
        <5>2. CASE k = Len(port) + 1
          <6>1. \A l \in DOMAIN port' : ~(k < l)
            BY <1>0, <4>1, <5>2
          <6> QED BY <2>2, <2>3, <2>8, <4>1, <5>2, <6>1 DEF Follows
        <5> QED BY <1>0, <4>1, <5>1, <5>2
      <4> QED BY <1>0, <2>3, <2>6, <2>8, <4>2 DEF Order
    <3> QED BY <2>3, <3>1, <3>2
  <2>9. CASE ~worklets /\ fifo' = Push(fifo, batch) /\ port' = port
    <3>1. port = << >>
      BY <1>0, <2>9 DEF Lives
    <3>2. Waiting = Contents(fifo) /\ Waiting' = Contents(fifo') /\ fifo \in Rings(Cap)
      BY <1>0, <2>3, <2>9 DEF Waiting, SoundTypes
    <3>3. Sound(Waiting \o batch, heard, first, made + n)
      BY <1>0, <2>2, <2>6, SoundAndSound
    <3>4. Len(batch) \in 1..Cap
      BY <2>2, RingSizes
    <3>5. PICK a \in Nat : Part(Waiting', Waiting \o batch, a)
      BY <2>2, <2>9, <3>2, <3>4, PushPart
    <3>6. DOMAIN Waiting' \subseteq Nat
      <4>1. Push(fifo, batch) \in Rings(Cap)
        BY <2>2, <3>2, <3>4, RingSizes, PushIsAddMakingRoom
      <4>2. DOMAIN Waiting' = 1..fifo'.len
        BY <2>9, <3>2, <4>1, ContentsIsSeq
      <4> QED BY <4>2
    <3>7. Sound(Waiting', heard, first, made + n)
      BY <3>3, <3>5, <3>6, PartOf
    <3> QED BY <2>3, <2>9, <3>1, <3>7 DEF Order
  <2> QED BY <1>4, <2>8, <2>9
<1>5. CASE worklets /\ Deliver
  <2>1. /\ port # << >> /\ ring' = Receive(ring, Head(port)) /\ port' = Tail(port)
        /\ UNCHANGED <<worklets, first, made, heard>>
    BY <1>5 DEF Deliver, life
  <2>2. /\ Head(port) = port[1] /\ 1 \in DOMAIN port
        /\ DOMAIN port' = 1..(Len(port) - 1)
        /\ \A k \in DOMAIN port' : port'[k] = port[k + 1]
    BY <1>0, <2>1, HeadTailProperties
  <2>3. PICK batch : batch = Head(port)
    OBVIOUS
  <2>4. /\ batch \in Seq(Samples) /\ Sound(batch, heard, first, made) /\ NoSilence(batch)
        /\ Later(Waiting, batch)
        /\ \A l \in DOMAIN port : 1 < l => Later(batch, port[l])
    BY <1>0, <2>2, <2>3, Message DEF Order, Follows
  <2>5. /\ Waiting = Contents(ring) /\ Waiting' = Contents(Receive(ring, batch))
        /\ ring \in Rings(Cap - 1)
    BY <1>0, <1>5, <2>1, <2>3 DEF Waiting, SoundTypes
  <2>6. PICK a \in Nat : Part(Waiting', Waiting \o batch, a)
    BY <2>4, <2>5, ReceivePart
  <2>7. DOMAIN Waiting' \subseteq Nat
    <3>1. Receive(ring, batch) \in Rings(Cap)
      BY <2>4, <2>5, ReceiveIsAddAndTrim, RingsAre
    <3>2. DOMAIN Waiting' = 1..Receive(ring, batch).len
      BY <2>5, <3>1, ContentsIsSeq
    <3> QED BY <3>2
  <2>8. /\ Sound(Waiting \o batch, heard, first, made) /\ NoSilence(Waiting \o batch)
        /\ \A u : Later(Waiting, u) /\ Later(batch, u) => Later(Waiting \o batch, u)
    BY <1>0, <1>5, <2>4, SoundAndSound DEF Order
  <2>9. /\ Sound(Waiting', heard, first, made) /\ NoSilence(Waiting')
        /\ \A u : Later(Waiting \o batch, u) => Later(Waiting', u)
    BY <2>6, <2>7, <2>8, PartOf
  <2>10. ASSUME NEW k \in DOMAIN port' PROVE Follows(k)'
    <3>1. k \in Nat /\ k + 1 \in DOMAIN port /\ 1 < k + 1
      BY <1>0, <2>2
    <3>2. Follows(k + 1)
      BY <1>0, <3>1 DEF Order
    <3>3. Later(Waiting', port[k + 1])
      BY <2>4, <2>8, <2>9, <3>1, <3>2 DEF Follows
    <3>4. ASSUME NEW l \in DOMAIN port', k < l PROVE Later(port[k + 1], port'[l])
      <4>1. l + 1 \in DOMAIN port /\ k + 1 < l + 1
        BY <1>0, <2>2, <3>1, <3>4
      <4> QED BY <2>2, <3>2, <4>1 DEF Follows
    <3> QED BY <2>1, <2>2, <3>2, <3>3, <3>4 DEF Follows
  <2> QED BY <1>5, <2>1, <2>9, <2>10 DEF Order
<1>6. ASSUME NEW r \in Rings(Cap), Waiting = Contents(r), Hear(r),
             Waiting' = Contents(Drop(r, Least(Quantum, r.len))),
             UNCHANGED <<worklets, port, first, made>>
      PROVE  Order'
  <2> DEFINE n == Least(Quantum, r.len)
  <2>1. n \in 0..r.len /\ n \in Nat /\ r.len \in Nat /\ Len(Waiting) = r.len
    BY <1>6, RingSizes, ContentsIsSeq DEF Rings, Least
  <2>2. heard' = LastHeard(SubSeq(Waiting, 1, n))
    BY <1>6 DEF Hear
  <2>3. Waiting' = SubSeq(Waiting, n + 1, Len(Waiting))
    BY <1>6, <2>1, DropIsSubSeq
  <2> HIDE DEF n
  <2>4. /\ Sound(Waiting', heard', first, made)
        /\ \A u : Later(Waiting, u) /\ Sound(u, heard, first, made) /\ NoSilence(u)
                    => Sound(u, heard', first, made)
    <3>1. heard \in 0..made /\ Sound(Waiting, heard, first, made)
      BY <1>0 DEF SoundTypes, Order
    <3> QED BY <1>0, <2>1, <2>2, <2>3, <3>1, HeardInOrder
  <2>5. Part(Waiting', Waiting, n) /\ DOMAIN Waiting' \subseteq Nat
    <3>1. /\ Waiting' \in Seq(Samples) /\ Len(Waiting') = r.len - n
          /\ \A i \in 1..(r.len - n) : Waiting'[i] = Waiting[n + i]
      <4>1. r.len <= Len(Waiting) /\ n <= r.len
        BY <2>1
      <4> QED BY <1>0, <2>1, <2>3, <4>1, Cut
    <3>2. DOMAIN Waiting' = 1..(r.len - n) /\ DOMAIN Waiting = 1..r.len
      BY <1>0, <2>1, <3>1
    <3>3. \A i \in DOMAIN Waiting' : n + i \in DOMAIN Waiting
      BY <2>1, <3>2
    <3> QED BY <3>1, <3>2, <3>3 DEF Part
  <2>6. /\ NoSilence(Waiting) => NoSilence(Waiting')
        /\ \A u : Later(Waiting, u) => Later(Waiting', u)
    BY <2>1, <2>5, PartOf
  <2>7. ASSUME NEW k \in DOMAIN port PROVE Follows(k)'
    BY <1>0, <1>6, <2>4, <2>6 DEF Order, Follows
  <2> QED BY <1>0, <1>6, <2>4, <2>6, <2>7 DEF Order
<1>7. CASE worklets /\ Process
  <2>1. /\ ring \in Rings(Cap) /\ Waiting = Contents(ring) /\ Hear(ring)
        /\ Waiting' = Contents(Drop(ring, Least(Quantum, ring.len)))
        /\ UNCHANGED <<worklets, port, first, made>>
    BY <1>0, <1>7, RingsAre DEF Process, life, Waiting, SoundTypes
  <2> QED BY <1>6, <2>1
<1>8. CASE ~worklets /\ ProcessQueue
  <2>1. /\ fifo \in Rings(Cap) /\ Waiting = Contents(fifo) /\ Hear(fifo)
        /\ Waiting' = Contents(Drop(fifo, Least(Quantum, fifo.len)))
        /\ UNCHANGED <<worklets, port, first, made>>
    BY <1>0, <1>8, RingsAre DEF ProcessQueue, life, Waiting, SoundTypes
  <2> QED BY <1>6, <2>1
<1> QED BY <1>1, <1>2, <1>3, <1>4, <1>5, <1>7, <1>8, StepWaiting

LEMMA StepNewest == SoundInv /\ Next => NewestIsKept'
<1> SUFFICES ASSUME SoundInv, Next,
                    ~worklets', playing', made' > first', fifo'.len > 0
             PROVE  Last(Contents(fifo')) = made'
  BY DEF NewestIsKept
<1>0. SoundTypes /\ NewestIsKept /\ made \in Nat
  BY RingsAre DEF SoundInv, SoundTypes, Samples
<1>1. CASE Start
  BY <1>0, <1>1 DEF Start
<1>2. CASE Shutdown
  BY <1>2 DEF Shutdown
<1>3. CASE UNCHANGED <<worklets, playing, port, fifo, first, made, heard>>
  BY <1>0, <1>3 DEF NewestIsKept
<1>4. ASSUME NEW n \in 1..Batch, NEW batch \in Queue!Frames,
             Frame(n), batch = [i \in 1..n |-> made + i],
             \/ worklets
             \/ ~worklets /\ fifo' = Push(fifo, batch) /\ port' = port
      PROVE  Last(Contents(fifo')) = made'
  <2>1. made + n <= MaxSamples /\ made' = made + n /\ worklets' = worklets
    BY <1>4 DEF Frame, life
  <2>2. /\ batch \in Seq(Samples) /\ Len(batch) = n /\ batch[n] = made + n
    BY <1>4, <2>1, NewFrame
  <2>3. Len(batch) \in 1..Cap /\ fifo \in Rings(Cap)
    BY <1>0, <2>2, RingSizes DEF SoundTypes
  <2> QED BY <1>4, <2>1, <2>2, <2>3, PushPart
<1>5. CASE worklets /\ (Deliver \/ Process)
  BY <1>5 DEF Deliver, Process, life
<1>6. CASE ~worklets /\ ProcessQueue
  <2> DEFINE n == Least(Quantum, fifo.len)
  <2>1. /\ fifo' = Drop(fifo, n) /\ UNCHANGED <<worklets, playing, first, made>>
        /\ fifo \in Rings(Cap)
    BY <1>0, <1>6 DEF ProcessQueue, life, SoundTypes
  <2>2. n \in 0..fifo.len /\ n \in Nat /\ fifo.len \in Nat
    BY <2>1, RingSizes DEF Rings, Least
  <2> HIDE DEF n
  <2>3. /\ fifo' \in Rings(Cap) /\ fifo'.len = fifo.len - n
        /\ Contents(fifo') = SubSeq(Contents(fifo), n + 1, fifo.len)
    BY <2>1, <2>2, DropIsSubSeq
  <2>4. Contents(fifo) \in Seq(Samples) /\ Len(Contents(fifo)) = fifo.len
    BY <2>1, ContentsIsSeq
  <2>5. /\ Contents(fifo') \in Seq(Samples) /\ Len(Contents(fifo')) = fifo.len - n
        /\ \A i \in 1..(fifo.len - n) : Contents(fifo')[i] = Contents(fifo)[n + i]
    <3>1. n <= fifo.len /\ fifo.len <= Len(Contents(fifo))
      BY <2>2, <2>4
    <3> QED BY <2>2, <2>3, <2>4, <3>1, Cut
  <2>6. fifo.len - n \in 1..(fifo.len - n) /\ n + (fifo.len - n) = fifo.len /\ fifo.len > 0
    <3>1. fifo.len - n > 0
      BY <2>3, Zenon
    <3> QED BY <2>2, <3>1
  <2>7. Last(Contents(fifo')) = Last(Contents(fifo))
    <3>1. Contents(fifo')[fifo.len - n] = Contents(fifo)[n + (fifo.len - n)]
      BY <2>5, <2>6, Zenon
    <3> QED BY <2>4, <2>5, <2>6, <3>1 DEF Last
  <2> QED BY <1>0, <1>6, <2>1, <2>6, <2>7 DEF NewestIsKept
<1> QED BY <1>1, <1>2, <1>3, <1>4, <1>5, <1>6, StepWaiting

\* The invariant of the sound, with everything below.
THEOREM SoundInvariant == Spec => []SoundInv
<1>1. SoundInv /\ [Next]_vars => SoundInv'
  <2>1. SoundInv /\ Next => SoundInv'
    BY StepTypes, StepLives, StepLoads, StepOrder, StepNewest DEF SoundInv
  <2>2. SoundInv /\ UNCHANGED vars => SoundInv'
    BY DEF SoundInv, SoundTypes, Lives, LoadsInOrder, Order, Follows, NewestIsKept, Waiting,
           vars, life, buffer
  <2> QED BY <2>1, <2>2
<1> QED BY <1>1, SoundInit, PTL DEF Spec

\* The types of the sound.
THEOREM SoundTypeOK == Spec => []TypeOK
<1>1. SoundInv => TypeOK
  <2> SUFFICES ASSUME SoundInv PROVE TypeOK
    OBVIOUS
  <2>1. SoundTypes /\ MaxSamples \in Nat /\ made \in Samples
    BY RingsAre DEF SoundInv, SoundTypes
  <2>2. first \in Samples /\ heard \in Samples
    BY <2>1 DEF SoundTypes, Samples
  <2> QED BY <2>1, <2>2 DEF SoundTypes, TypeOK
<1> QED BY <1>1, SoundInvariant, PTL

\* Sound keeps its order, through full rings, underruns, pauses and games that end.
THEOREM SoundKeepsOrder == Spec => []SoundInOrder
<1>1. ASSUME NEW s \in Seq(Samples), Sound(s, heard, first, made)
      PROVE  Unheard(s) /\ InOrder(s)
  <2>1. Unheard(s)
    BY <1>1 DEF Sound, Unheard
  <2>2. InOrder(s)
    BY <1>1 DEF Sound, InOrder
  <2> QED BY <2>1, <2>2
<1>2. SoundInv => SoundInOrder
  <2> SUFFICES ASSUME SoundInv PROVE SoundInOrder
    OBVIOUS
  <2>1. Waiting \in Seq(Samples) /\ \A k \in DOMAIN port : port[k] \in Seq(Samples)
    BY WaitingIsSeq, Message DEF SoundInv
  <2> QED BY <1>1, <2>1 DEF SoundInv, Order, Follows, NoSilence, SoundInOrder
<1> QED BY <1>2, SoundInvariant, PTL

\* The fallback queue never gives up the newest sample of the game.
THEOREM SoundNewestIsKept == Spec => []NewestIsKept
<1>1. SoundInv => NewestIsKept
  BY DEF SoundInv
<1> QED BY <1>1, SoundInvariant, PTL

\* Where modules arrive in the order they were asked for, a game whose processor is there
\* feeds it.
THEOREM SoundProcessorIsFed == Spec => []ProcessorIsFed
<1>1. SoundInv => ProcessorIsFed
  BY DEF SoundInv, LoadsInOrder, ProcessorIsFed
<1> QED BY <1>1, SoundInvariant, PTL

----------------------------------------------------------------------------
(* The ring and the queue are the queue that SoundQueue describes.         *)

\* Every step of the sound is one of the queue, or none.
LEMMA StepOfQueue == SoundInv /\ Next => [Queue!Next]_Waiting
<1> SUFFICES ASSUME SoundInv, Next PROVE Queue!Next \/ Waiting' = Waiting
  OBVIOUS
<1>0. /\ SoundTypes /\ Lives /\ Waiting \in Seq(Samples) /\ port \in Seq(Queue!Frames)
  BY WaitingIsSeq DEF SoundInv, SoundTypes
<1>1. CASE Shutdown /\ \/ worklets /\ Waiting' = << >>
                       \/ ~worklets /\ Waiting' = [i \in DOMAIN Waiting |-> 0]
  BY <1>1 DEF Queue!Next, Queue!Clear, Queue!Silence
<1>2. ASSUME NEW n \in 1..Batch, NEW batch \in Queue!Frames,
             Frame(n), batch = [i \in 1..n |-> made + i],
             ~worklets, fifo' = Push(fifo, batch)
      PROVE  Queue!Next
  <2>1. made + n <= MaxSamples /\ worklets' = worklets
    BY <1>2 DEF Frame, life
  <2>2. batch \in Seq(Samples) /\ Len(batch) <= Cap /\ fifo \in Rings(Cap)
    BY <1>0, <1>2, <2>1, NewFrame, RingSizes DEF SoundTypes
  <2>3. Waiting = Contents(fifo) /\ Waiting' = Contents(Push(fifo, batch))
    BY <1>2, <2>1 DEF Waiting
  <2>4. Queue!AddMakingRoom(batch)
    BY <2>2, <2>3, PushIsAddMakingRoom DEF Queue!AddMakingRoom
  <2> QED BY <1>2, <2>4 DEF Queue!Next
<1>3. CASE worklets /\ Deliver
  <2>1. /\ port # << >> /\ ring' = Receive(ring, Head(port)) /\ UNCHANGED worklets
    BY <1>3 DEF Deliver, life
  <2>2. Head(port) = port[1] /\ 1 \in DOMAIN port
    BY <1>0, <2>1, HeadTailProperties
  <2>3. /\ Head(port) \in Queue!Frames /\ Head(port) \in Seq(Samples) /\ ring \in Rings(Cap - 1)
    BY <1>0, <2>2, Message DEF SoundTypes
  <2>4. Waiting = Contents(ring) /\ Waiting' = Contents(Receive(ring, Head(port)))
    BY <1>3, <2>1 DEF Waiting
  <2>5. Queue!AddAndTrim(Head(port))
    BY <2>3, <2>4, ReceiveIsAddAndTrim DEF Queue!AddAndTrim
  <2> QED BY <2>3, <2>5 DEF Queue!Next
<1>4. ASSUME NEW r \in Rings(Cap), Waiting = Contents(r),
             Waiting' = Contents(Drop(r, Least(Quantum, r.len)))
      PROVE  Queue!Next
  <2> DEFINE n == Least(Quantum, r.len)
  <2>1. /\ n \in 0..r.len /\ n \in 0..Quantum /\ Len(Waiting) = r.len
        /\ n = Quantum \/ n = r.len
    BY <1>4, RingSizes, ContentsIsSeq DEF Rings, Least
  <2>2. Waiting' = SubSeq(Waiting, n + 1, Len(Waiting))
    BY <1>4, <2>1, DropIsSubSeq
  <2> HIDE DEF n
  <2>3. n <= Len(Waiting) /\ (n = Quantum \/ n = Len(Waiting))
    BY <2>1
  <2>4. Queue!Take
    BY <2>1, <2>2, <2>3 DEF Queue!Take
  <2> QED BY <2>4 DEF Queue!Next
<1>5. CASE worklets /\ Process
  <2>1. /\ ring \in Rings(Cap) /\ Waiting = Contents(ring)
        /\ Waiting' = Contents(Drop(ring, Least(Quantum, ring.len)))
    BY <1>0, <1>5, RingsAre DEF Process, life, Waiting, SoundTypes
  <2> QED BY <1>4, <2>1
<1>6. CASE ~worklets /\ ProcessQueue
  <2>1. /\ fifo \in Rings(Cap) /\ Waiting = Contents(fifo)
        /\ Waiting' = Contents(Drop(fifo, Least(Quantum, fifo.len)))
    BY <1>0, <1>6 DEF ProcessQueue, life, Waiting, SoundTypes
  <2> QED BY <1>4, <2>1
<1> QED BY <1>1, <1>2, <1>3, <1>5, <1>6, StepWaiting

\* Wherever head and len stand, the slots are a queue that loses samples only when it
\* is full: the fallback its oldest, the worklet what SoundQueue's AddAndTrim says.
THEOREM SoundIsAQueue == Spec => IsSoundQueue
<1>1. Init => Queue!Init
  BY RingsAre DEF Init, Queue!Init, Waiting
<1>2. SoundInv /\ [Next]_vars => [Queue!Next]_Waiting
  <2>1. UNCHANGED vars => Waiting' = Waiting
    BY DEF vars, life, buffer, Waiting
  <2> QED BY <2>1, StepOfQueue
<1> QED BY <1>1, <1>2, SoundInvariant, PTL DEF Spec, IsSoundQueue, Queue!Spec

=============================================================================
