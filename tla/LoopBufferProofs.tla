--------------------------- MODULE LoopBufferProofs ---------------------------
(* Proofs about LoopBuffer, for rings, reserves, sources and caches of any
   size: the variables stay in their sets, the bytes of the ring are the
   stream's, an empty ring finds room, and the ring is a window. *)
EXTENDS LoopBuffer, FiniteSetTheorems, TLAPS

(* The parts of TypeOK. *)
RingOK ==
  /\ buffer \in [Cells -> Int]
  /\ rp \in Cells /\ wp \in Cells
  /\ valid_data_size \in -(IntMax + 1) .. IntMax
  /\ pos \in Nat
SourceOK ==
  /\ low \in 0 .. FileSize /\ kind \in Kinds
  /\ base \in Origins /\ slice \in Origins /\ places \in Worth
CallOK   == call.op \in {"none", "read", "readseek"} /\ call.len \in Nat

(* Without a cache the source is where the ring ends, as long as the places of
   the ring are its own. *)
SourceFollows == ~ cache_enable /\ places = "own" => low = pos

(* The j-th byte before wp is the j-th before the one the source delivers next,
   if it is still to be read, or if as many bytes have come since the ring was
   started. *)
Filled ==
  ~ cache_enable /\ places # "mixed" =>
    \A j \in 1 .. Size : (j <= Forward \/ j <= valid_data_size) => buffer[Down(wp - j)] = base + (low - j)

RingInv == RingOK /\ SourceOK /\ CacheTypeOK /\ SourceFollows /\ Filled
IInv    == RingInv /\ CallOK

(* What a step may do to the window. *)
WindowStep == [Window!Next]_(Window!window)
-----------------------------------------------------------------------------
(* The constants are numbers. *)
LEMMA Constants ==
  /\ Size \in Nat /\ Reserve \in Nat /\ BackReserve \in Nat /\ Block \in Nat
  /\ FileSize \in Nat /\ IntMax \in Nat /\ MaxRead \in Nat
  /\ PageSize \in Nat \ {0} /\ CacheSize \in Nat /\ Caches \subseteq BOOLEAN
  /\ Times \subseteq Nat /\ Origins \subseteq Nat /\ 0 \in Origins
  /\ 0 < Reserve /\ Reserve <= BackReserve /\ Reserve < Size
  /\ 0 < Block /\ Block <= Size /\ Size <= IntMax
  BY LoopAssumption, CacheAssumption DEF Origins

(* What is still to be read, and what can be sought back to, fits in the ring. *)
LEMMA Measures ==
  ASSUME RingOK
  PROVE  /\ Forward \in 0 .. Size - 1 /\ Back \in Nat
         /\ Forward = IF wp >= rp THEN wp - rp ELSE wp - rp + Size
         /\ Back > 0 => Back <= valid_data_size - Forward /\ Back <= Size - Forward - BackReserve
         /\ ReadPos = pos - Forward
  BY Constants DEF RingOK, Cells, Forward, Back, ReadPos, Most, Least

(* Room for a fill leaves the reserve, or ends at the end of the ring. *)
LEMMA RoomFits ==
  ASSUME RingOK, NEW size \in Nat
  PROVE  /\ Room(size) \in Int /\ Room(size) <= size
         /\ wp >= rp /\ rp # 0 => Room(size) <= Size - wp
         /\ wp >= rp /\ rp = 0 => Room(size) < Size - wp
         /\ wp < rp => Room(size) < rp - wp
  BY Constants DEF RingOK, Cells, Room, Least

(* The cells before wp, counted back, are all there are. *)
LEMMA CellBefore ==
  ASSUME RingOK, NEW j \in 1 .. Size
  PROVE  Down(wp - j) \in Cells
  BY Constants DEF RingOK, Cells, Down
-----------------------------------------------------------------------------
(* The pages to be read are counted with a number. *)
LEMMA SearceIsNumber ==
  ASSUME CacheTypeOK, NEW off \in Nat, NEW max_size \in Int
  PROVE  map_searce_valid_bytes(off, max_size) \in Int
  <1> DEFINE run == {p \in Pages : p >= PageOf(off) /\ PageOf(off) .. p \subseteq cache_map}
  <1>1. CacheSize \div PageSize \in Int BY Constants
  <1>2. IsFiniteSet(Pages) BY <1>1, FS_Interval DEF Pages
  <1>3. IsFiniteSet(run) BY <1>2, FS_Subset
  <1>4. Cardinality(run) \in Nat BY <1>3, FS_CardinalityType
  <1> HIDE DEF run
  <1>5. off % PageSize \in Int BY Constants
  <1>6. (Cardinality(run) * PageSize) - (off % PageSize) \in Int
        BY <1>4, <1>5, Constants
  <1>7. map_searce_valid_bytes(off, max_size) =
          IF Cardinality(run) >= max_size \div PageSize THEN max_size
          ELSE Most(0, (Cardinality(run) * PageSize) - (off % PageSize))
        BY DEF map_searce_valid_bytes, run
  <1>8. QED BY <1>6, <1>7 DEF Most

(* A read of the cache gets at most what it asked for. *)
LEMMA CacheReadFits ==
  ASSUME CacheTypeOK, NEW off \in Nat, NEW size \in Nat
  PROVE  cache_client_read(off, size) \in 0 .. size
  <1>1. map_searce_valid_bytes(off, size) \in Int BY SearceIsNumber
  <1>2. cache_len \in Int BY Constants DEF CacheTypeOK
  <1>3. QED BY <1>1, <1>2, Constants DEF cache_client_read, Most, Least

(* What a write marks as valid lies in the map. *)
LEMMA MarkedFits ==
  ASSUME NEW off \in Nat, NEW size \in Nat, off + size <= CacheSize
  PROVE  MarkedPages(off, size) \subseteq Pages
  <1> DEFINE q == off \div PageSize
  <1>1. q \in Nat /\ off % PageSize = off - PageSize * q /\ off % PageSize \in Nat BY Constants
  <1>2. (off + size) \div PageSize <= CacheSize \div PageSize BY Constants
  <1>3. (off + size) \div PageSize \in Nat /\ size \div PageSize \in Nat /\ CacheSize \div PageSize \in Nat
        BY Constants
  <1>4. q + size \div PageSize <= (off + size) \div PageSize BY Constants
  <1> HIDE DEF q
  <1>5. off - PageSize * q \in Int /\ size + (off - PageSize * q) \in Nat BY <1>1
  <1>6. (size + (off % PageSize)) \div PageSize = ((off + size) \div PageSize) - q
    <2>1. (off + size) + PageSize * (-q) = size + (off - PageSize * q)
          BY <1>1, <1>5, Constants
    <2>2. ((off + size) + PageSize * (-q)) \div PageSize = ((off + size) \div PageSize) + (-q)
      <3>1. \A b \in Nat, c \in Int : b + PageSize * c \in Nat
               => (b + PageSize * c) \div PageSize = (b \div PageSize) + c
            BY Constants
      <3>2. QED BY <1>1, <1>5, <2>1, <3>1
    <2>3. QED BY <1>1, <1>3, <2>1, <2>2
  <1>7. SUFFICES ASSUME NEW p \in MarkedPages(off, size) PROVE p \in Pages OBVIOUS
  <1>8. /\ p \in Int /\ p >= q
        /\ p <= q + (size \div PageSize) \/ p <= q + ((size + (off % PageSize)) \div PageSize) - 1
        BY <1>1, <1>3, <1>6 DEF MarkedPages, PageOf, q
  <1>9. QED BY <1>1, <1>2, <1>3, <1>4, <1>6, <1>8 DEF Pages

(* A write to the cache keeps its variables in their sets. *)
LEMMA CacheWriteKeeps ==
  ASSUME CacheTypeOK, NEW off \in Nat, NEW size \in Nat, NEW right,
         right \subseteq off .. off + size - 1,
         cache_client_write(off, size, right), UNCHANGED cache_enable
  PROVE  CacheTypeOK'
  <1>1. CASE ~ cache_enable \/ off + size > CacheSize
        BY <1>1 DEF cache_client_write, CacheTypeOK, Pages
  <1>2. CASE ~ (~ cache_enable \/ off + size > CacheSize)
    <2>1. off + size <= CacheSize BY <1>2, Constants
    <2>2. cache_map' \subseteq Pages
          BY <1>2, <2>1, MarkedFits DEF cache_client_write, CacheTypeOK
    <2>3. last_write_off' \in 0 .. CacheSize /\ cache_len' \in 0 .. CacheSize
          BY <1>2, <2>1, Constants DEF cache_client_write, CacheTypeOK, Most
    <2>4. right \subseteq 0 .. CacheSize - 1 BY <2>1, Constants
    <2>5. cache_data' \subseteq 0 .. CacheSize - 1
          BY <1>2, <2>4 DEF cache_client_write, CacheTypeOK
    <2>6. cache_enable' \in BOOLEAN BY DEF CacheTypeOK
    <2>7. QED BY <2>2, <2>3, <2>5, <2>6, Zenon DEF CacheTypeOK, Pages
  <1>3. QED BY <1>1, <1>2
-----------------------------------------------------------------------------
(* Bytes go into the room there is: the ring ends later, and what is still to
   be read stays, with as much of what was read as still fits. *)
LEMMA StoreMeasures ==
  ASSUME RingOK, NEW size \in Nat, NEW n \in Nat \ {0}, n <= Room(size), NEW bytes, Store(n, bytes)
  PROVE  /\ rp' = rp /\ rp' \in Cells /\ wp' \in Cells
         /\ Forward' = Forward + n /\ Forward' <= Size - 1
         /\ wp' = Up(wp + n) /\ wp + n <= Size
         /\ pos' = pos + n /\ pos' \in Nat
         /\ valid_data_size' \in -(IntMax + 1) .. IntMax
         /\ valid_data_size' = valid_data_size + n \/ valid_data_size' < 0
         /\ valid_data_size' <= valid_data_size + n
  <1>1. /\ Room(size) \in Int
        /\ wp >= rp /\ rp # 0 => Room(size) <= Size - wp
        /\ wp >= rp /\ rp = 0 => Room(size) < Size - wp
        /\ wp < rp => Room(size) < rp - wp
        BY RoomFits
  <1>2. /\ rp \in 0 .. Size - 1 /\ wp \in 0 .. Size - 1 /\ pos \in Nat
        /\ valid_data_size \in -(IntMax + 1) .. IntMax
        BY DEF RingOK, Cells
  <1>3. rp' = rp /\ pos' = pos + n /\ wp' = (IF wp + n >= Size THEN 0 ELSE wp + n)
        /\ valid_data_size' = Int32(valid_data_size + n)
        BY DEF Store
  <1>4. /\ wp >= rp /\ rp # 0 => n <= Size - wp
        /\ wp >= rp /\ rp = 0 => n < Size - wp
        /\ wp < rp => n < rp - wp
        BY <1>1, <1>2, Constants
  <1>5. wp + n <= Size /\ wp' = Up(wp + n) /\ wp' \in 0 .. Size - 1
        BY <1>2, <1>3, <1>4, Constants DEF Up
  <1>6. Forward' = Forward + n /\ Forward' <= Size - 1
        BY <1>2, <1>3, <1>4, Constants DEF Forward
  <1>7. n <= Size BY <1>2, <1>5, Constants
  <1>8. /\ valid_data_size' \in -(IntMax + 1) .. IntMax
        /\ valid_data_size' = valid_data_size + n \/ valid_data_size' < 0
        /\ valid_data_size' <= valid_data_size + n
        BY <1>2, <1>3, <1>7, Constants DEF Int32
  <1>9. QED BY <1>2, <1>3, <1>5, <1>6, <1>8 DEF Cells

(* Those bytes are the next ones of the source, and the ones before them still
   end where it was. *)
LEMMA StoreFills ==
  ASSUME RingInv, NEW size \in Nat, NEW n \in Nat \ {0}, n <= Room(size),
         NEW bytes, \A k \in 0 .. n - 1 : bytes[k] \in Int,
         ~ cache_enable => low' = low + n /\ \A k \in 0 .. n - 1 : bytes[k] = base + (low + k),
         Store(n, bytes), UNCHANGED <<base, places, cache_enable>>
  PROVE  RingOK' /\ Filled'
  <1>1. /\ rp' \in Cells /\ wp' \in Cells
        /\ Forward' = Forward + n /\ Forward' <= Size - 1
        /\ wp' = Up(wp + n) /\ wp + n <= Size
        /\ pos' = pos + n /\ pos' \in Nat
        /\ valid_data_size' \in -(IntMax + 1) .. IntMax
        /\ valid_data_size' = valid_data_size + n \/ valid_data_size' < 0
        BY StoreMeasures DEF RingInv
  <1>2. /\ base \in Nat /\ low \in Nat /\ wp \in 0 .. Size - 1
        /\ valid_data_size \in Int /\ buffer \in [Cells -> Int] /\ Forward \in Nat
        BY Constants, Measures DEF RingInv, RingOK, SourceOK, Cells
  <1>3. buffer' = [i \in Cells |-> IF wp <= i /\ i < wp + n THEN bytes[i - wp] ELSE buffer[i]]
        BY DEF Store
  <1>4. \A i \in Cells : i \in Int BY Constants DEF Cells
  <1>5. buffer' \in [Cells -> Int]
    <2>1. \A i \in Cells : wp <= i /\ i < wp + n => i - wp \in 0 .. n - 1 BY <1>2, <1>4
    <2>2. \A i \in Cells : (IF wp <= i /\ i < wp + n THEN bytes[i - wp] ELSE buffer[i]) \in Int
          BY <1>2, <2>1
    <2>3. QED BY <1>3, <2>2, Zenon
  <1>6. RingOK' BY <1>1, <1>5 DEF RingOK
  <1>7. ASSUME ~ cache_enable, places # "mixed",
               NEW j \in 1 .. Size, j <= Forward' \/ j <= valid_data_size'
        PROVE  buffer'[Down(wp' - j)] = base + (low' - j)
    <2>1. low' = low + n /\ \A k \in 0 .. n - 1 : bytes[k] = base + (low + k) BY <1>7
    <2>2. CASE j <= n
      <3>1. PICK i \in Cells : i = wp + (n - j)
            BY <1>1, <1>2, <2>2, Constants DEF Cells
      <3>2. Down(wp' - j) = i BY <1>1, <1>2, <2>2, <3>1, Constants DEF Down, Up
      <3>3. wp <= i /\ i < wp + n /\ i - wp = n - j /\ n - j \in 0 .. n - 1 BY <1>2, <2>2, <3>1
      <3>4. buffer'[i] = bytes[n - j] BY <1>3, <3>3
      <3>5. bytes[n - j] = base + (low + (n - j)) BY <2>1, <3>3
      <3>6. low' - j = low + (n - j) BY <1>2, <2>1
      <3>7. QED BY <3>2, <3>4, <3>5, <3>6
    <2>3. CASE j > n
      <3>1. j - n \in 1 .. Size /\ (j - n <= Forward \/ j - n <= valid_data_size)
            BY <1>1, <1>2, <1>7, <2>3, Constants
      <3>2. buffer[Down(wp - (j - n))] = base + (low - (j - n))
            BY <1>7, <3>1 DEF RingInv, Filled
      <3>3. Down(wp' - j) = Down(wp - (j - n))
            BY <1>1, <1>2, <2>3, Constants DEF Down, Up
      <3>4. Down(wp - (j - n)) \in Cells BY <3>1, CellBefore DEF RingInv
      <3>5. ~ (wp <= Down(wp - (j - n)) /\ Down(wp - (j - n)) < wp + n)
            BY <1>1, <1>2, <2>3, Constants DEF Down
      <3>6. buffer'[Down(wp - (j - n))] = buffer[Down(wp - (j - n))] BY <1>3, <3>4, <3>5
      <3>7. low' - j = low - (j - n) BY <1>2, <2>1
      <3>8. QED BY <3>2, <3>3, <3>6, <3>7
    <2>4. QED BY <1>2, <2>2, <2>3
  <1>8. Filled' BY <1>7 DEF Filled
  <1>9. QED BY <1>6, <1>8

(* The window has fetched them. *)
LEMMA StoreFetches ==
  ASSUME RingOK, NEW size \in Nat, NEW n \in Nat \ {0}, n <= Room(size), NEW bytes, Store(n, bytes)
  PROVE  WindowStep
  <1>1. /\ Forward' = Forward + n /\ pos' = pos + n
        /\ valid_data_size' \in Int /\ valid_data_size' <= valid_data_size + n
        /\ pos \in Nat /\ valid_data_size \in Int
        BY StoreMeasures DEF RingOK
  <1>2. Forward \in Nat BY Measures
  <1>3. ReadPos' = ReadPos /\ pos' > pos BY <1>1, <1>2 DEF ReadPos
  <1>4. Most(0, Least(valid_data_size' - (Forward + n), Size - (Forward + n) - BackReserve)) \in 0 .. Back
    <2>1. valid_data_size' \in Int /\ valid_data_size' <= valid_data_size + n /\ valid_data_size \in Int
          BY <1>1
    <2> DEFINE v == valid_data_size' - (Forward + n)
               w == valid_data_size - Forward
               s == Size - (Forward + n) - BackReserve
               t == Size - Forward - BackReserve
    <2>2. v <= w
      <3>1. \A x, y \in Int, f, m \in Nat : x <= y + m => x - (f + m) <= y - f OBVIOUS
      <3>2. QED BY <1>2, <2>1, <3>1, Zenon
    <2>3. v \in Int /\ w \in Int /\ s \in Int /\ t \in Int /\ s <= t BY <1>2, <2>1, Constants
    <2> HIDE DEF v, w, s, t
    <2>4. Most(0, Least(v, s)) \in 0 .. Most(0, Least(w, t)) BY <2>2, <2>3 DEF Most, Least
    <2>5. QED BY <2>4 DEF Back, v, w, s, t
  <1>5. ReadPos \in Int /\ Back \in Nat BY <1>1, <1>2, Measures DEF ReadPos
  <1>6. \A b \in 0 .. Back : ReadPos - b \in (ReadPos - Back) .. ReadPos BY <1>5
  <1>7. Back' = Most(0, Least(valid_data_size' - (Forward + n), Size - (Forward + n) - BackReserve))
        BY <1>1 DEF Back
  <1>8. (ReadPos - Back)' \in (ReadPos - Back) .. ReadPos BY <1>3, <1>4, <1>6, <1>7, Zenon
  <1>9. QED BY <1>3, <1>8 DEF WindowStep, Window!Next, Window!Fetch

(* The reader moves by d in the window. *)
LEMMA MoveKeeps ==
  ASSUME RingInv, NEW d \in -Back .. Forward, rp' = Down(Up(rp + d)),
         UNCHANGED <<buffer, wp, valid_data_size, pos, base, low, places, cache_enable>>
  PROVE  RingOK' /\ Filled' /\ WindowStep
  <1>1. /\ rp \in 0 .. Size - 1 /\ wp \in 0 .. Size - 1 /\ pos \in Nat /\ valid_data_size \in Int
        /\ Forward \in 0 .. Size - 1 /\ Back \in Nat
        /\ Forward = IF wp >= rp THEN wp - rp ELSE wp - rp + Size
        /\ Back > 0 => Back <= valid_data_size - Forward /\ Back <= Size - Forward - BackReserve
        BY Measures DEF RingInv, RingOK, Cells
  <1>2. d \in Int /\ Forward - d \in 0 .. Size - 1 BY <1>1, Constants
  <1>3. rp' \in 0 .. Size - 1 /\ Forward' = Forward - d
    <2>1. rp' \in 0 .. Size - 1 BY <1>1, <1>2, Constants DEF Down, Up
    <2>2. Forward' = IF wp >= rp' THEN wp - rp' ELSE wp - rp' + Size
          BY <1>1, <2>1, Constants DEF Forward
    <2>3. QED BY <1>1, <1>2, <2>1, <2>2, Constants DEF Down, Up
  <1>4. RingOK' BY <1>3 DEF RingInv, RingOK, Cells
  <1>5. Filled'
    <2>1. ASSUME ~ cache_enable, places # "mixed", NEW j \in 1 .. Size, j <= Forward' \/ j <= valid_data_size
          PROVE  buffer[Down(wp - j)] = base + (low - j)
      <3>1. j <= Forward \/ j <= valid_data_size BY <1>1, <1>2, <1>3, <2>1
      <3>2. QED BY <2>1, <3>1 DEF RingInv, Filled
    <2>2. QED BY <2>1 DEF Filled, Down
  <1>6. WindowStep
    <2>1. ReadPos' = ReadPos + d /\ ReadPos \in Int BY <1>1, <1>2, <1>3 DEF ReadPos
    <2>2. Back' \in Nat /\ Back' <= Back + d
          BY <1>1, <1>2, <1>3, Constants DEF Back, Most, Least
    <2>3. ReadPos' \in (ReadPos - Back) .. pos BY <1>1, <1>2, <2>1 DEF ReadPos
    <2>4. ReadPos' - Back' \in (ReadPos - Back) .. ReadPos'
      <3>1. \A b \in Nat : b <= Back + d
               => (ReadPos + d) - b \in (ReadPos - Back) .. (ReadPos + d)
            BY <1>1, <1>2, <2>1
      <3>2. QED BY <2>1, <2>2, <3>1, Zenon
    <2>5. QED BY <2>3, <2>4 DEF WindowStep, Window!Next, Window!Move
  <1>7. QED BY <1>4, <1>5, <1>6

(* The ring starts anew: nothing is in it. *)
LEMMA RestartKeeps ==
  ASSUME RingInv, NEW p \in Nat, Restart(p)
  PROVE  RingOK' /\ Filled' /\ WindowStep
  <1>1. /\ rp' = 0 /\ wp' = 0 /\ valid_data_size' = 0 /\ pos' = p
        /\ buffer' = [i \in Cells |-> HOLE]
        BY DEF Restart
  <1>2. RingOK' BY <1>1, Constants DEF RingOK, Cells, HOLE
  <1>3. Forward' = 0 BY <1>1 DEF Forward
  <1>4. Back' = 0 /\ ReadPos' = p
    <2>1. Back' = Most(0, Least(0 - 0, Size - 0 - BackReserve)) BY <1>1, <1>3 DEF Back
    <2>2. Back' = 0 BY <2>1, Constants DEF Most, Least
    <2>3. ReadPos' = p - 0 BY <1>1, <1>3 DEF ReadPos
    <2>4. QED BY <2>2, <2>3
  <1>5. Filled'
    <2>1. \A j \in 1 .. Size : ~ (j <= 0) BY Constants
    <2>2. QED BY <1>1, <1>3, <2>1, Zenon DEF Filled
  <1>6. WindowStep
    <2>1. (ReadPos - Back)' = p BY <1>4
    <2>2. QED BY <1>1, <1>4, <2>1 DEF WindowStep, Window!Next, Window!StartAnew
  <1>7. QED BY <1>2, <1>5, <1>6

(* What can be sought back to is forgotten. *)
LEMMA ForgetKeeps ==
  ASSUME RingInv, valid_data_size' = 0, UNCHANGED <<buffer, rp, wp, pos, cache_enable>>,
         ~ cache_enable /\ places' # "mixed" => UNCHANGED <<base, low, places>>
  PROVE  RingOK' /\ Filled' /\ WindowStep
  <1>1. RingOK' BY Constants DEF RingInv, RingOK
  <1>2. Forward' = Forward BY DEF Forward
  <1>3. Forward \in Nat /\ pos \in Nat /\ Back \in Nat BY Measures DEF RingInv, RingOK
  <1>4. Filled'
    <2>1. \A j \in 1 .. Size : ~ (j <= 0) BY Constants
    <2>2. QED BY <1>2, <2>1, Zenon DEF RingInv, Filled, Down
  <1>5. WindowStep
    <2>1. ReadPos' = ReadPos /\ ReadPos \in Int BY <1>2, <1>3 DEF ReadPos
    <2>2. Back' = 0
      <3>1. Back' = Most(0, Least(0 - Forward, Size - Forward - BackReserve)) BY <1>2 DEF Back
      <3>2. QED BY <1>3, <3>1, Constants DEF Most, Least
    <2>3. (ReadPos - Back)' = ReadPos BY <2>1, <2>2
    <2>4. ReadPos \in (ReadPos - Back) .. pos /\ ReadPos \in (ReadPos - Back) .. ReadPos
          BY <1>3, <2>1 DEF ReadPos
    <2>5. QED BY <2>1, <2>3, <2>4 DEF WindowStep, Window!Next, Window!Move
  <1>6. QED BY <1>1, <1>4, <1>5

(* A step that leaves the ring alone. *)
LEMMA SameKeeps ==
  ASSUME RingInv, UNCHANGED <<loopVars, cache_enable>>,
         ~ cache_enable /\ places' # "mixed" => UNCHANGED <<base, low, places>>
  PROVE  RingOK' /\ Filled' /\ WindowStep
  <1> USE DEF loopVars
  <1>1. RingOK' BY DEF RingInv, RingOK
  <1>2. Forward' = Forward /\ ReadPos' = ReadPos /\ Back' = Back BY DEF Forward, ReadPos, Back
  <1>3. Filled' BY <1>2, Zenon DEF RingInv, Filled, Down
  <1>4. WindowStep BY <1>2 DEF WindowStep, Window!window
  <1>5. QED BY <1>1, <1>3, <1>4
-----------------------------------------------------------------------------
(* A fill, whatever the cache and the source answer. *)
LEMMA FillKeeps ==
  ASSUME RingInv, NEW size \in Nat, NEW r \in FillResults, Fill(size, r), UNCHANGED <<kind, base, slice, places>>
  PROVE  RingInv' /\ WindowStep
  <1>1. /\ Room(size) \in Int /\ Room(size) <= size /\ pos \in Nat /\ low \in 0 .. FileSize /\ r \in Int
        BY RoomFits, Constants DEF RingInv, RingOK, SourceOK, FillResults, EAGAIN, EIO
  <1>2. ASSUME Room(size) > 0 PROVE Cached(size) \in 0 .. Room(size)
    <2>1. Room(size) \in Nat /\ pos \in Nat /\ CacheTypeOK BY <1>1, <1>2 DEF RingInv
    <2>2. cache_client_read(pos, Room(size)) \in 0 .. Room(size) BY <2>1, CacheReadFits
    <2>3. QED BY <2>2 DEF Cached
  <1>3. CASE UNCHANGED <<loopVars, cacheVars>> /\ low' = low
    <2>1. RingOK' /\ Filled' /\ WindowStep BY <1>3, SameKeeps DEF cacheVars
    <2>2. SourceOK' BY <1>3 DEF RingInv, SourceOK
    <2>3. CacheTypeOK' BY <1>3 DEF RingInv, CacheTypeOK, cacheVars, Pages
    <2>4. SourceFollows' BY <1>3 DEF RingInv, SourceFollows, cacheVars, loopVars
    <2>5. QED BY <2>1, <2>2, <2>3, <2>4 DEF RingInv
  <1>4. CASE FillFromCache(size, r)
    <2> DEFINE bytes == [k \in 0 .. r - 1 |-> IF pos + k \in cache_data THEN pos + k ELSE HOLE]
    <2>1. /\ r \in Nat \ {0} /\ r <= Room(size) /\ Store(r, bytes)
          /\ low' = low /\ UNCHANGED cacheVars
          BY <1>1, <1>2, <1>4 DEF FillFromCache
    <2>2. cache_enable BY <1>4, <2>1 DEF FillFromCache, Cached, cache_client_read
    <2>a. \A k \in 0 .. r - 1 : bytes[k] \in Int BY <1>1 DEF HOLE
    <2> HIDE DEF bytes
    <2>3. RingOK' /\ Filled' BY <2>1, <2>2, <2>a, StoreFills DEF cacheVars
    <2>4. WindowStep BY <2>1, StoreFetches DEF RingInv
    <2>5. SourceOK' BY <2>1 DEF RingInv, SourceOK
    <2>6. CacheTypeOK' BY <2>1 DEF RingInv, CacheTypeOK, cacheVars, Pages
    <2>7. SourceFollows' BY <2>1, <2>2 DEF SourceFollows, cacheVars
    <2>8. QED BY <2>3, <2>4, <2>5, <2>6, <2>7 DEF RingInv
  <1>5. CASE FillFromSource(size, r)
    <2> DEFINE from  == IF MustSeek /\ Seekable THEN pos ELSE low
               right == IF base + from = pos THEN pos .. pos + r - 1 ELSE {}
               bytes == [k \in 0 .. r - 1 |-> base + (from + k)]
    <2>1. Room(size) > 0 BY <1>5 DEF FillFromSource
    <2>2. from \in 0 .. FileSize
      <3>1. CASE MustSeek /\ Seekable
        <4>1. FileSize > 0 /\ ~ (file_size > 0 /\ pos >= file_size)
              BY <1>1, <1>5, <3>1, Constants DEF FillFromSource, MustSeek, AtEnd
        <4>2. pos < FileSize BY <1>1, <3>1, <4>1, Constants DEF file_size
        <4>3. QED BY <1>1, <3>1, <4>2, Constants
      <3>2. CASE ~ (MustSeek /\ Seekable) BY <1>1, <3>2
      <3>3. QED BY <3>1, <3>2
    <2>3. ~ cache_enable => from = low BY DEF MustSeek
    <2>4. \/ /\ r \in 1 .. Least(Room(size), FileSize - from)
             /\ low' = from + r
             /\ Store(r, bytes)
             /\ cache_client_write(pos, r, right)
             /\ UNCHANGED cache_enable
          \/ /\ low' = from
             /\ UNCHANGED <<loopVars, cacheVars>>
          BY <1>5 DEF FillFromSource
    <2> HIDE DEF from
    <2>5. CASE /\ low' = from
               /\ UNCHANGED <<loopVars, cacheVars>>
      <3>1. RingOK' /\ Filled' /\ WindowStep BY <2>3, <2>5, SameKeeps DEF cacheVars
      <3>2. SourceOK' BY <2>2, <2>5 DEF RingInv, SourceOK
      <3>3. CacheTypeOK' BY <2>5 DEF RingInv, CacheTypeOK, cacheVars, Pages
      <3>4. SourceFollows' BY <2>3, <2>5 DEF RingInv, SourceFollows, cacheVars, loopVars
      <3>5. QED BY <3>1, <3>2, <3>3, <3>4 DEF RingInv
    <2>6. CASE /\ r \in 1 .. Least(Room(size), FileSize - from)
               /\ low' = from + r
               /\ Store(r, bytes)
               /\ cache_client_write(pos, r, right)
               /\ UNCHANGED cache_enable
      <3>1. r \in Nat \ {0} /\ r <= Room(size) /\ r <= FileSize - from
            BY <1>1, <2>2, <2>6, Constants DEF Least
      <3>2. right \subseteq pos .. pos + r - 1 OBVIOUS
      <3>a. base \in Nat BY Constants DEF RingInv, SourceOK
      <3>b. \A k \in 0 .. r - 1 : bytes[k] = base + (from + k) /\ bytes[k] \in Int
            BY <1>1, <2>2, <3>a
      <3> HIDE DEF right, bytes
      <3>3. RingOK' /\ Filled' BY <2>3, <2>6, <3>1, <3>b, StoreFills
      <3>4. WindowStep BY <2>6, <3>1, StoreFetches DEF RingInv
      <3>5. from + r \in 0 .. FileSize BY <2>2, <3>1, Constants
      <3>6. SourceOK' BY <2>6, <3>5 DEF RingInv, SourceOK
      <3>7. CacheTypeOK' BY <1>1, <2>6, <3>1, <3>2, CacheWriteKeeps DEF RingInv
      <3>8. SourceFollows' BY <2>3, <2>6 DEF RingInv, SourceFollows, Store
      <3>9. QED BY <3>3, <3>4, <3>6, <3>7, <3>8 DEF RingInv
    <2>7. QED BY <2>4, <2>5, <2>6
  <1>6. QED BY <1>3, <1>4, <1>5 DEF Fill, FillNot, FillSeekFails
-----------------------------------------------------------------------------
(* Nothing has been read at first. *)
LEMMA InitIInv == Init => IInv
  <1> SUFFICES ASSUME Init PROVE IInv OBVIOUS
  <1> USE Constants DEF Init, NoCall, Call, Worth
  <1>1. RingOK BY DEF RingOK, Cells, HOLE
  <1>2. SourceOK /\ CallOK BY DEF SourceOK, CallOK
  <1>3. CacheTypeOK BY DEF CacheInit, CacheTypeOK
  <1>4. SourceFollows BY DEF SourceFollows
  <1>5. Filled
    <2>1. Forward = 0 BY DEF Forward
    <2>2. \A j \in 1 .. Size : ~ (j <= 0) OBVIOUS
    <2>3. QED BY <2>1, <2>2 DEF Filled
  <1>6. QED BY <1>1, <1>2, <1>3, <1>4, <1>5 DEF IInv, RingInv

(* A step that leaves the cache and the source alone, and does to the ring what
   the lemmas above allow. *)
LEMMA RestKeeps ==
  ASSUME IInv, RingOK', Filled', CallOK', pos' = pos, UNCHANGED <<srcVars, cacheVars>>
  PROVE  IInv'
  <1> USE DEF srcVars, cacheVars
  <1>1. SourceOK' BY DEF IInv, RingInv, SourceOK
  <1>2. CacheTypeOK' BY DEF IInv, RingInv, CacheTypeOK, Pages
  <1>3. SourceFollows' BY DEF IInv, RingInv, SourceFollows
  <1>4. QED BY <1>1, <1>2, <1>3 DEF IInv, RingInv

(* A call begins or ends. *)
LEMMA CallKeeps ==
  ASSUME IInv, CallOK', UNCHANGED <<loopVars, srcVars, cacheVars>>
  PROVE  IInv' /\ WindowStep
  <1>1. RingOK' /\ Filled' /\ WindowStep BY SameKeeps DEF IInv, srcVars, cacheVars
  <1>2. IInv' BY <1>1, RestKeeps DEF loopVars
  <1>3. QED BY <1>1, <1>2

(* Bytes of the ring are taken. *)
LEMMA TakeKeeps == IInv /\ Take => IInv' /\ WindowStep
  <1> SUFFICES ASSUME IInv, Take PROVE IInv' /\ WindowStep OBVIOUS
  <1> DEFINE n == Least(call.len, CanRead)
  <1>1. /\ rp \in 0 .. Size - 1 /\ wp \in 0 .. Size - 1 /\ call.len \in Nat
        /\ Forward \in 0 .. Size - 1 /\ Back \in Nat
        /\ Forward = IF wp >= rp THEN wp - rp ELSE wp - rp + Size
        BY Measures DEF IInv, RingInv, RingOK, CallOK, Cells
  <1>2. n \in Nat /\ n <= Forward /\ n <= call.len /\ rp + n <= Size
        BY <1>1, Constants DEF CanRead, Least
  <1>3. rp' = Up(rp + n) /\ call' = Call(call.op, call.len - n, call.op = "readseek")
        BY DEF Take
  <1> HIDE DEF n
  <1>4. Down(Up(rp + n)) = Up(rp + n) BY <1>1, <1>2, Constants DEF Down, Up
  <1>5. n \in -Back .. Forward BY <1>1, <1>2
  <1>6. RingOK' /\ Filled' /\ WindowStep
        BY <1>3, <1>4, <1>5, MoveKeeps DEF IInv, Take, srcVars, cacheVars
  <1>7. CallOK' BY <1>1, <1>2, <1>3 DEF IInv, CallOK, Call
  <1>8. IInv' BY <1>6, <1>7, RestKeeps DEF Take
  <1>9. QED BY <1>6, <1>8

(* A read, or a seek by reading, finds the ring empty and has it filled. *)
LEMMA TakeFillsKeeps == IInv /\ TakeFills => IInv' /\ WindowStep
  <1> SUFFICES ASSUME IInv, TakeFills PROVE IInv' /\ WindowStep OBVIOUS
  <1>1. PICK size \in {Block} \cup {n \in {call.len} : n < Block}, r \in FillResults : Fill(size, r)
        BY DEF TakeFills
  <1>2. size \in Nat BY Constants DEF IInv, CallOK
  <1>3. RingInv' /\ WindowStep BY <1>1, <1>2, FillKeeps DEF IInv, TakeFills
  <1>4. call' \in {call, NoCall, Call(call.op, call.len, FALSE)} BY DEF TakeFills
  <1>5. CallOK' BY <1>4 DEF IInv, CallOK, Call, NoCall
  <1>6. QED BY <1>3, <1>5 DEF IInv

(* A seek inside the ring. *)
LEMMA SeekInRingKeeps == ASSUME IInv, NEW offset \in Nat, SeekInRing(offset) PROVE IInv' /\ WindowStep
  <1>1. offset - ReadPos \in -Back .. Forward /\ rp' = Down(Up(rp + (offset - ReadPos)))
        BY DEF SeekInRing, InRing
  <1>2. RingOK' /\ Filled' /\ WindowStep
        BY <1>1, MoveKeeps DEF IInv, SeekInRing, srcVars, cacheVars
  <1>3. CallOK' BY DEF SeekInRing, IInv, CallOK
  <1>4. IInv' BY <1>2, <1>3, RestKeeps DEF SeekInRing
  <1>5. QED BY <1>2, <1>4

(* A seek by reading starts behind the ring. *)
LEMMA SeekByReadingKeeps ==
  ASSUME IInv, NEW offset \in Nat, SeekByReading(offset) PROVE IInv' /\ WindowStep
  <1>1. /\ rp \in 0 .. Size - 1 /\ wp \in 0 .. Size - 1 /\ pos \in Nat
        /\ Forward \in 0 .. Size - 1 /\ Back \in Nat
        /\ Forward = IF wp >= rp THEN wp - rp ELSE wp - rp + Size
        /\ ReadPos = pos - Forward
        BY Measures DEF IInv, RingInv, RingOK, Cells
  <1>2. rp' = Down(Up(rp + Forward)) /\ Forward \in -Back .. Forward
        BY <1>1, Constants DEF SeekByReading, Down, Up
  <1>3. RingOK' /\ Filled' /\ WindowStep
        BY <1>2, MoveKeeps DEF IInv, SeekByReading, srcVars, cacheVars
  <1>4. offset - pos \in Nat BY <1>1 DEF SeekByReading, ByReading
  <1>5. CallOK' BY <1>4 DEF SeekByReading, CallOK, Call
  <1>6. IInv' BY <1>3, <1>5, RestKeeps DEF SeekByReading
  <1>7. QED BY <1>3, <1>6

(* A seek by time finds its place in the ring. *)
LEMMA SeekTimeInRingKeeps ==
  ASSUME IInv, NEW behind \in Nat, SeekTimeInRing(behind) PROVE IInv' /\ WindowStep
  <1>1. Forward \in Nat /\ Back \in Nat BY Measures DEF IInv, RingInv
  <1>2. Forward - behind \in -Back .. Forward /\ rp' = Down(Up(rp + (Forward - behind)))
        BY <1>1 DEF SeekTimeInRing
  <1>3. RingOK' /\ Filled' /\ WindowStep
        BY <1>2, MoveKeeps DEF IInv, SeekTimeInRing, srcVars, cacheVars
  <1>4. CallOK' BY DEF SeekTimeInRing, IInv, CallOK
  <1>5. IInv' BY <1>3, <1>4, RestKeeps DEF SeekTimeInRing
  <1>6. QED BY <1>3, <1>5

(* The ring starts anew, and its places are worth what the step says. *)
LEMMA AnewKeeps ==
  ASSUME IInv, NEW p \in Nat, Restart(p), SourceOK', CacheTypeOK', UNCHANGED <<call, cache_enable>>,
         ~ cache_enable /\ places' = "own" => low' = p
  PROVE  IInv' /\ WindowStep
  <1>1. RingOK' /\ Filled' /\ WindowStep BY RestartKeeps DEF IInv
  <1>2. CallOK' BY DEF IInv, CallOK
  <1>3. SourceFollows' BY DEF SourceFollows, Restart
  <1>4. QED BY <1>1, <1>2, <1>3 DEF IInv, RingInv

(* A cache that is left alone. *)
LEMMA CacheSame == IInv /\ UNCHANGED cacheVars => CacheTypeOK'
  BY DEF IInv, RingInv, CacheTypeOK, cacheVars, Pages

(* The source is sought, or, with a cache, will be. *)
LEMMA SeekSourceKeeps == ASSUME IInv, NEW offset \in Nat, SeekSource(offset) PROVE IInv' /\ WindowStep
  <1>1. Restart(offset) /\ places' = "own" /\ UNCHANGED <<kind, slice, call, cacheVars>>
        BY DEF SeekSource
  <1>2. \/ cache_enable /\ UNCHANGED <<low, base>>
        \/ offset < FileSize /\ SourceTo(offset)
        BY DEF SeekSource
  <1>3. low' \in 0 .. FileSize /\ base' \in Origins /\ (~ cache_enable => low' = offset)
        BY <1>2, Constants DEF SourceTo, IInv, RingInv, SourceOK
  <1>4. SourceOK' BY <1>1, <1>3 DEF IInv, RingInv, SourceOK, Worth
  <1>5. QED BY <1>1, <1>3, <1>4, AnewKeeps, CacheSame DEF cacheVars

(* The source is sought under the ring. *)
LEMMA SourceUnderRingKeeps ==
  ASSUME IInv, NEW p \in 0 .. FileSize, SourceUnderRing(p), UNCHANGED <<pos, kind, slice, cacheVars>>
  PROVE  /\ SourceOK' /\ SourceFollows'
         /\ ~ cache_enable /\ places' # "mixed" => UNCHANGED <<base, low, places>>
  <1>1. /\ low' = p /\ base' \in Origins /\ cache_enable' = cache_enable
        /\ places' = IF cache_enable \/ (low' = low /\ base' = base) THEN places ELSE "mixed"
        BY DEF SourceUnderRing, SourceTo, IInv, RingInv, SourceOK, cacheVars
  <1>2. places' \in Worth BY <1>1 DEF IInv, RingInv, SourceOK, Worth
  <1>3. SourceOK' BY <1>1, <1>2 DEF IInv, RingInv, SourceOK
  <1>4. ~ cache_enable /\ places' # "mixed" => UNCHANGED <<base, low, places>> BY <1>1
  <1>5. SourceFollows' BY <1>1, <1>4 DEF IInv, RingInv, SourceFollows
  <1>6. QED BY <1>3, <1>4, <1>5

(* It cannot be sought there. *)
LEMMA SeekSourceFailsKeeps ==
  ASSUME IInv, NEW offset \in Nat, SeekSourceFails(offset) PROVE IInv' /\ WindowStep
  <1>1. valid_data_size' = 0 /\ UNCHANGED <<buffer, rp, wp, pos, kind, slice, call, cacheVars>>
        BY DEF SeekSourceFails
  <1>2. (pos \in 0 .. FileSize /\ SourceUnderRing(pos)) \/ UNCHANGED <<low, base, places>>
        BY Constants DEF SeekSourceFails, IInv, RingInv, RingOK
  <1>3. /\ SourceOK' /\ SourceFollows'
        /\ ~ cache_enable /\ places' # "mixed" => UNCHANGED <<base, low, places>>
    <2>1. CASE UNCHANGED <<low, base, places>>
          BY <1>1, <2>1 DEF IInv, RingInv, SourceOK, SourceFollows, cacheVars
    <2>2. QED BY <1>1, <1>2, <2>1, SourceUnderRingKeeps
  <1>4. RingOK' /\ Filled' /\ WindowStep BY <1>1, <1>3, ForgetKeeps DEF IInv, cacheVars
  <1>5. CallOK' BY <1>1 DEF IInv, CallOK
  <1>6. QED BY <1>1, <1>3, <1>4, <1>5, CacheSame DEF IInv, RingInv

(* A seek from the end. *)
LEMMA SeekEndKeeps == ASSUME IInv, NEW back \in Nat, SeekEnd(back) PROVE IInv' /\ WindowStep
  <1>1. /\ Restart(FileSize - back) /\ SourceTo(FileSize - back) /\ places' = "own"
        /\ FileSize - back \in 0 .. FileSize /\ UNCHANGED <<kind, slice, call, cacheVars>>
        BY Constants DEF SeekEnd
  <1>2. SourceOK' BY <1>1 DEF IInv, RingInv, SourceOK, SourceTo, Worth
  <1>3. FileSize - back \in Nat /\ low' = FileSize - back BY <1>1, Constants DEF SourceTo
  <1>4. QED BY <1>1, <1>2, <1>3, AnewKeeps, CacheSame DEF cacheVars

(* The source is asked for its length. *)
LEMMA AskSizeKeeps == IInv /\ AskSize => IInv' /\ WindowStep
  <1> SUFFICES ASSUME IInv, AskSize PROVE IInv' /\ WindowStep OBVIOUS
  <1>1. PICK p \in 0 .. FileSize : SourceUnderRing(p)
        BY Constants DEF AskSize, IInv, RingInv, RingOK
  <1>2. UNCHANGED <<loopVars, kind, slice, call, cacheVars>> BY DEF AskSize
  <1>3. /\ SourceOK' /\ SourceFollows'
        /\ ~ cache_enable /\ places' # "mixed" => UNCHANGED <<base, low, places>>
        BY <1>1, <1>2, SourceUnderRingKeeps DEF loopVars
  <1>4. RingOK' /\ Filled' /\ WindowStep BY <1>2, <1>3, SameKeeps DEF IInv, cacheVars
  <1>5. CallOK' BY <1>2 DEF IInv, CallOK
  <1>6. QED BY <1>2, <1>3, <1>4, <1>5, CacheSame DEF IInv, RingInv

(* A seek by time, which the source answers by counting from 0 again. *)
LEMMA SeekTimeKeeps == ASSUME IInv, NEW t \in Times, SeekTime(t) PROVE IInv' /\ WindowStep
  <1>1. /\ Restart(0) /\ low' = 0 /\ base' = t /\ places' = "own"
        /\ UNCHANGED <<kind, slice, call, cacheVars>>
        BY DEF SeekTime
  <1>2. SourceOK' BY <1>1, Constants DEF IInv, RingInv, SourceOK, Origins, Worth
  <1>3. QED BY <1>1, <1>2, AnewKeeps, CacheSame DEF cacheVars

(* A slice is selected. *)
LEMMA SeekSliceKeeps == ASSUME IInv, NEW t \in Times, SeekSlice(t) PROVE IInv' /\ WindowStep
  <1>1. UNCHANGED <<loopVars, kind, base, low, places, call, cacheVars>> /\ slice' = t
        BY DEF SeekSlice
  <1>2. RingOK' /\ Filled' /\ WindowStep BY <1>1, SameKeeps DEF IInv, cacheVars
  <1>3. SourceOK' BY <1>1 DEF IInv, RingInv, SourceOK, Origins
  <1>4. CallOK' /\ SourceFollows' BY <1>1 DEF IInv, RingInv, CallOK, SourceFollows, loopVars, cacheVars
  <1>5. QED BY <1>1, <1>2, <1>3, <1>4, CacheSame DEF IInv, RingInv

(* The ring is reset, and the source stays or was moved before. *)
LEMMA ResetKeeps == IInv /\ Reset => IInv' /\ WindowStep
  <1> SUFFICES ASSUME IInv, Reset PROVE IInv' /\ WindowStep OBVIOUS
  <1>1. /\ Restart(0) /\ UNCHANGED <<kind, slice, call, cacheVars>>
        /\ places' = IF cache_enable \/ low' = 0 THEN "own" ELSE "shifted"
        BY DEF Reset
  <1>2. low' \in 0 .. FileSize /\ base' \in Origins
        BY Constants DEF Reset, Origins, IInv, RingInv, SourceOK
  <1>3. SourceOK' BY <1>1, <1>2 DEF IInv, RingInv, SourceOK, Worth
  <1>4. ~ cache_enable /\ places' = "own" => low' = 0 BY <1>1
  <1>5. QED BY <1>1, <1>3, <1>4, AnewKeeps, CacheSame DEF cacheVars

(* The input is closed and opened again. *)
LEMMA ReopenKeeps == IInv /\ Reopen => IInv' /\ WindowStep
  <1> SUFFICES ASSUME IInv, Reopen PROVE IInv' /\ WindowStep OBVIOUS
  <1>1. /\ Restart(0) /\ low' = 0 /\ slice' = base' /\ places' = "own" /\ UNCHANGED <<kind, call>>
        /\ CacheReopens(kind = "file")
        BY DEF Reopen
  <1>2. base' \in Origins BY Constants DEF Reopen
  <1>3. CacheTypeOK' BY <1>1, Constants DEF IInv, RingInv, CacheTypeOK, CacheReopens, Pages
  <1>4. SourceOK' BY <1>1, <1>2, Constants DEF IInv, RingInv, SourceOK, Worth
  <1>5. QED BY <1>1, <1>3, <1>4, AnewKeeps DEF CacheReopens

(* The ring is filled while the player buffers. *)
LEMMA BufferingKeeps == IInv /\ Buffering => IInv' /\ WindowStep
  <1> SUFFICES ASSUME IInv, Buffering PROVE IInv' /\ WindowStep OBVIOUS
  <1>1. PICK r \in FillResults : Fill(Block, r) BY DEF Buffering
  <1>2. RingInv' /\ WindowStep BY <1>1, FillKeeps, Constants DEF IInv, Buffering
  <1>3. CallOK' BY DEF Buffering, IInv, CallOK
  <1>4. QED BY <1>2, <1>3 DEF IInv

(* Every step keeps the inductive invariant, and is a step of the window. *)
LEMMA NextIInv == IInv /\ [Next]_vars => IInv' /\ WindowStep
  <1> SUFFICES ASSUME IInv, [Next]_vars PROVE IInv' /\ WindowStep OBVIOUS
  <1>1. CASE \E n \in 1 .. MaxRead : Read(n)
    <2>1. PICK n \in 1 .. MaxRead : Read(n) BY <1>1
    <2>2. CallOK' BY <2>1, Constants DEF Read, CallOK, Call
    <2>3. QED BY <2>1, <2>2, CallKeeps DEF Read
  <1>2. CASE Take BY <1>2, TakeKeeps
  <1>3. CASE TakeFills BY <1>3, TakeFillsKeeps
  <1>4. CASE TakeEnds
    <2>1. CallOK' BY <1>4 DEF TakeEnds, CallOK, NoCall, Call
    <2>2. QED BY <1>4, <2>1, CallKeeps DEF TakeEnds
  <1>5. CASE \E offset \in 0 .. FileSize + 1 : Seek(offset)
    <2>1. PICK offset \in 0 .. FileSize + 1 : Seek(offset) BY <1>5
    <2>2. offset \in Nat BY Constants
    <2>3. QED BY <2>1, <2>2, SeekInRingKeeps, SeekByReadingKeeps, SeekSourceKeeps, SeekSourceFailsKeeps
              DEF Seek
  <1>6. CASE \E back \in 1 .. FileSize : SeekEnd(back)
    <2>1. PICK back \in 1 .. FileSize : SeekEnd(back) BY <1>6
    <2>2. back \in Nat BY Constants
    <2>3. QED BY <2>1, <2>2, SeekEndKeeps
  <1>7. CASE \E behind \in 0 .. Size : SeekTimeInRing(behind)
    <2>1. PICK behind \in 0 .. Size : SeekTimeInRing(behind) BY <1>7
    <2>2. behind \in Nat BY Constants
    <2>3. QED BY <2>1, <2>2, SeekTimeInRingKeeps
  <1>8. CASE \E t \in Times : SeekTime(t) \/ SeekSlice(t) BY <1>8, SeekTimeKeeps, SeekSliceKeeps
  <1>9. CASE AskSize \/ Buffering BY <1>9, AskSizeKeeps, BufferingKeeps
  <1>10. CASE Reset \/ Reopen BY <1>10, ResetKeeps, ReopenKeeps
  <1>11. CASE UNCHANGED vars
    <2>1. CallOK' BY <1>11 DEF IInv, CallOK, vars
    <2>2. QED BY <1>11, <2>1, CallKeeps DEF vars
  <1>12. QED BY <1>1, <1>2, <1>3, <1>4, <1>5, <1>6, <1>7, <1>8, <1>9, <1>10, <1>11 DEF Next
-----------------------------------------------------------------------------
(* The inductive invariant holds in every state. *)
THEOREM Invariant == Spec => []IInv
  <1>1. IInv /\ [Next]_vars => IInv' BY NextIInv
  <1>2. QED BY <1>1, InitIInv, PTL DEF Spec

(* The pointers stay in the ring, valid_data_size in an int, and the map and the
   data of the cache within its size. *)
THEOREM TypeCorrect == Spec => []TypeOK
  <1>1. IInv => TypeOK
    <2> SUFFICES ASSUME IInv PROVE TypeOK OBVIOUS
    <2>1. /\ buffer \in [Cells -> Int] /\ rp \in Cells /\ wp \in Cells
          /\ valid_data_size \in -(IntMax + 1) .. IntMax /\ pos \in Nat
          BY DEF IInv, RingInv, RingOK
    <2>2. /\ low \in 0 .. FileSize /\ kind \in Kinds
          /\ base \in Origins /\ slice \in Origins /\ places \in Worth
          BY DEF IInv, RingInv, SourceOK
    <2>3. call.op \in {"none", "read", "readseek"} /\ call.len \in Nat BY DEF IInv, CallOK
    <2>4. CacheTypeOK BY DEF IInv, RingInv
    <2>5. QED BY <2>1, <2>2, <2>3, <2>4, Zenon DEF TypeOK
  <1>2. QED BY <1>1, Invariant, PTL

(* A read or a seek of an empty ring finds room to fill. *)
THEOREM EmptyRingIsFilled == Spec => []EmptyRingFills
  <1>1. IInv => EmptyRingFills
        BY Constants DEF IInv, RingInv, RingOK, EmptyRingFills, CanRead, Room, Least, Cells
  <1>2. QED BY <1>1, Invariant, PTL

(* Without a cache, what a read gets and what can be sought back to are the
   bytes of the stream at these places, however often valid_data_size has gone
   round; and after a reset they are those the source has delivered since. *)
THEOREM SourceRingIsRight == Spec => []SourceRingHolds
  <1>1. ASSUME IInv, ~ cache_enable, places # "mixed", NEW shift \in Int, shift = low - pos
        PROVE  RingHolds(shift)
    <2>1. /\ rp \in 0 .. Size - 1 /\ wp \in 0 .. Size - 1 /\ pos \in Nat /\ base \in Nat
          /\ valid_data_size \in Int /\ low \in Nat
          /\ Forward \in 0 .. Size - 1 /\ Back \in Nat
          /\ Forward = IF wp >= rp THEN wp - rp ELSE wp - rp + Size
          /\ Back > 0 => Back <= valid_data_size - Forward /\ Back <= Size - Forward - BackReserve
          /\ ReadPos = pos - Forward
          BY <1>1, Measures, Constants DEF IInv, RingInv, RingOK, SourceOK, Cells
    <2>2. shift = low - pos BY <1>1
    <2>3. ASSUME NEW i \in 0 .. Forward - 1
          PROVE  buffer[Up(rp + i)] = base + shift + (ReadPos + i)
      <3>1. Forward - i \in 1 .. Size /\ Forward - i <= Forward BY <2>1, Constants
      <3>2. buffer[Down(wp - (Forward - i))] = base + (low - (Forward - i))
            BY <1>1, <3>1 DEF IInv, RingInv, Filled
      <3>3. Down(wp - (Forward - i)) = Up(rp + i) BY <2>1, Constants DEF Down, Up
      <3>4. base + (low - (Forward - i)) = base + shift + (ReadPos + i) BY <2>1, <2>2
      <3>5. QED BY <3>2, <3>3, <3>4
    <2>4. ASSUME NEW i \in 1 .. Back
          PROVE  buffer[Down(rp - i)] = base + shift + (ReadPos - i)
      <3>1. Forward + i \in 1 .. Size /\ Forward + i <= valid_data_size BY <2>1, Constants
      <3>2. buffer[Down(wp - (Forward + i))] = base + (low - (Forward + i))
            BY <1>1, <3>1 DEF IInv, RingInv, Filled
      <3>3. Down(wp - (Forward + i)) = Down(rp - i) BY <2>1, <3>1, Constants DEF Down
      <3>4. base + (low - (Forward + i)) = base + shift + (ReadPos - i) BY <2>1, <2>2
      <3>5. QED BY <3>2, <3>3, <3>4
    <2>5. QED BY <2>3, <2>4 DEF RingHolds
  <1>2. IInv => SourceRingHolds
    <2> SUFFICES ASSUME IInv, ~ cache_enable PROVE SourceRingHolds BY DEF SourceRingHolds
    <2>1. low \in Int /\ pos \in Int BY Constants DEF IInv, RingInv, RingOK, SourceOK
    <2>2. CASE places = "own"
      <3>1. 0 = low - pos BY <2>1, <2>2 DEF IInv, RingInv, SourceFollows
      <3>2. QED BY <1>1, <2>2, <3>1 DEF SourceRingHolds, RingHoldsStream
    <2>3. CASE places = "shifted" BY <1>1, <2>1, <2>3 DEF SourceRingHolds
    <2>4. QED BY <2>2, <2>3 DEF SourceRingHolds
  <1>3. QED BY <1>2, Invariant, PTL

(* The ring is a window on the stream: fetching takes no unread byte out of it
   and does not move the reader, seeks and reads move the reader inside it, and
   every other step starts it anew. *)
THEOREM RingIsWindow == Spec => ImplementsWindow
  <1>1. Init => Window!Init
    <2> SUFFICES ASSUME Init PROVE Window!Init OBVIOUS
    <2>1. Forward = 0 BY DEF Init, Forward
    <2>2. Back = Most(0, Least(0 - 0, Size - 0 - BackReserve)) BY <2>1 DEF Init, Back
    <2>3. Back = 0 BY <2>2, Constants DEF Most, Least
    <2>4. ReadPos = 0 BY <2>1 DEF Init, ReadPos
    <2>5. QED BY <2>3, <2>4 DEF Init, Window!Init
  <1>2. IInv /\ [Next]_vars => [Window!Next]_(Window!window) BY NextIInv DEF WindowStep
  <1>3. QED BY <1>1, <1>2, Invariant, PTL DEF Spec, ImplementsWindow, Window!Spec
=============================================================================
