------------------------------ MODULE CacheFile ------------------------------
(* The cache of one stream on disk (amplayer/player/player_cache_file.c and the
   client functions of player_cache_mgt.c): a data file, and a map of the pages
   of it that are valid, which closing the cache saves and opening it for the
   same stream reads again.  The data file keeps what was written to it.

   Of a place in the data file it only matters whether it holds the byte of the
   stream at that place, or another one, or a hole that was never written. *)
EXTENDS Integers, FiniteSets

CONSTANTS
  PageSize,   \* CACHE_PAGE_SIZE
  CacheSize,  \* cachesize, file_size of struct cache_file
  Caches      \* {FALSE} without the cache system, {TRUE} with it

ASSUME CacheAssumption ==
  /\ PageSize \in Nat \ {0}
  /\ CacheSize \in Nat
  /\ Caches \subseteq BOOLEAN

VARIABLES
  cache_enable,    \* url_lpopen got a cache
  cache_map,       \* the valid pages
  last_write_off,
  cache_data,      \* the places of the data file that hold the right byte
  cache_len        \* the length of the data file

cacheVars == <<cache_enable, cache_map, last_write_off, cache_data, cache_len>>

Pages == 0 .. CacheSize \div PageSize
PageOf(off) == off \div PageSize
Least(a, b) == IF a <= b THEN a ELSE b
Most(a, b)  == IF a >= b THEN a ELSE b

CacheTypeOK ==
  /\ cache_enable \in BOOLEAN
  /\ cache_map \subseteq Pages
  /\ last_write_off \in 0 .. CacheSize
  /\ cache_data \subseteq 0 .. CacheSize - 1
  /\ cache_len \in 0 .. CacheSize

CacheInit ==
  /\ cache_enable \in Caches
  /\ cache_map = {}
  /\ last_write_off = 0
  /\ cache_data = {}
  /\ cache_len = 0

(* How many bytes from off on the map calls valid, of max_size asked for.  The
   pages wanted are max_size / PageSize, rounded down. *)
map_searce_valid_bytes(off, max_size) ==
  LET run == Cardinality({p \in Pages : p >= PageOf(off) /\ PageOf(off) .. p \subseteq cache_map})
  IN IF run >= max_size \div PageSize THEN max_size
     ELSE Most(0, (run * PageSize) - (off % PageSize))

(* The bytes a read at off gets; a miss is none. *)
cache_client_read(off, size) ==
  IF ~ cache_enable \/ off > CacheSize THEN 0
  ELSE Most(0, Least(Least(size, map_searce_valid_bytes(off, size)), cache_len - off))

(* The pages cachefile_write makes valid: it takes the start of its first page
   as written if the write goes on where the last one ended. *)
MarkedPages(off, size) ==
  LET page_off  == off % PageSize
      continues == page_off > 0 /\ last_write_off = off
      first     == IF page_off > 0 /\ ~ continues THEN PageOf(off) + 1 ELSE PageOf(off)
      len       == IF continues THEN size + page_off ELSE size
  IN first .. first + len \div PageSize - 1

(* Of size bytes written at off, those of the set right are the stream's.  A
   write beyond the size of the cache is dropped. *)
cache_client_write(off, size, right) ==
  IF ~ cache_enable \/ off + size > CacheSize
  THEN UNCHANGED <<cache_map, last_write_off, cache_data, cache_len>>
  ELSE /\ cache_map' = cache_map \cup MarkedPages(off, size)
       /\ last_write_off' = off + size
       /\ cache_data' = (cache_data \ (off .. off + size - 1)) \cup right
       /\ cache_len' = Most(cache_len, off + size)

(* cachefile_close writes the map; cachefile_open of the same stream finds it,
   and the data.  A stream of unknown length gets a new file (extflags). *)
CacheReopens(known) ==
  /\ cache_map'  = IF known THEN cache_map ELSE {}
  /\ cache_data' = IF known THEN cache_data ELSE {}
  /\ cache_len'  = IF known THEN cache_len ELSE 0
  /\ last_write_off' = 0
  /\ UNCHANGED cache_enable
=============================================================================
