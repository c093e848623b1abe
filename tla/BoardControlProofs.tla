------------------------- MODULE BoardControlProofs -------------------------
(***************************************************************************)
(* Theorems about the control requests: for every argument the caller may  *)
(* pass and every way a transfer may fail, what reaches the board is in    *)
(* range and decodes to what was asked for, and a call that reports        *)
(* success has done all of its work.                                       *)
(***************************************************************************)
EXTENDS BoardControl, WellFoundedInduction, TLAPS

-----------------------------------------------------------------------------
(* Fields of 16 bits.                                                      *)

(* All that most of the proofs need to know of 2^16.                       *)
LEMMA Word == WORD \in Nat /\ 2048 < WORD
BY SMT DEF WORD

(* Small numbers have 16 bits.                                             *)
LEMMA Words ==
  /\ UINT16 \subseteq Nat
  /\ \A n \in Nat : n < 2048 => n \in UINT16
BY Word, SMT DEF UINT16

(* Division with remainder.                                                *)
LEMMA Division ==
  ASSUME NEW a \in Nat, NEW b \in Nat \ {0}
  PROVE  /\ a \div b \in Nat /\ a % b \in Nat /\ a % b < b
         /\ a = (a \div b) * b + (a % b)
BY SMT

(* Quotient and remainder are the only numbers that do.                    *)
LEMMA DivisionUnique ==
  ASSUME NEW a \in Nat, NEW b \in Nat \ {0}, NEW q \in Nat, NEW r \in Nat,
         r < b, a = q * b + r
  PROVE  a \div b = q /\ a % b = r
BY SMT

(* A 32-bit number is put together again from its two halves.              *)
LEMMA Halves ==
  ASSUME NEW n \in Nat, n \div WORD < WORD
  PROVE  /\ low16(n) \in UINT16 /\ high16(n) \in UINT16
         /\ low16(n) + WORD * high16(n) = n
         /\ WORD * high16(n) + low16(n) = n
<1>1. low16(n) \in UINT16
  BY SMT DEF low16, UINT16, WORD
<1>2. high16(n) \in UINT16
  <2>1. n \div WORD \in Nat
    BY SMT DEF WORD
  <2> QED
    BY <2>1, Word, SMT DEF high16, UINT16
<1>3. low16(n) + WORD * high16(n) = n
  BY SMT DEF low16, high16, WORD
<1>4. WORD * high16(n) + low16(n) = n
  BY SMT DEF low16, high16, WORD
<1> QED
  BY <1>1, <1>2, <1>3, <1>4

-----------------------------------------------------------------------------
(* What may be sent.                                                       *)

(* All of the data stage is insisted on; a gain's reply is one byte.       *)
Strict(r) ==
  /\ r.len \in Nat
  /\ r.req \notin Lenient => r.need = r.len
  /\ r.req \in Gain => r.len = 1

(* A request whose fields have their widths, say what the caller said, and *)
(* that insists on all its data.                                           *)
Proper(r) == InRange(r) /\ Decodes(r) /\ Strict(r)

(* The names whose requests BoardRanges and BoardDecodes single out.       *)
Special ==
  {"MAX2837_READ", "MAX2837_WRITE", "SI5351C_READ", "SI5351C_WRITE", "RFFC5071_READ",
   "RFFC5071_WRITE", "LNA_GAIN", "VGA_GAIN", "TXVGA_GAIN", "OPERACAKE_PORTS",
   "SPIFLASH_READ", "SPIFLASH_WRITE", "INIT_SWEEP", "SET_FREQ", "FILTER_SET"}

(* Any other request is proper if its fields have 16 bits and its reply is *)
(* insisted on.                                                            *)
LEMMA PlainRequest ==
  ASSUME NEW r, r.req \notin Special, r.value \in UINT16, r.index \in UINT16, r.len \in Nat,
         r.req \notin Lenient => r.need = r.len
  PROVE  Proper(r)
BY SMT DEF Proper, InRange, Decodes, Strict, Special, Gain

(* The chips' registers.                                                   *)
LEMMA RegisterProper ==
  ASSUME NEW r \in UINT16, NEW v \in UINT16
  PROVE  /\ r < 32 => Proper(hackrf_max2837_read(r))
         /\ r < 32 /\ v < 1024 => Proper(hackrf_max2837_write(r, v))
         /\ r < 256 => Proper(hackrf_si5351c_read(r))
         /\ r < 256 /\ v < 256 => Proper(hackrf_si5351c_write(r, v))
         /\ r < 31 => Proper(hackrf_rffc5071_read(r))
         /\ r < 31 => Proper(hackrf_rffc5071_write(r, v))
<1> USE DEF Proper, InRange, Decodes, Strict, Gain, Lenient, Command, Exchange, Request
<1>0. r \in Nat /\ v \in Nat /\ 0 \in UINT16
  BY Words
<1>1. r < 32 => Proper(hackrf_max2837_read(r))
  BY <1>0, SMT DEF hackrf_max2837_read
<1>2. r < 32 /\ v < 1024 => Proper(hackrf_max2837_write(r, v))
  BY <1>0, SMT DEF hackrf_max2837_write
<1>3. r < 256 => Proper(hackrf_si5351c_read(r))
  BY <1>0, SMT DEF hackrf_si5351c_read
<1>4. r < 256 /\ v < 256 => Proper(hackrf_si5351c_write(r, v))
  BY <1>0, SMT DEF hackrf_si5351c_write
<1>5. r < 31 => Proper(hackrf_rffc5071_read(r))
  BY <1>0, SMT DEF hackrf_rffc5071_read
<1>6. r < 31 => Proper(hackrf_rffc5071_write(r, v))
  BY <1>0, SMT DEF hackrf_rffc5071_write
<1> QED
  BY <1>1, <1>2, <1>3, <1>4, <1>5, <1>6

(* The gains: a multiple of the step, within the range.                    *)
LEMMA GainProper ==
  ASSUME NEW v \in Nat
  PROVE  /\ v <= 40 => Proper(hackrf_set_lna_gain(v))
         /\ v <= 62 => Proper(hackrf_set_vga_gain(v))
         /\ v <= 47 => Proper(hackrf_set_txvga_gain(v))
<1> USE DEF Proper, InRange, Decodes, Strict, Gain, Lenient, Exchange, Request
<1>0. 0 \in UINT16 /\ \A n \in Nat : n <= 62 => n \in UINT16
  BY Words
<1>1. ASSUME v <= 40 PROVE Proper(hackrf_set_lna_gain(v))
  <2>1. v - (v % 8) \in {0, 8, 16, 24, 32, 40}
    BY <1>1, SMT
  <2>2. v - (v % 8) \in UINT16
    BY <1>0, <2>1
  <2> QED
    BY <1>0, <2>1, <2>2, SMT DEF hackrf_set_lna_gain
<1>2. ASSUME v <= 62 PROVE Proper(hackrf_set_vga_gain(v))
  <2>1. PICK k \in 0 .. 31 : v - (v % 2) = 2 * k
    <3>1. v \div 2 \in 0 .. 31 /\ v - (v % 2) = 2 * (v \div 2)
      BY <1>2, SMT
    <3> QED
      BY <3>1
  <2>2. v - (v % 2) \in UINT16
    BY <1>0, <2>1
  <2> QED
    BY <1>0, <2>1, <2>2, SMT DEF hackrf_set_vga_gain
<1>3. ASSUME v <= 47 PROVE Proper(hackrf_set_txvga_gain(v))
  BY <1>0, <1>3, SMT DEF hackrf_set_txvga_gain
<1> QED
  BY <1>1, <1>2, <1>3

(* The numbers that are split: bandwidths, addresses, block sizes and      *)
(* frequencies.                                                            *)
LEMMA SplitProper ==
  ASSUME NEW n \in Nat, NEW m \in Nat
  PROVE  /\ n \div WORD < WORD => Proper(hackrf_set_baseband_filter_bandwidth(n))
         /\ n <= MAX_FLASH_ADDRESS => /\ Proper(hackrf_spiflash_write(n, m))
                            /\ Proper(hackrf_spiflash_read(n, m))
         /\ Proper(hackrf_set_freq(n))
<1> USE DEF Proper, InRange, Decodes, Strict, Gain, Lenient, Command, Exchange, Request
<1>0. 0 \in UINT16
  BY Words
<1>1. ASSUME n \div WORD < WORD PROVE Proper(hackrf_set_baseband_filter_bandwidth(n))
  BY <1>0, <1>1, Halves, SMT DEF hackrf_set_baseband_filter_bandwidth
<1>2. ASSUME n <= MAX_FLASH_ADDRESS
      PROVE  Proper(hackrf_spiflash_write(n, m)) /\ Proper(hackrf_spiflash_read(n, m))
  <2>1. n \div WORD < WORD /\ high16(n) < 16
    BY <1>2, SMT DEF WORD, high16, MAX_FLASH_ADDRESS
  <2> QED
    BY <1>0, <2>1, Halves, SMT DEF hackrf_spiflash_write, hackrf_spiflash_read, FlashRange
<1>3. Proper(hackrf_set_freq(n))
  <2> DEFINE q == n \div FREQ_ONE_MHZ
             mhz == q % DWORD
             rest == n - mhz * FREQ_ONE_MHZ
             hz == rest % DWORD
  <2>1. /\ FREQ_ONE_MHZ \in Nat \ {0} /\ DWORD \in Nat \ {0} /\ FREQ_ONE_MHZ < DWORD
    BY BoardControlAssumption, SMT
  <2>2. q \in Nat /\ n % FREQ_ONE_MHZ \in 0 .. FREQ_ONE_MHZ - 1 /\ n = q * FREQ_ONE_MHZ + (n % FREQ_ONE_MHZ)
    BY <2>1, Division, SMT
  <2>3. mhz \in Nat /\ mhz < DWORD /\ (q < DWORD => mhz = q)
    <3>1. mhz \in Nat /\ mhz < DWORD
      BY <2>1, <2>2, Division
    <3>2. q < DWORD => mhz = q
      <4> HIDE DEF q
      <4> QED
        BY <2>1, <2>2, SMT
    <3> QED
      BY <3>1, <3>2
  <2>4. hz \in 0 .. DWORD - 1
    <3>1. rest \in Int
      <4> HIDE DEF mhz
      <4> QED
        BY <2>1, <2>3, SMT
    <3> HIDE DEF rest
    <3> QED
      BY <2>1, <3>1, SMT
  <2>5. ASSUME InMHz(n)
        PROVE  hz < FREQ_ONE_MHZ /\ mhz * FREQ_ONE_MHZ + hz = n
    <3>1. q < DWORD
      <4>1. n < FREQ_ONE_MHZ * DWORD
        BY <2>5 DEF InMHz
      <4> HIDE DEF q
      <4>2. q * FREQ_ONE_MHZ < DWORD * FREQ_ONE_MHZ
        BY <2>1, <2>2, <4>1, SMT
      <4> QED
        BY <2>1, <2>2, <4>2, SMT
    <3>2. rest = n % FREQ_ONE_MHZ
      <4>1. mhz = q
        BY <2>3, <3>1
      <4> HIDE DEF mhz, q
      <4> QED
        BY <2>1, <2>2, <4>1, SMT
    <3>3. hz = n % FREQ_ONE_MHZ
      <4>1. n % FREQ_ONE_MHZ \in Nat /\ n % FREQ_ONE_MHZ < DWORD
        BY <2>1, <2>2, SMT
      <4> HIDE DEF rest
      <4> QED
        BY <2>1, <3>2, <4>1, SMT
    <3> HIDE DEF hz, mhz, q
    <3> QED
      BY <2>1, <2>2, <2>3, <3>1, <3>3, SMT
  <2> HIDE DEF mhz, hz
  <2>6. hackrf_set_freq(n) = Request("SET_FREQ", 0, TRUE, 0, 0, <<mhz, hz>>, 8, 8, <<n>>)
    BY DEF hackrf_set_freq, mhz, hz
  <2>7. mhz \in 0 .. DWORD - 1
    BY <2>1, <2>3, SMT
  <2> QED
    BY <1>0, <2>4, <2>5, <2>6, <2>7, SMT
<1> QED
  BY <1>1, <1>2, <1>3

(* A sweep's data fits its array, and Opera Cake ports are one of each     *)
(* side.                                                                   *)
LEMMA TableProper ==
  ASSUME NEW k \in Nat, NEW b \in Nat, NEW w, NEW y, NEW p \in Nat, NEW q \in Nat
  PROVE  /\ 1 <= k /\ k <= MAX_SWEEP_RANGES /\ b \div WORD < WORD =>
              Proper(hackrf_init_sweep(k, b, w, y))
         /\ /\ p <= PB4 /\ q <= PB4
            /\ ~(p <= PA4 /\ q <= PA4) /\ ~(p > PA4 /\ q > PA4)
            => Proper(hackrf_set_operacake_ports(0, p, q))
<1> USE DEF Proper, InRange, Decodes, Strict, Gain, Lenient, Command, Request
<1>1. ASSUME 1 <= k, k <= MAX_SWEEP_RANGES, b \div WORD < WORD
      PROVE  Proper(hackrf_init_sweep(k, b, w, y))
  <2>1. 9 + k * 4 \in 13 .. 49 /\ 9 + k * 4 \in Nat
    BY <1>1, SMT DEF MAX_SWEEP_RANGES
  <2> QED
    BY <1>1, <2>1, Halves, SMT DEF hackrf_init_sweep
<1>2. ASSUME p <= PB4, q <= PB4, ~(p <= PA4 /\ q <= PA4), ~(p > PA4 /\ q > PA4)
      PROVE  Proper(hackrf_set_operacake_ports(0, p, q))
  <2>1. (p \in 0 .. 3 /\ q \in 4 .. 7) \/ (p \in 4 .. 7 /\ q \in 0 .. 3)
    BY <1>2, SMT DEF PA4, PB4
  <2>2. /\ (p + 256 * q) % 256 = p /\ (p + 256 * q) \div 256 = q
        /\ p + 256 * q \in Nat /\ p + 256 * q < 2048
    BY <2>1, SMT
  <2>3. p + 256 * q \in UINT16 /\ 0 \in UINT16
    BY <2>2, Words
  <2> QED
    BY <2>1, <2>2, <2>3, SMT DEF hackrf_set_operacake_ports
<1> QED
  BY <1>1, <1>2

(* The requests without a parameter test of their own.                     *)
LEMMA PlainProper ==
  ASSUME NEW m \in 0 .. 4, NEW v \in {0, 1}, NEW n \in Nat, NEW f, NEW g, NEW p
  PROVE  /\ Proper(hackrf_set_transceiver_mode(m))
         /\ Proper(hackrf_spiflash_erase) /\ Proper(hackrf_spiflash_status)
         /\ Proper(hackrf_spiflash_clear_status) /\ Proper(hackrf_board_id_read)
         /\ Proper(hackrf_version_string_read(n))
         /\ Proper(hackrf_set_freq_explicit(f, g, p))
         /\ Proper(hackrf_set_amp_enable(v)) /\ Proper(hackrf_board_partid_serialno_read)
         /\ Proper(hackrf_set_antenna_enable(v)) /\ Proper(hackrf_set_hw_sync_mode(v))
         /\ Proper(hackrf_get_operacake_boards) /\ Proper(hackrf_reset)
         /\ Proper(hackrf_set_operacake_ranges(n)) /\ Proper(hackrf_set_clkout_enable(v))
         /\ Proper(hackrf_operacake_gpio_test(0)) /\ Proper(hackrf_cpld_checksum)
<1> USE PlainRequest DEF Special, Lenient, Command, Exchange, Request
<1>0. m \in UINT16 /\ v \in UINT16 /\ 0 \in UINT16
  BY Words
<1>1. Proper(hackrf_set_transceiver_mode(m))
  BY <1>0, SMT DEF hackrf_set_transceiver_mode
<1>2. Proper(hackrf_spiflash_erase) /\ Proper(hackrf_spiflash_status)
  BY <1>0, SMT DEF hackrf_spiflash_erase, hackrf_spiflash_status
<1>3. Proper(hackrf_spiflash_clear_status) /\ Proper(hackrf_board_id_read)
  BY <1>0, SMT DEF hackrf_spiflash_clear_status, hackrf_board_id_read
<1>4. Proper(hackrf_version_string_read(n))
  BY <1>0, SMT DEF hackrf_version_string_read
<1>5. Proper(hackrf_set_freq_explicit(f, g, p))
  BY <1>0, SMT DEF hackrf_set_freq_explicit
<1>6. Proper(hackrf_set_amp_enable(v)) /\ Proper(hackrf_board_partid_serialno_read)
  BY <1>0, SMT DEF hackrf_set_amp_enable, hackrf_board_partid_serialno_read
<1>7. Proper(hackrf_set_antenna_enable(v)) /\ Proper(hackrf_set_hw_sync_mode(v))
  BY <1>0, SMT DEF hackrf_set_antenna_enable, hackrf_set_hw_sync_mode
<1>8. Proper(hackrf_get_operacake_boards) /\ Proper(hackrf_reset)
  BY <1>0, SMT DEF hackrf_get_operacake_boards, hackrf_reset
<1>9. Proper(hackrf_set_operacake_ranges(n)) /\ Proper(hackrf_set_clkout_enable(v))
  BY <1>0, SMT DEF hackrf_set_operacake_ranges, hackrf_set_clkout_enable
<1>10. Proper(hackrf_operacake_gpio_test(0)) /\ Proper(hackrf_cpld_checksum)
  BY <1>0, SMT DEF hackrf_operacake_gpio_test, hackrf_cpld_checksum
<1> QED
  BY <1>1, <1>2, <1>3, <1>4, <1>5, <1>6, <1>7, <1>8, <1>9, <1>10

-----------------------------------------------------------------------------
(* The filter table.                                                       *)

(* The table of bandwidths ascends up to its terminator, and each fits the *)
(* two fields of the request.                                              *)
LEMMA Table ==
  /\ DOMAIN max2837_ft = 1 .. 17
  /\ max2837_ft[17] = 0
  /\ \A p \in 1 .. 17 : max2837_ft[p] \in Nat /\ max2837_ft[p] \div WORD < WORD
  /\ \A p \in 1 .. 16 : max2837_ft[p] > 0
  /\ \A p \in 1 .. 15 : max2837_ft[p] < max2837_ft[p + 1]
<1> USE DEF max2837_ft
<1>1. DOMAIN max2837_ft = 1 .. 17 /\ max2837_ft[17] = 0
  BY SMT
<1>2. \A p \in 1 .. 17 : max2837_ft[p] \in Nat /\ max2837_ft[p] \div WORD < WORD
  BY SMT DEF WORD
<1>3. \A p \in 1 .. 16 : max2837_ft[p] > 0
  BY SMT
<1>4. \A p \in 1 .. 15 : max2837_ft[p] < max2837_ft[p + 1]
  BY SMT
<1> QED
  BY <1>1, <1>2, <1>3, <1>4

(* So do any two of its bandwidths.                                        *)
LEMMA Ascends ==
  ASSUME NEW p \in 1 .. 16, NEW q \in 1 .. 16, p <= q
  PROVE  max2837_ft[p] <= max2837_ft[q]
BY SMT DEF max2837_ft

(* A nonempty set of numbers has a least one.                              *)
LEMMA Least ==
  ASSUME NEW T \in SUBSET Nat, T # {}
  PROVE  \E x \in T : \A y \in T : x <= y
<1> DEFINE R == {ss \in Nat \X Nat : ss[1] < ss[2]}
<1>1. IsWellFoundedOn(R, Nat)
  BY NatLessThanWellFounded DEF OpToRel
<1> HIDE DEF R
<1>2. PICK x \in T : \A y \in T : ~(<<y, x>> \in R)
  BY <1>1, WFMin
<1>3. ASSUME NEW y \in T PROVE ~(y < x)
  <2>1. x \in Nat /\ y \in Nat /\ ~(<<y, x>> \in R)
    BY <1>2
  <2>2. y < x => <<y, x>> \in R
    BY <2>1, SMT DEF R
  <2> QED
    BY <2>1, <2>2
<1> QED
  BY <1>3, SMT

(* Where the loop over the table stops.                                    *)
Stops(p, bw) ==
  /\ max2837_ft[p] = 0 \/ max2837_ft[p] >= bw
  /\ \A q \in 1 .. p - 1 : max2837_ft[q] # 0 /\ max2837_ft[q] < bw

(* The loop stops within the table.                                        *)
LEMMA StopsSomewhere ==
  ASSUME NEW bw \in Nat
  PROVE  Stop(bw) \in 1 .. 17 /\ Stops(Stop(bw), bw)
<1> DEFINE T == {p \in 1 .. 17 : max2837_ft[p] = 0 \/ max2837_ft[p] >= bw}
<1>1. T \in SUBSET Nat /\ 17 \in T
  BY Table
<1>2. PICK x \in T : \A y \in T : x <= y
  BY <1>1, Least
<1>3. x \in 1 .. 17 /\ (max2837_ft[x] = 0 \/ max2837_ft[x] >= bw)
  BY <1>2
<1>4. ASSUME NEW q \in 1 .. x - 1
      PROVE  max2837_ft[q] # 0 /\ max2837_ft[q] < bw
  <2>1. q \in 1 .. 17 /\ q < x
    BY <1>3, SMT
  <2>2. q \notin T
    BY <1>2, <2>1, SMT
  <2> QED
    BY <2>1, <2>2, Table, SMT
<1>5. \E p \in DOMAIN max2837_ft : Stops(p, bw)
  BY <1>3, <1>4, Table DEF Stops
<1> QED
  BY <1>5, Table DEF Stop, Stops

(* The bandwidth that is computed is one of the table's.                   *)
LEMMA ComputedBandwidth ==
  ASSUME NEW bw \in Nat
  PROVE  /\ hackrf_compute_baseband_filter_bw(bw) \in {max2837_ft[p] : p \in 1 .. 17}
         /\ hackrf_compute_baseband_filter_bw_round_down_lt(bw)
              \in {max2837_ft[p] : p \in 1 .. 17}
<1>1. Stop(bw) \in 1 .. 17 /\ (Stop(bw) # 1 => Stop(bw) - 1 \in 1 .. 17)
  BY StopsSomewhere, SMT
<1> QED
  BY <1>1 DEF hackrf_compute_baseband_filter_bw, hackrf_compute_baseband_filter_bw_round_down_lt

(* Between the least and the greatest bandwidth.                           *)
InTable(bw) == 1750000 <= bw /\ bw <= 28000000

(* Between the ends of the table, the widest bandwidth of at most bw is    *)
(* computed.                                                               *)
LEMMA ComputesWidest ==
  ASSUME NEW bw \in Nat, InTable(bw)
  PROVE  hackrf_compute_baseband_filter_bw(bw) = Widest(bw)
<1> DEFINE p == Stop(bw)
           c == IF p # 1 /\ max2837_ft[p] > bw THEN p - 1 ELSE p
           b == max2837_ft[c]
<1> HIDE DEF p
<1>1. p \in 1 .. 17 /\ Stops(p, bw)
  BY StopsSomewhere DEF p
<1>2. max2837_ft[1] = 1750000 /\ max2837_ft[16] = 28000000
  BY SMT DEF max2837_ft
<1>3. p \in 1 .. 16 /\ max2837_ft[p] >= bw
  <2>1. ~(p = 17)
    BY <1>1, <1>2, SMT DEF Stops, InTable
  <2> QED
    BY <1>1, <2>1, Table, SMT DEF Stops
<1>4. \A q \in 1 .. 17 : max2837_ft[q] \in Nat
  BY Table
<1>5. c \in 1 .. 16 /\ b <= bw /\ b \in Nat
  <2>1. CASE p # 1 /\ max2837_ft[p] > bw
    BY <1>1, <1>3, <1>4, <2>1, SMT DEF Stops
  <2>2. CASE p = 1
    BY <1>2, <1>3, <2>2, SMT DEF InTable
  <2>3. CASE p # 1 /\ ~(max2837_ft[p] > bw)
    BY <1>3, <1>4, <2>3, SMT
  <2> QED
    BY <2>1, <2>2, <2>3
<1>6. ASSUME NEW q \in 1 .. 17, max2837_ft[q] <= bw
      PROVE  max2837_ft[q] <= b
  <2>1. CASE q = 17
    BY <2>1, <1>5, Table, SMT
  <2>2. CASE q # 17 /\ q <= c
    BY <2>2, <1>5, Ascends, SMT
  <2>3. CASE q # 17 /\ q > c
    <3>1. q >= p
      BY <2>3, <1>3, SMT
    <3>2. max2837_ft[p] <= max2837_ft[q]
      BY <3>1, <2>3, <1>3, Ascends, SMT
    <3>3. max2837_ft[p] = bw
      BY <3>2, <1>6, <1>3, <1>4, SMT
    <3>4. c = p
      BY <3>3, <1>4, <1>3, SMT
    <3> QED
      BY <1>6, <3>3, <3>4
  <2> QED
    BY <1>5, <2>1, <2>2, <2>3, SMT
<1> DEFINE All == {max2837_ft[q] : q \in DOMAIN max2837_ft}
           IsWidest(x) == /\ x <= bw
                          /\ \A q \in DOMAIN max2837_ft : max2837_ft[q] <= bw => max2837_ft[q] <= x
<1>7. b \in All /\ IsWidest(b)
  BY <1>5, <1>6, Table
<1>8. ASSUME NEW x \in All, IsWidest(x) PROVE x = b
  <2>1. PICK q \in 1 .. 17 : x = max2837_ft[q]
    BY Table
  <2>2. x \in Nat /\ x <= b
    BY <1>4, <1>6, <1>8, <2>1
  <2>3. b <= x
    BY <1>5, <1>8, Table, SMT
  <2> QED
    BY <1>5, <2>2, <2>3, SMT
<1>9. Widest(bw) = b
  <2> HIDE DEF b
  <2> QED
    BY <1>7, <1>8 DEF Widest
<1> QED
  BY <1>9 DEF hackrf_compute_baseband_filter_bw, p

-----------------------------------------------------------------------------
(* The calls that send one request.                                        *)

(* Not one of the calls that send several, and proper if its parameter     *)
(* test passes.                                                            *)
Single(r) ==
  /\ r.req \notin {"SAMPLE_RATE_SET", "CPLD_WRITE"}
  /\ r.valid => Proper(r)

(* The bytes are among the 16-bit words.                                   *)
LEMMA Bytes == UINT8 \subseteq UINT16
BY Words, SMT DEF UINT8

(* Whatever the arguments, the parameter test lets only proper requests    *)
(* through.                                                                *)
LEMMA CallsSingle ==
  ASSUME NEW r \in Calls
  PROVE  Single(r)
<1> USE DEF Command, Exchange, Request
<1>1. CASE r \in {hackrf_set_transceiver_mode(m) : m \in 0 .. 2}
  <2>1. PICK m \in 0 .. 4 : r = hackrf_set_transceiver_mode(m)
    BY <1>1, SMT
  <2>2. r.req = "SET_TRANSCEIVER_MODE"
    BY <2>1 DEF hackrf_set_transceiver_mode
  <2> QED
    BY <2>1, <2>2, PlainProper DEF Single
<1>2. CASE r \in {hackrf_max2837_read(a) : a \in Number \cap UINT8}
  <2>1. PICK a \in UINT16 : r = hackrf_max2837_read(a)
    BY <1>2, Bytes
  <2>2. r.req = "MAX2837_READ"
    BY <2>1 DEF hackrf_max2837_read
  <2>3. r.valid => a < 32
    BY <2>1, Zenon DEF hackrf_max2837_read
  <2> QED
    BY <2>1, <2>2, <2>3, RegisterProper DEF Single
<1>3. CASE r \in {hackrf_max2837_write(a, v) : a \in Number \cap UINT8, v \in Number \cap UINT16}
  <2>1. PICK a \in UINT16, v \in UINT16 : r = hackrf_max2837_write(a, v)
    BY <1>3, Bytes
  <2>2. r.req = "MAX2837_WRITE"
    BY <2>1 DEF hackrf_max2837_write
  <2>3. r.valid => a < 32 /\ v < 1024
    BY <2>1, Zenon DEF hackrf_max2837_write
  <2> QED
    BY <2>1, <2>2, <2>3, RegisterProper DEF Single
<1>4. CASE r \in {hackrf_si5351c_read(a) : a \in Number \cap UINT16}
  <2>1. PICK a \in UINT16 : r = hackrf_si5351c_read(a)
    BY <1>4, Bytes
  <2>2. r.req = "SI5351C_READ"
    BY <2>1 DEF hackrf_si5351c_read
  <2>3. r.valid => a < 256
    BY <2>1, Zenon DEF hackrf_si5351c_read
  <2> QED
    BY <2>1, <2>2, <2>3, RegisterProper DEF Single
<1>5. CASE r \in {hackrf_si5351c_write(a, v) : a \in Number \cap UINT16, v \in Number \cap UINT16}
  <2>1. PICK a \in UINT16, v \in UINT16 : r = hackrf_si5351c_write(a, v)
    BY <1>5, Bytes
  <2>2. r.req = "SI5351C_WRITE"
    BY <2>1 DEF hackrf_si5351c_write
  <2>3. r.valid => a < 256 /\ v < 256
    BY <2>1, Zenon DEF hackrf_si5351c_write
  <2> QED
    BY <2>1, <2>2, <2>3, RegisterProper DEF Single
<1>6. CASE r \in {hackrf_rffc5071_read(a) : a \in Number \cap UINT8}
  <2>1. PICK a \in UINT16 : r = hackrf_rffc5071_read(a)
    BY <1>6, Bytes
  <2>2. r.req = "RFFC5071_READ"
    BY <2>1 DEF hackrf_rffc5071_read
  <2>3. r.valid => a < 31
    BY <2>1, Zenon DEF hackrf_rffc5071_read
  <2> QED
    BY <2>1, <2>2, <2>3, RegisterProper DEF Single
<1>7. CASE r \in {hackrf_rffc5071_write(a, v) : a \in Number \cap UINT8, v \in Number \cap UINT16}
  <2>1. PICK a \in UINT16, v \in UINT16 : r = hackrf_rffc5071_write(a, v)
    BY <1>7, Bytes
  <2>2. r.req = "RFFC5071_WRITE"
    BY <2>1 DEF hackrf_rffc5071_write
  <2>3. r.valid => a < 31
    BY <2>1, Zenon DEF hackrf_rffc5071_write
  <2> QED
    BY <2>1, <2>2, <2>3, RegisterProper DEF Single
<1>8. CASE r \in {hackrf_set_baseband_filter_bandwidth(bw) : bw \in Bandwidth}
  <2>1. PICK bw \in Nat : r = hackrf_set_baseband_filter_bandwidth(bw) /\ bw \div WORD < WORD
    BY <1>8, BoardControlAssumption
  <2>2. r.req = "FILTER_SET"
    BY <2>1 DEF hackrf_set_baseband_filter_bandwidth
  <2> QED
    BY <2>1, <2>2, SplitProper DEF Single
<1>9. CASE r \in {hackrf_set_baseband_filter_bandwidth(
                     hackrf_compute_baseband_filter_bw_round_down_lt(bw)) : bw \in Bandwidth}
  <2>1. PICK bw \in Nat : r = hackrf_set_baseband_filter_bandwidth(
                                hackrf_compute_baseband_filter_bw_round_down_lt(bw))
    BY <1>9, BoardControlAssumption
  <2>2. PICK c \in Nat : r = hackrf_set_baseband_filter_bandwidth(c) /\ c \div WORD < WORD
    BY <2>1, ComputedBandwidth, Table
  <2>3. r.req = "FILTER_SET"
    BY <2>2 DEF hackrf_set_baseband_filter_bandwidth
  <2> QED
    BY <2>2, <2>3, SplitProper DEF Single
<1>10. CASE r \in {hackrf_spiflash_write(a, n) : a \in Address, n \in Length}
  <2>1. PICK a \in Nat, n \in Nat : r = hackrf_spiflash_write(a, n)
    BY <1>10, BoardControlAssumption
  <2>2. r.req = "SPIFLASH_WRITE"
    BY <2>1 DEF hackrf_spiflash_write, FlashRange
  <2>3. r.valid => a <= MAX_FLASH_ADDRESS
    BY <2>1, Zenon DEF hackrf_spiflash_write, FlashRange
  <2> QED
    BY <2>1, <2>2, <2>3, SplitProper DEF Single
<1>11. CASE r \in {hackrf_spiflash_read(a, n) : a \in Address, n \in Length}
  <2>1. PICK a \in Nat, n \in Nat : r = hackrf_spiflash_read(a, n)
    BY <1>11, BoardControlAssumption
  <2>2. r.req = "SPIFLASH_READ"
    BY <2>1 DEF hackrf_spiflash_read, FlashRange
  <2>3. r.valid => a <= MAX_FLASH_ADDRESS
    BY <2>1, Zenon DEF hackrf_spiflash_read, FlashRange
  <2> QED
    BY <2>1, <2>2, <2>3, SplitProper DEF Single
<1>12. CASE r \in {hackrf_version_string_read(n) : n \in Length \cap UINT8}
  <2>1. PICK n \in Nat : r = hackrf_version_string_read(n)
    BY <1>12, BoardControlAssumption
  <2>2. r.req = "VERSION_STRING"
    BY <2>1 DEF hackrf_version_string_read
  <2> QED
    BY <2>1, <2>2, PlainProper DEF Single
<1>13. CASE r \in {hackrf_set_freq(f) : f \in Frequency}
  <2>1. PICK f \in Nat : r = hackrf_set_freq(f)
    BY <1>13, BoardControlAssumption
  <2>2. r.req = "SET_FREQ"
    BY <2>1 DEF hackrf_set_freq
  <2> QED
    BY <2>1, <2>2, SplitProper DEF Single
<1>14. CASE r \in {hackrf_set_freq_explicit(f, g, p) : f \in Frequency, g \in Frequency, p \in 0 .. 3}
  <2>1. PICK f \in Frequency, g \in Frequency, p \in 0 .. 3 : r = hackrf_set_freq_explicit(f, g, p)
    BY <1>14, BoardControlAssumption
  <2>2. r.req = "SET_FREQ_EXPLICIT"
    BY <2>1 DEF hackrf_set_freq_explicit
  <2> QED
    BY <2>1, <2>2, PlainProper DEF Single
<1>15. CASE r \in {hackrf_set_amp_enable(v) : v \in {0, 1}}
  <2>1. PICK v \in {0, 1} : r = hackrf_set_amp_enable(v)
    BY <1>15
  <2>2. r.req = "AMP_ENABLE"
    BY <2>1 DEF hackrf_set_amp_enable
  <2> QED
    BY <2>1, <2>2, PlainProper DEF Single
<1>16. CASE r \in {hackrf_set_lna_gain(v) : v \in Number}
  <2>1. PICK v \in Nat : r = hackrf_set_lna_gain(v)
    BY <1>16, BoardControlAssumption
  <2>2. r.req = "LNA_GAIN"
    BY <2>1 DEF hackrf_set_lna_gain
  <2>3. r.valid => v <= 40
    BY <2>1, Zenon DEF hackrf_set_lna_gain
  <2> QED
    BY <2>1, <2>2, <2>3, GainProper DEF Single
<1>17. CASE r \in {hackrf_set_vga_gain(v) : v \in Number}
  <2>1. PICK v \in Nat : r = hackrf_set_vga_gain(v)
    BY <1>17, BoardControlAssumption
  <2>2. r.req = "VGA_GAIN"
    BY <2>1 DEF hackrf_set_vga_gain
  <2>3. r.valid => v <= 62
    BY <2>1, Zenon DEF hackrf_set_vga_gain
  <2> QED
    BY <2>1, <2>2, <2>3, GainProper DEF Single
<1>18. CASE r \in {hackrf_set_txvga_gain(v) : v \in Number}
  <2>1. PICK v \in Nat : r = hackrf_set_txvga_gain(v)
    BY <1>18, BoardControlAssumption
  <2>2. r.req = "TXVGA_GAIN"
    BY <2>1 DEF hackrf_set_txvga_gain
  <2>3. r.valid => v <= 47
    BY <2>1, Zenon DEF hackrf_set_txvga_gain
  <2> QED
    BY <2>1, <2>2, <2>3, GainProper DEF Single
<1>19. CASE r \in {hackrf_set_antenna_enable(v) : v \in {0, 1}}
  <2>1. PICK v \in {0, 1} : r = hackrf_set_antenna_enable(v)
    BY <1>19
  <2>2. r.req = "ANTENNA_ENABLE"
    BY <2>1 DEF hackrf_set_antenna_enable
  <2> QED
    BY <2>1, <2>2, PlainProper DEF Single
<1>20. CASE r \in {hackrf_set_hw_sync_mode(v) : v \in {0, 1}}
  <2>1. PICK v \in {0, 1} : r = hackrf_set_hw_sync_mode(v)
    BY <1>20
  <2>2. r.req = "HW_SYNC"
    BY <2>1 DEF hackrf_set_hw_sync_mode
  <2> QED
    BY <2>1, <2>2, PlainProper DEF Single
<1>21. CASE r \in {hackrf_init_sweep(k, b, w, y) : k \in 0 .. MAX_SWEEP_RANGES + 1, b \in SweepBytes,
                                            w \in {0, 1}, y \in 0 .. 2}
  <2>1. PICK k \in Nat, b \in Nat, w \in {0, 1}, y \in 0 .. 2 : r = hackrf_init_sweep(k, b, w, y) /\ b \div WORD < WORD
    BY <1>21, BoardControlAssumption
  <2>2. r.req = "INIT_SWEEP"
    BY <2>1 DEF hackrf_init_sweep
  <2>3. r.valid => 1 <= k /\ k <= MAX_SWEEP_RANGES
    BY <2>1, Zenon DEF hackrf_init_sweep
  <2> QED
    BY <2>1, <2>2, <2>3, TableProper DEF Single
<1>22. CASE r \in {hackrf_set_operacake_ports(0, a, b) : a \in 0 .. PB4 + 1, b \in 0 .. PB4 + 1}
  <2>1. PICK a \in Nat, b \in Nat : r = hackrf_set_operacake_ports(0, a, b)
    BY <1>22, BoardControlAssumption
  <2>2. r.req = "OPERACAKE_PORTS"
    BY <2>1 DEF hackrf_set_operacake_ports
  <2>3. r.valid => /\ a <= PB4 /\ b <= PB4
                   /\ ~(a <= PA4 /\ b <= PA4) /\ ~(a > PA4 /\ b > PA4)
    BY <2>1, Zenon DEF hackrf_set_operacake_ports
  <2> QED
    BY <2>1, <2>2, <2>3, TableProper DEF Single
<1>23. CASE r \in {hackrf_set_operacake_ranges(n) : n \in Length \cap UINT8}
  <2>1. PICK n \in Nat : r = hackrf_set_operacake_ranges(n)
    BY <1>23, BoardControlAssumption
  <2>2. r.req = "OPERACAKE_RANGES"
    BY <2>1 DEF hackrf_set_operacake_ranges
  <2> QED
    BY <2>1, <2>2, PlainProper DEF Single
<1>24. CASE r \in {hackrf_set_clkout_enable(v) : v \in {0, 1}}
  <2>1. PICK v \in {0, 1} : r = hackrf_set_clkout_enable(v)
    BY <1>24
  <2>2. r.req = "CLKOUT_ENABLE"
    BY <2>1 DEF hackrf_set_clkout_enable
  <2> QED
    BY <2>1, <2>2, PlainProper DEF Single
<1>25. CASE r \in {hackrf_operacake_gpio_test(0), hackrf_get_operacake_boards, hackrf_reset,
                   hackrf_cpld_checksum, hackrf_spiflash_erase, hackrf_spiflash_status,
                   hackrf_spiflash_clear_status, hackrf_board_id_read,
                   hackrf_board_partid_serialno_read}
  <2>1. Proper(r)
    <3>1. 0 \in 0 .. 4 /\ 0 \in Nat
      OBVIOUS
    <3> QED
      BY <1>25, <3>1, PlainProper
  <2>2. r.req \notin {"SAMPLE_RATE_SET", "CPLD_WRITE"}
    BY <1>25 DEF hackrf_operacake_gpio_test, hackrf_get_operacake_boards, hackrf_reset,
                hackrf_cpld_checksum, hackrf_spiflash_erase, hackrf_spiflash_status,
                hackrf_spiflash_clear_status, hackrf_board_id_read,
                hackrf_board_partid_serialno_read
  <2> QED
    BY <2>1, <2>2 DEF Single
<1> QED
  BY <1>1, <1>2, <1>3, <1>4, <1>5, <1>6, <1>7, <1>8, <1>9, <1>10, <1>11, <1>12, <1>13,
     <1>14, <1>15, <1>16, <1>17, <1>18, <1>19, <1>20, <1>21, <1>22, <1>23, <1>24, <1>25 DEF Calls

-----------------------------------------------------------------------------
(* The sample rate.                                                        *)

(* The next multiple of hz + part/n from the last.                         *)
NextMultiple(a, hz, part, n) ==
  <<a[1] + hz + ((a[2] + part) \div n), (a[2] + part) % n>>

(* m solves the recursion that defines Multiples, up to k.                 *)
MultiplesOf(m, k, hz, part, n) ==
  m = [i \in 0 .. k |-> IF i = 0 THEN <<0, 0>> ELSE NextMultiple(m[i - 1], hz, part, n)]

(* i times hz + part/n is a[1], and a[2] n-ths more.                       *)
IsMultiple(a, i, hz, part, n) ==
  a[1] \in Nat /\ a[2] \in Nat /\ a[2] < n /\ a[1] * n + a[2] = i * (hz * n + part)

(* It stays so with the next.                                              *)
LEMMA OneMore ==
  ASSUME NEW hz \in Nat, NEW part \in Nat, NEW n \in Nat \ {0}, NEW i \in Nat,
         NEW a, IsMultiple(a, i, hz, part, n)
  PROVE  IsMultiple(NextMultiple(a, hz, part, n), i + 1, hz, part, n)
<1> DEFINE w == a[1]
           r == a[2]
           q == (r + part) \div n
           t == (r + part) % n
           X == hz * n + part
<1>1. w \in Nat /\ r \in Nat /\ w * n + r = i * X
  BY DEF IsMultiple
<1>2. q \in Nat /\ t \in Nat /\ t < n /\ r + part = q * n + t
  <2>1. r + part \in Nat
    BY <1>1, SMT
  <2> QED
    BY <2>1, Division
<1>3. NextMultiple(a, hz, part, n) = <<w + hz + q, t>>
  BY DEF NextMultiple
<1> HIDE DEF w, r, q, t
<1>4. (w + hz + q) * n = w * n + hz * n + q * n
  BY <1>1, <1>2, SMT
<1>5. X \in Nat
  BY SMT
<1>6. (i + 1) * X = i * X + X
  <2> HIDE DEF X
  <2> QED
    BY <1>5, SMT
<1> DEFINE wn == w * n
           hn == hz * n
           qn == q * n
           iX == i * X
           L == (w + hz + q) * n
           R == (i + 1) * X
<1>7. wn \in Nat /\ hn \in Nat /\ qn \in Nat /\ iX \in Nat
  BY <1>1, <1>2, <1>5, SMT
<1>8. wn + r = iX /\ L = wn + hn + qn /\ R = iX + (hn + part) /\ r + part = qn + t
  BY <1>1, <1>2, <1>4, <1>6
<1>9. L + t = R
  <2> HIDE DEF wn, hn, qn, iX, L, R
  <2> QED
    BY <1>1, <1>2, <1>7, <1>8, SMT
<1>10. w + hz + q \in Nat
  BY <1>1, <1>2, SMT
<1> QED
  BY <1>2, <1>3, <1>9, <1>10 DEF IsMultiple

(* The recursion has a solution.                                           *)
LEMMA MultiplesExist ==
  ASSUME NEW hz, NEW part, NEW n, NEW k \in Nat
  PROVE  \E m : MultiplesOf(m, k, hz, part, n)
<1> DEFINE T == {j \in Nat : ~ \E m : MultiplesOf(m, j, hz, part, n)}
<1>1. SUFFICES ASSUME T # {} PROVE FALSE
  BY <1>1
<1>2. PICK j \in T : \A y \in T : j <= y
  BY <1>1, Least
<1>3. CASE j = 0
  <2> DEFINE m == [i \in 0 .. 0 |-> <<0, 0>>]
  <2>1. m = [i \in 0 .. 0 |-> IF i = 0 THEN <<0, 0>> ELSE NextMultiple(m[i - 1], hz, part, n)]
    OBVIOUS
  <2> QED
    BY <1>3, <2>1 DEF MultiplesOf
<1>4. CASE j # 0
  <2>1. j - 1 \in Nat /\ j - 1 \notin T
    BY <1>2, <1>4, SMT
  <2>2. PICK g : MultiplesOf(g, j - 1, hz, part, n)
    BY <2>1
  <2> DEFINE step(i) == IF i = 0 THEN <<0, 0>> ELSE NextMultiple(g[i - 1], hz, part, n)
             m == [i \in 0 .. j |-> step(i)]
  <2>3. ASSUME NEW i \in 0 .. j, i # 0 PROVE m[i - 1] = g[i - 1]
    <3>1. i - 1 \in 0 .. j - 1 /\ i - 1 \in 0 .. j
      BY <2>3, <1>2, SMT
    <3>2. g[i - 1] = step(i - 1)
      BY <2>2, <3>1 DEF MultiplesOf
    <3> QED
      BY <3>1, <3>2
  <2>4. \A i \in 0 .. j :
          step(i) = IF i = 0 THEN <<0, 0>> ELSE NextMultiple(m[i - 1], hz, part, n)
    BY <2>3
  <2>5. MultiplesOf(m, j, hz, part, n)
    BY <2>4, Zenon DEF MultiplesOf
  <2> QED
    BY <2>5, <1>2
<1> QED
  BY <1>3, <1>4

(* The loop's accumulator, and freq * i, are the multiples they stand for. *)
LEMMA MultiplesAre ==
  ASSUME NEW hz \in Nat, NEW part \in Nat, NEW n \in Nat \ {0}, NEW i \in 0 .. MAX_N - 1
  PROVE  IsMultiple(Multiples(hz, part, n)[i], i, hz, part, n)
<1> DEFINE m == CHOOSE f : MultiplesOf(f, MAX_N - 1, hz, part, n)
<1>1. MAX_N - 1 \in Nat
  BY SMT DEF MAX_N
<1>2. MultiplesOf(m, MAX_N - 1, hz, part, n)
  BY <1>1, MultiplesExist
<1>3. Multiples(hz, part, n) = m
  BY Zenon DEF Multiples, MultiplesOf, NextMultiple
<1> HIDE DEF m
<1> DEFINE T == {j \in 0 .. MAX_N - 1 : ~IsMultiple(m[j], j, hz, part, n)}
<1>4. SUFFICES ASSUME T # {} PROVE FALSE
  BY <1>3, <1>4
<1>5. PICK j \in T : \A y \in T : j <= y
  <2>1. T \in SUBSET Nat
    BY <1>1, SMT
  <2> HIDE DEF T
  <2> QED
    BY <1>4, <2>1, Least
<1>6. j \in 0 .. MAX_N - 1 /\ ~IsMultiple(m[j], j, hz, part, n)
  BY <1>5
<1>7. CASE j = 0
  <2>1. m[0] = <<0, 0>>
    BY <1>2, <1>6, <1>7 DEF MultiplesOf
  <2>2. 0 * n + 0 = 0 * (hz * n + part)
    BY SMT
  <2>3. IsMultiple(<<0, 0>>, 0, hz, part, n)
    BY <2>2, SMT DEF IsMultiple
  <2> QED
    BY <1>6, <1>7, <2>1, <2>3
<1>8. CASE j # 0
  <2>1. j - 1 \in 0 .. MAX_N - 1 /\ j - 1 \in Nat /\ ~(j <= j - 1) /\ (j - 1) + 1 = j
    BY <1>1, <1>6, <1>8, SMT
  <2>2. IsMultiple(m[j - 1], j - 1, hz, part, n)
    BY <1>5, <2>1
  <2>3. m[j] = NextMultiple(m[j - 1], hz, part, n)
    BY <1>2, <1>6, <1>8 DEF MultiplesOf
  <2>4. IsMultiple(NextMultiple(m[j - 1], hz, part, n), (j - 1) + 1, hz, part, n)
    BY <2>1, <2>2, OneMore
  <2> QED
    BY <1>6, <2>1, <2>3, <2>4
<1> QED
  BY <1>7, <1>8

(* A multiple of U smaller than U is zero.                                 *)
LEMMA Gap ==
  ASSUME NEW U \in Nat, NEW u \in Int, NEW v \in Int, u * U = v, -U < v, v < U
  PROVE  u = 0
<1>1. CASE u >= 1
  <2>1. u * U >= U
    BY <1>1, SMT
  <2> QED
    BY <2>1, SMT
<1>2. CASE u <= -1
  <2>1. (-u) * U >= U
    <3>1. -u \in Nat /\ -u >= 1
      BY <1>2, SMT
    <3> QED
      BY <3>1, SMT
  <2>2. (-u) * U = -v
    BY SMT
  <2> QED
    BY <2>1, <2>2, SMT
<1> QED
  BY <1>1, <1>2, SMT

(* The remainder s is at most z from a multiple of U.                      *)
Within(z, s, U) == s <= z \/ s >= U - z

(* a units of U and r are b units and s, and c more.                       *)
Apart(a, r, b, s, c, U) == a * U + r = b * U + s + c

(* Two numbers c apart have remainders as near to a multiple of U.         *)
LEMMA StaysNear ==
  ASSUME NEW U \in Nat, U >= 1000, NEW a \in Int, NEW b \in Int,
         NEW r \in Nat, NEW s \in Nat, r < U, s < U, NEW c \in Int,
         Apart(a, r, b, s, c, U),
         NEW v \in 0 .. 100, -v <= c, c <= v,
         NEW w \in 0 .. 100, Within(w, r, U), NEW z \in Nat, z = w + v
  PROVE  Within(z, s, U)
<1> USE DEF Within
<1> DEFINE u == a - b
<1>1. u \in Int /\ u * U = s + c - r
  <2>1. (a - b) * U = a * U - b * U
    BY SMT
  <2>2. a * U \in Int /\ b * U \in Int
    BY SMT
  <2> DEFINE aU == a * U
             bU == b * U
             uU == (a - b) * U
  <2>3. uU = aU - bU /\ aU + r = bU + s + c /\ aU \in Int /\ bU \in Int
    BY <2>1, <2>2 DEF Apart
  <2> HIDE DEF aU, bU, uU
  <2>4. uU = s + c - r
    BY <2>3, SMT
  <2> QED
    BY <2>4, SMT DEF uU
<1> HIDE DEF u
<1>2. CASE u = 0
  BY <1>1, <1>2, SMT
<1>3. CASE u # 0
  <2>1. CASE u >= 1
    <3>1. u * U >= U
      BY <1>1, <2>1, SMT
    <3> QED
      BY <1>1, <3>1, SMT
  <2>2. CASE u <= -1
    <3>1. -u \in Nat /\ -u >= 1 /\ (-u) * U = -(u * U)
      BY <1>1, <2>2, SMT
    <3>2. (-u) * U >= U
      BY <3>1, SMT
    <3> QED
      BY <1>1, <3>1, <3>2, SMT
  <2> QED
    BY <1>1, <1>3, <2>1, <2>2, SMT
<1> QED
  BY <1>2, <1>3

(* What RateAssumption says of a rate.                                     *)
LEMMA RateTyped ==
  ASSUME NEW freq \in Rate
  PROVE  /\ ulps(freq) \in Nat \ {0} /\ ulps(freq) >= 2000
         /\ freq.hz \in Nat /\ freq.part \in Nat
<1> DEFINE U == ulps(freq)
           Typed == U \in Nat /\ U >= 67108864 /\ freq.hz \in Nat /\ freq.part \in 0 .. U - 1
<1>1. Typed
  BY RateAssumption, SMT
<1> HIDE DEF U
<1>2. U \in Nat \ {0} /\ U >= 2000 /\ freq.hz \in Nat /\ freq.part \in Nat
  BY <1>1, SMT
<1> HIDE DEF Typed
<1> QED
  BY <1>2 DEF U

(* 1.0 + freq is off by an ulp at most, and only where it loses a bit.     *)
LEMMA FracNear ==
  ASSUME NEW freq \in Rate
  PROVE  /\ freq_frac(freq) \in Nat
         /\ freq_frac(freq) - freq.part \in {-1, 0, 1}
         /\ ~Crosses(freq) => freq_frac(freq) = freq.part
<1>1. freq.part \in Nat
  BY RateTyped
<1> QED
  BY <1>1, SMT DEF freq_frac

(* The multiples of freq and of the fraction that is searched: whole       *)
(* numbers of Hz and a few ulps apart.                                     *)
LEMMA Related ==
  ASSUME NEW freq \in Rate, NEW k \in 1 .. MAX_N - 1
  PROVE  LET U == ulps(freq)
             m == Multiples(freq.hz, freq.part, U)[k]
             a == Multiples(0, freq_frac(freq), U)[k]
         IN  /\ m[1] \in Nat /\ m[2] \in Nat /\ m[2] < U
             /\ a[1] \in Nat /\ a[2] \in Nat /\ a[2] < U
             /\ \E c \in Int, h \in Nat :
                  /\ (a[1] + h) * U + a[2] = m[1] * U + m[2] + c
                  /\ -k <= c /\ c <= k
                  /\ ~Crosses(freq) => c = 0
<1> DEFINE U == ulps(freq)
           H == freq.hz
           P == freq.part
           F == freq_frac(freq)
           m == Multiples(H, P, U)[k]
           a == Multiples(0, F, U)[k]
<1>1. U \in Nat \ {0} /\ H \in Nat /\ P \in Nat /\ F \in Nat
      /\ F - P \in {-1, 0, 1} /\ (~Crosses(freq) => F = P)
  BY RateTyped, FracNear
<1>2. k \in 0 .. MAX_N - 1 /\ k \in Nat
  BY SMT DEF MAX_N
<1> HIDE DEF U, H, P, F
<1>3. IsMultiple(m, k, H, P, U) /\ IsMultiple(a, k, 0, F, U)
  BY <1>1, <1>2, MultiplesAre
<1> HIDE DEF m, a
<1> DEFINE m1 == m[1]
           m2 == m[2]
           a1 == a[1]
           a2 == a[2]
<1>4. /\ m1 \in Nat /\ m2 \in Nat /\ m2 < U /\ m1 * U + m2 = k * (H * U + P)
      /\ a1 \in Nat /\ a2 \in Nat /\ a2 < U /\ a1 * U + a2 = k * (0 * U + F)
  BY <1>3 DEF IsMultiple
<1> HIDE DEF m1, m2, a1, a2
<1> DEFINE c == k * (F - P)
           h == k * H
<1>5. c \in Int /\ h \in Nat /\ -k <= c /\ c <= k /\ (~Crosses(freq) => c = 0)
  BY <1>1, <1>2, SMT
<1>6. k * (H * U + P) = h * U + k * P
  BY <1>1, <1>2, SMT
<1>7. k * (0 * U + F) = k * P + c
  BY <1>1, <1>2, SMT
<1>8. (a1 + h) * U = a1 * U + h * U
  BY <1>1, <1>4, <1>5, SMT
<1>9. (a1 + h) * U + a2 = m1 * U + m2 + c
  <2> DEFINE aU == a1 * U
             hU == h * U
             mU == m1 * U
             kP == k * P
             L == (a1 + h) * U
  <2>1. aU \in Nat /\ hU \in Nat /\ mU \in Nat /\ kP \in Nat
    BY <1>1, <1>2, <1>4, <1>5, SMT
  <2>2. mU + m2 = hU + kP /\ aU + a2 = kP + c /\ L = aU + hU
    BY <1>4, <1>6, <1>7, <1>8
  <2> HIDE DEF aU, hU, mU, kP, L, c, h
  <2>3. L + a2 = mU + m2 + c
    BY <1>4, <1>5, <2>1, <2>2, SMT
  <2> QED
    BY <2>3 DEF L, mU
<1> HIDE DEF c, h
<1>10. \E cc \in Int, hh \in Nat :
         /\ (a1 + hh) * U + a2 = m1 * U + m2 + cc
         /\ -k <= cc /\ cc <= k
         /\ ~Crosses(freq) => cc = 0
  BY <1>5, <1>9
<1> QED
  BY <1>4, <1>10 DEF U, H, P, F, m, a, m1, m2, a1, a2

(* If freq stands for p/q, the search would stop at q.                     *)
LEMMA NearestIsHit ==
  ASSUME NEW freq \in Rate, NEW q \in 1 .. MAX_N - 1, NEW p, Nearest(freq, p, q),
         Crosses(freq) => q <= 10
  PROVE  NearWhole(Multiples(0, freq_frac(freq), ulps(freq))[q][2], ulps(freq))
<1> DEFINE U == ulps(freq)
           m1 == Multiples(freq.hz, freq.part, U)[q][1]
           m2 == Multiples(freq.hz, freq.part, U)[q][2]
           a1 == Multiples(0, freq_frac(freq), U)[q][1]
           a2 == Multiples(0, freq_frac(freq), U)[q][2]
<1>1. U \in Nat /\ U >= 1000
  BY RateTyped, SMT
<1>2. PICK c \in Int, h \in Nat :
        /\ (a1 + h) * U + a2 = m1 * U + m2 + c
        /\ -q <= c /\ c <= q
        /\ ~Crosses(freq) => c = 0
  BY Related
<1>3. m1 \in Nat /\ m2 \in Nat /\ m2 < U /\ a1 \in Nat /\ a2 \in Nat /\ a2 < U
  BY Related
<1>4. m2 <= q \div 2 \/ U - m2 <= q \div 2
  BY DEF Nearest
<1> HIDE DEF U, m1, m2, a1, a2
<1>5. q \in 1 .. 31
  BY DEF MAX_N
<1> DEFINE w == IF Crosses(freq) THEN 5 ELSE 15
           v == IF Crosses(freq) THEN 10 ELSE 0
           z == 15
<1>6. m2 <= w \/ m2 >= U - w
  <2>1. q \div 2 <= w
    BY <1>5, SMT
  <2> HIDE DEF w
  <2>2. w \in Nat /\ q \div 2 \in Nat
    BY <1>5, SMT DEF w
  <2> QED
    BY <1>1, <1>3, <1>4, <2>1, <2>2, SMT
<1>7. -v <= -c /\ -c <= v
  BY <1>2, <1>5, SMT
<1>8. m1 * U + m2 = (a1 + h) * U + a2 + (-c)
  <2> DEFINE L == m1 * U
             R == (a1 + h) * U
  <2>1. L \in Int /\ R \in Int /\ R + a2 = L + m2 + c
    BY <1>1, <1>2, <1>3, SMT
  <2> HIDE DEF L, R
  <2>2. L + m2 = R + a2 + (-c)
    BY <1>2, <1>3, <2>1, SMT
  <2> QED
    BY <2>2 DEF L, R
<1>9. /\ m1 \in Int /\ a1 + h \in Int /\ -c \in Int /\ w \in 0 .. 100 /\ v \in 0 .. 100
      /\ z \in Nat /\ z = w + v
  BY <1>2, <1>3, SMT
<1>10. Within(z, a2, U)
  <2> HIDE DEF w, v, z
  <2>1. Within(w, m2, U) /\ Apart(m1, m2, a1 + h, a2, -c, U)
    BY <1>6, <1>8 DEF Within, Apart
  <2> QED
    BY <1>1, <1>3, <1>7, <1>9, <2>1, StaysNear
<1>11. a2 < 16 \/ a2 >= U - 16
  BY <1>1, <1>3, <1>10, SMT DEF Within
<1> QED
  BY <1>11 DEF NearWhole, U, a2

(* Where the search stops.                                                 *)
LEMMA DividerFound ==
  ASSUME NEW freq
  PROVE  LET a == Multiples(0, freq_frac(freq), ulps(freq))
             i == RateDivider(freq)
         IN  /\ i \in 1 .. MAX_N - 1
             /\ (\E k \in 1 .. MAX_N - 1 : NearWhole(a[k][2], ulps(freq)))
                  => NearWhole(a[i][2], ulps(freq))
<1> DEFINE a == Multiples(0, freq_frac(freq), ulps(freq))
           whole == {i \in 1 .. MAX_N - 1 : NearWhole(a[i][2], ulps(freq))}
<1>1. CASE whole = {}
  <2>1. RateDivider(freq) = 1
    BY <1>1, Zenon DEF RateDivider
  <2> QED
    BY <1>1, <2>1, SMT DEF MAX_N
<1>2. CASE whole # {}
  <2>1. whole \in SUBSET Nat
    BY SMT DEF MAX_N
  <2>2. \E i \in whole : \A k \in whole : i <= k
    BY <1>2, <2>1, Least
  <2>3. RateDivider(freq) \in whole
    <3>1. RateDivider(freq) = CHOOSE i \in whole : \A k \in whole : i <= k
      BY <1>2, Zenon DEF RateDivider
    <3> HIDE DEF whole
    <3> QED
      BY <2>2, <3>1
  <2> QED
    BY <2>3
<1> QED
  BY <1>1, <1>2

(* The rate in Hz that is sent is the multiple of freq, rounded.           *)
LEMMA HzTyped ==
  ASSUME NEW freq \in Rate, NEW i \in 1 .. MAX_N - 1
  PROVE  RateHz(freq, i) \in Nat
<1> DEFINE m1 == Multiples(freq.hz, freq.part, ulps(freq))[i][1]
<1>1. m1 \in Nat
  BY Related
<1>2. RateHz(freq, i) = m1 \/ RateHz(freq, i) = m1 + 1
  <2>1. RateHz(freq, i) = m1 + 0 \/ RateHz(freq, i) = m1 + 1
    BY DEF RateHz
  <2> QED
    BY <1>1, <2>1
<1> QED
  BY <1>1, <1>2

(* Where the search stops at a hit, that multiple of freq is a whole       *)
(* number of Hz but for a few ulps.                                        *)
LEMMA HitIsWhole ==
  ASSUME NEW freq \in Rate, NEW i \in 1 .. MAX_N - 1,
         NearWhole(Multiples(0, freq_frac(freq), ulps(freq))[i][2], ulps(freq))
  PROVE  \E t \in -47 .. 47 :
           i * (freq.hz * ulps(freq) + freq.part) = RateHz(freq, i) * ulps(freq) + t
<1> DEFINE U == ulps(freq)
           X == freq.hz * U + freq.part
           m == Multiples(freq.hz, freq.part, U)[i]
           m1 == m[1]
           m2 == m[2]
           a1 == Multiples(0, freq_frac(freq), U)[i][1]
           a2 == Multiples(0, freq_frac(freq), U)[i][2]
           f == RateHz(freq, i)
<1>1. U \in Nat /\ U >= 1000 /\ U \in Nat \ {0}
  BY RateTyped, SMT
<1>2. PICK c \in Int, h \in Nat :
        (a1 + h) * U + a2 = m1 * U + m2 + c /\ -i <= c /\ c <= i
  BY Related
<1>3. m1 \in Nat /\ m2 \in Nat /\ m2 < U /\ a1 \in Nat /\ a2 \in Nat /\ a2 < U
  BY Related
<1>4. a2 < 16 \/ a2 >= U - 16
  BY DEF NearWhole
<1>5. m1 * U + m2 = i * X
  <2>1. i \in 0 .. MAX_N - 1
    BY SMT DEF MAX_N
  <2> QED
    BY <1>1, <2>1, RateTyped, MultiplesAre DEF IsMultiple
<1>6. f = m1 + (IF 2 * m2 >= U THEN 1 ELSE 0)
  BY DEF RateHz
<1> HIDE DEF U, X, m, m1, m2, a1, a2, f
<1>7. i \in 1 .. 31
  BY DEF MAX_N
<1>8. m2 <= 47 \/ m2 >= U - 47
  <2> DEFINE w == 16
             v == 31
             z == 47
  <2>1. a1 + h \in Int /\ m1 \in Int /\ -v <= c /\ c <= v
    BY <1>2, <1>3, <1>7, SMT
  <2>2. Within(w, a2, U) /\ Apart(a1 + h, a2, m1, m2, c, U)
    BY <1>1, <1>2, <1>3, <1>4, SMT DEF Within, Apart
  <2>3. v \in 0 .. 100 /\ w \in 0 .. 100 /\ z \in Nat /\ z = w + v
    BY SMT
  <2>4. Within(z, m2, U)
    <3> HIDE DEF w, v, z
    <3> QED
      BY <1>1, <1>3, <2>1, <2>2, <2>3, StaysNear
  <2> QED
    BY <2>4 DEF Within
<1>9. CASE m2 <= 47
  <2>1. f = m1 /\ m2 \in -47 .. 47
    BY <1>1, <1>3, <1>6, <1>9, SMT
  <2> QED
    BY <1>5, <2>1 DEF U, X, f
<1>10. CASE m2 >= U - 47
  <2>1. f = m1 + 1 /\ m2 - U \in -47 .. 47
    BY <1>1, <1>3, <1>6, <1>10, SMT
  <2>2. (m1 + 1) * U = m1 * U + U
    BY <1>1, <1>3, SMT
  <2>3. f * U + (m2 - U) = i * X
    <3> DEFINE L == (m1 + 1) * U
               R == m1 * U
    <3>1. R \in Int /\ L = R + U /\ f * U = L /\ R + m2 = i * X
      BY <1>1, <1>3, <1>5, <2>1, <2>2, SMT
    <3> DEFINE fU == f * U
               iX == i * X
    <3>2. fU = L /\ R + m2 = iX
      BY <3>1
    <3> HIDE DEF L, R, fU, iX
    <3>3. fU + (m2 - U) = iX
      BY <1>1, <1>3, <3>1, <3>2, SMT
    <3> QED
      BY <3>3 DEF fU, iX
  <2> QED
    BY <2>1, <2>3 DEF U, X, f
<1> QED
  BY <1>8, <1>9, <1>10

(* The fraction that freq stands for, in ulps.                             *)
LEMMA NearestIsWhole ==
  ASSUME NEW freq \in Rate, NEW q \in 1 .. MAX_N - 1, NEW p, Nearest(freq, p, q)
  PROVE  /\ p \in Nat
         /\ \E d \in -15 .. 15 :
              q * (freq.hz * ulps(freq) + freq.part) = p * ulps(freq) + d
<1> DEFINE U == ulps(freq)
           X == freq.hz * U + freq.part
           m == Multiples(freq.hz, freq.part, U)[q]
           m1 == m[1]
           m2 == m[2]
<1>1. U \in Nat /\ U >= 1000 /\ U \in Nat \ {0}
  BY RateTyped, SMT
<1>2. m1 \in Nat /\ m2 \in Nat /\ m2 < U
  BY Related
<1>3. m1 * U + m2 = q * X
  <2>1. q \in 0 .. MAX_N - 1
    BY SMT DEF MAX_N
  <2>2. IsMultiple(m, q, freq.hz, freq.part, U)
    BY <1>1, <2>1, RateTyped, MultiplesAre
  <2> QED
    BY <2>2 DEF IsMultiple
<1>4. (p = m1 /\ m2 <= q \div 2) \/ (p = m1 + 1 /\ U - m2 <= q \div 2)
  BY DEF Nearest
<1> HIDE DEF U, X, m, m1, m2
<1>5. q \div 2 \in Nat /\ q \div 2 <= 15
  BY SMT DEF MAX_N
<1>6. CASE p = m1 /\ m2 <= q \div 2
  <2>1. m2 \in -15 .. 15
    BY <1>2, <1>5, <1>6, SMT
  <2> QED
    BY <1>2, <1>3, <1>6, <2>1 DEF U, X
<1>7. CASE p = m1 + 1 /\ U - m2 <= q \div 2
  <2>1. m2 - U \in -15 .. 15 /\ p \in Nat
    BY <1>1, <1>2, <1>5, <1>7, SMT
  <2>2. p * U + (m2 - U) = q * X
    <3> DEFINE pU == p * U
               R == m1 * U
               qX == q * X
    <3>1. R \in Int /\ pU = R + U /\ R + m2 = qX
      BY <1>1, <1>2, <1>3, <1>7, SMT
    <3> HIDE DEF R, pU, qX
    <3>2. pU + (m2 - U) = qX
      BY <1>1, <1>2, <3>1, SMT
    <3> QED
      BY <3>2 DEF pU, qX
  <2> QED
    BY <2>1, <2>2 DEF U, X
<1> QED
  BY <1>4, <1>6, <1>7

(* Fractions with equal cross products are the same fraction.              *)
LEMMA SameIfCrossed ==
  ASSUME NEW f \in Nat, NEW i \in Nat \ {0}, NEW p \in Nat, NEW q \in Nat \ {0}, q * f = i * p
  PROVE  SameFraction(f, i, p, q)
<1> DEFINE a == f \div i
           b == f % i
           c == p - q * a
<1>1. a \in Nat /\ b \in Nat /\ b < i /\ f = a * i + b
  BY Division
<1>2. c \in Int /\ p = a * q + c
  BY <1>1, SMT
<1> HIDE DEF a, b, c
<1>3. q * b = i * c
  <2>1. q * (a * i + b) = i * (a * q) + q * b
    BY <1>1, SMT
  <2>2. i * (a * q + c) = i * (a * q) + i * c
    BY <1>1, <1>2, SMT
  <2> DEFINE k == i * (a * q)
             qb == q * b
             ic == i * c
  <2>3. k + qb = k + ic /\ k \in Int /\ qb \in Int /\ ic \in Int
    BY <1>1, <1>2, <2>1, <2>2, SMT
  <2> HIDE DEF k, qb, ic
  <2>4. qb = ic
    BY <2>3, SMT
  <2> QED
    BY <2>4 DEF qb, ic
<1>4. c >= 0
  <2>1. q * b >= 0
    BY <1>1, SMT
  <2>2. c < 0 => i * c < 0
    BY <1>2, SMT
  <2> QED
    BY <1>2, <1>3, <2>1, <2>2, SMT
<1>5. c < q
  <2>1. q * b < q * i
    BY <1>1, SMT
  <2>2. c >= q => i * c >= i * q
    BY <1>2, <1>4, SMT
  <2>3. i * q = q * i /\ i * q \in Int /\ i * c \in Int
    BY <1>2, SMT
  <2> QED
    BY <1>2, <1>3, <2>1, <2>2, <2>3, SMT
<1>6. p \div q = a /\ p % q = c
  BY <1>1, <1>2, <1>4, <1>5, DivisionUnique
<1>7. b * q = c * i
  BY <1>1, <1>2, <1>3, SMT
<1> QED
  BY <1>6, <1>7 DEF SameFraction, a, b

(* What hackrf_set_sample_rate tells the board is the fraction that the    *)
(* caller's double stands for.                                             *)
LEMMA RateCarried ==
  ASSUME NEW freq \in Rate
  PROVE  LET i == RateDivider(freq)  f == RateHz(freq, i)
         IN  f \in Nat /\ i \in Nat \ {0} /\ Carries(f, i, freq)
<1> DEFINE U == ulps(freq)
           X == freq.hz * U + freq.part
           i == RateDivider(freq)
           f == RateHz(freq, i)
<1>1. i \in 1 .. MAX_N - 1 /\ i \in Nat \ {0} /\ i \in 1 .. 31
  <2>1. i \in 1 .. MAX_N - 1
    BY DividerFound
  <2> HIDE DEF i
  <2> QED
    BY <2>1, SMT DEF MAX_N
<1>2. f \in Nat
  BY <1>1, HzTyped
<1>3. ASSUME NEW q \in 1 .. MAX_N - 1, NEW p, Nearest(freq, p, q), Crosses(freq) => q <= 10
      PROVE  SameFraction(f, i, p, q)
  <2>1. NearWhole(Multiples(0, freq_frac(freq), U)[i][2], U)
    BY <1>3, NearestIsHit, DividerFound
  <2>2. PICK t \in -47 .. 47 : i * X = f * U + t
    BY <1>1, <2>1, HitIsWhole
  <2>3. PICK d \in -15 .. 15 : q * X = p * U + d
    BY <1>3, NearestIsWhole
  <2>4. p \in Nat /\ X \in Nat /\ U \in Nat /\ U >= 2000
    <3>1. p \in Nat
      BY <1>3, NearestIsWhole
    <3>2. U \in Nat /\ U >= 2000 /\ freq.hz \in Nat /\ freq.part \in Nat
      BY RateTyped, SMT
    <3> HIDE DEF U
    <3> QED
      BY <3>1, <3>2, SMT
  <2>5. q \in 1 .. 31 /\ q \in Nat \ {0}
    BY SMT DEF MAX_N
  <2> HIDE DEF U, X, i, f
  <2> DEFINE u == q * f - i * p
             v == i * d - q * t
  <2>6. u \in Int /\ v \in Int /\ -2000 < v /\ v < 2000
    <3>1. u \in Int /\ v \in Int
      BY <1>1, <1>2, <2>4, <2>5, SMT
    <3>2. i * d <= 31 * 15 /\ i * d >= -(31 * 15)
      BY <1>1, SMT
    <3>3. q * t <= 31 * 47 /\ q * t >= -(31 * 47)
      BY <2>5, SMT
    <3>4. i * d \in Int /\ q * t \in Int
      BY <1>1, <2>5, SMT
    <3> QED
      BY <3>1, <3>2, <3>3, <3>4, SMT
  <2>7. u * U = v
    <3>1. q * (i * X) = (q * f) * U + q * t
      BY <1>1, <1>2, <2>2, <2>4, <2>5, SMT
    <3>2. i * (q * X) = (i * p) * U + i * d
      BY <1>1, <2>3, <2>4, <2>5, SMT
    <3>3. q * (i * X) = i * (q * X)
      BY <1>1, <2>4, <2>5, SMT
    <3>4. (q * f - i * p) * U = (q * f) * U - (i * p) * U
      BY <1>1, <1>2, <2>4, <2>5, SMT
    <3> DEFINE A == (q * f) * U
               B == (i * p) * U
               C == (q * f - i * p) * U
               T == q * t
               D == i * d
    <3>5. A + T = B + D /\ C = A - B
      BY <3>1, <3>2, <3>3, <3>4
    <3>6. A \in Int /\ B \in Int /\ T \in Int /\ D \in Int
      BY <1>1, <1>2, <2>4, <2>5, SMT
    <3> HIDE DEF A, B, C, T, D
    <3>7. C = D - T
      BY <3>5, <3>6, SMT
    <3> QED
      BY <3>7 DEF C, D, T
  <2> HIDE DEF u, v
  <2>8. -U < v /\ v < U
    BY <2>4, <2>6, SMT
  <2>9. u = 0
    BY <2>4, <2>6, <2>7, <2>8, Gap
  <2>10. q * f = i * p
    <3>1. q * f - i * p = 0 /\ q * f \in Int /\ i * p \in Int
      BY <1>1, <1>2, <2>4, <2>5, <2>9, SMT DEF u
    <3> QED
      BY <3>1, SMT
  <2> QED
    BY <1>1, <1>2, <2>4, <2>5, <2>10, SameIfCrossed
<1> QED
  BY <1>1, <1>2, <1>3 DEF Carries

-----------------------------------------------------------------------------
(* The inductive invariant.                                                *)

(* The requests that are sent: those of Calls, and those of the calls that *)
(* send several.                                                           *)
FilterRequests == {hackrf_set_baseband_filter_bandwidth(bw) : bw \in Nat}

(* What a rate call records of its caller's wish.                          *)
Asked == {<<>>} \cup {<<freq>> : freq \in Rate}

RateRequests == {RateRequest(a[1], a[2], a[3]) : a \in Nat \X Nat \X Asked}

ChunkRequests ==
  {Request("CPLD_CHUNK", 0, TRUE, 0, 0, <<c>>, CHUNK_SIZE, CHUNK_SIZE, <<>>) : c \in Nat}

ModeRequests == {hackrf_set_transceiver_mode(CPLD_UPDATE)}

Sources == Calls \cup ModeRequests \cup FilterRequests \cup RateRequests \cup ChunkRequests

(* A transfer as it is recorded in sent.                                   *)
Transferred == [request : {r \in Sources : Proper(r)}, n : Int]

(* A transfer that moved all of its data, or one that need not.            *)
Complete(s) == s.n = s.request.len \/ s.request.req \in Lenient

(* The call has returned success to a caller who has not taken it yet.     *)
Succeeded == pc = "returned" /\ ret = "SUCCESS"

(* The call is one for a sample rate and carries the rate asked for.       *)
RateCalled ==
  \E f \in Nat, i \in Nat \ {0}, a \in Asked :
    call = RateRequest(f, i, a) /\ (a # <<>> => Carries(f, i, a[1]))

(* The chunks of the image that have been sent, in order.                  *)
CpldProgress ==
  /\ call.req = "CPLD_WRITE"
  /\ call.arg[1] \in Nat
  /\ chunk \in Nat /\ chunk < call.arg[1] + CHUNK_SIZE
  /\ Len(sent) >= 1 /\ chunk = CHUNK_SIZE * (Len(sent) - 1)
  /\ \A k \in 2 .. Len(sent) : sent[k].request.data = <<CHUNK_SIZE * (k - 2)>>

(* What is sent is proper; a call that has succeeded, or is still at it,   *)
(* has moved all its data; the rate, the filter and the image are as far   *)
(* as the position says.                                                   *)
IInv ==
  /\ sent \in Seq(Transferred)
  /\ Succeeded \/ pc \in {"filter", "chunk"} => \A k \in DOMAIN sent : Complete(sent[k])
  /\ pc = "filter" => RateCalled /\ rate = call.data
  /\ Succeeded /\ call.req = "SAMPLE_RATE_SET" => RateCalled
  /\ FilterFollowsRate
  /\ pc = "chunk" => CpldProgress
  /\ CpldImageSent

(* The outcome of a request: success only if the transfer was complete.    *)
LEMMA SuccessComplete ==
  ASSUME NEW r, NEW n \in Results(r.len), Proper(r), Outcome(r, n), ret' = "SUCCESS"
  PROVE  n = r.len \/ r.req \in Lenient
<1>1. r.len \in Nat /\ (n = r.len \/ n < r.len)
  BY SMT DEF Proper, Strict, Results
<1>2. CASE r.req \in Gain
  BY <1>2 DEF Outcome, Proper, Strict
<1>3. CASE r.req \notin Gain
  <2>1. n >= r.need
    BY <1>3 DEF Outcome, Accepts
  <2> QED
    BY <1>1, <2>1, SMT DEF Proper, Strict, Results
<1> QED
  BY <1>2, <1>3

(* Results are numbers.                                                    *)
LEMMA ResultType ==
  ASSUME NEW r, Proper(r), NEW n \in Results(r.len)
  PROVE  n \in Int
BY DEF Proper, Strict, Results

(* A sequence of one transfer.                                             *)
LEMMA OneTransfer ==
  ASSUME NEW r \in Sources, Proper(r), NEW n \in Results(r.len)
  PROVE  LET s == <<[request |-> r, n |-> n]>>
         IN  /\ s \in Seq(Transferred) /\ Len(s) = 1 /\ DOMAIN s = {1}
             /\ s[1].request = r /\ s[1].n = n
<1>1. [request |-> r, n |-> n] \in Transferred
  BY ResultType DEF Transferred
<1> QED
  BY <1>1

(* One transfer more.                                                      *)
LEMMA MoreTransfers ==
  ASSUME sent \in Seq(Transferred),
         NEW r \in Sources, Proper(r), NEW n \in Int
  PROVE  LET s == Append(sent, [request |-> r, n |-> n])
         IN  /\ s \in Seq(Transferred) /\ Len(s) = Len(sent) + 1
             /\ Len(sent) \in Nat /\ DOMAIN s = 1 .. Len(sent) + 1 /\ DOMAIN sent = 1 .. Len(sent)
             /\ \A k \in 1 .. Len(sent) : s[k] = sent[k]
             /\ s[Len(sent) + 1].request = r /\ s[Len(sent) + 1].n = n
<1> DEFINE t == [request |-> r, n |-> n]
<1>1. t \in Transferred /\ t.request = r /\ t.n = n
  BY DEF Transferred
<1> HIDE DEF t
<1>2. /\ Append(sent, t) \in Seq(Transferred) /\ Len(Append(sent, t)) = Len(sent) + 1
      /\ Len(sent) \in Nat /\ DOMAIN Append(sent, t) = 1 .. Len(sent) + 1
      /\ DOMAIN sent = 1 .. Len(sent)
      /\ \A k \in 1 .. Len(sent) : Append(sent, t)[k] = sent[k]
      /\ Append(sent, t)[Len(sent) + 1] = t
  BY <1>1
<1> QED
  BY <1>1, <1>2 DEF t

(* Before the first call nothing has been sent.                            *)
LEMMA InitInv == Init => IInv
BY DEF Init, IInv, Succeeded, FilterFollowsRate, CpldImageSent

(* A call that sends one request.                                          *)
LEMMA CallInv ==
  ASSUME NEW r \in Calls, Call(r)
  PROVE  IInv'
<1>1. Single(r) /\ call' = r /\ pc' = "returned"
  BY CallsSingle DEF Call
<1>2. CASE Refuse(r)
  <2>1. sent' = <<>> /\ ret' # "SUCCESS"
    BY <1>2 DEF Refuse, ApiTooOld
  <2> QED
    BY <1>1, <2>1 DEF IInv, Succeeded, FilterFollowsRate, CpldImageSent
<1>3. CASE /\ r.valid
           /\ \E n \in Results(r.len) : Outcome(r, n) /\ sent' = <<[request |-> r, n |-> n]>>
  <2>1. PICK n \in Results(r.len) : Outcome(r, n) /\ sent' = <<[request |-> r, n |-> n]>>
    BY <1>3
  <2>2. Proper(r) /\ r \in Sources
    <3>1. Proper(r)
      BY <1>1, <1>3, Zenon DEF Single
    <3> QED
      BY <3>1 DEF Sources
  <2>3. /\ sent' \in Seq(Transferred) /\ DOMAIN sent' = {1}
        /\ sent'[1].request = r /\ sent'[1].n = n
    BY <2>1, <2>2, OneTransfer
  <2>4. ret' = "SUCCESS" => Complete(sent'[1])
    BY <2>1, <2>2, <2>3, SuccessComplete DEF Complete
  <2> QED
    BY <1>1, <2>3, <2>4 DEF IInv, Single, Succeeded, FilterFollowsRate, CpldImageSent
<1> QED
  BY <1>2, <1>3 DEF Call

(* The rate request is proper, and its data are the rate's two numbers.    *)
LEMMA RateProper ==
  ASSUME NEW f \in Nat, NEW i \in Nat, NEW a \in Asked
  PROVE  /\ Proper(RateRequest(f, i, a)) /\ RateRequest(f, i, a) \in Sources
         /\ RateRequest(f, i, a).req = "SAMPLE_RATE_SET"
         /\ RateRequest(f, i, a).len = 8 /\ RateRequest(f, i, a).need = 8
         /\ RateRequest(f, i, a).data = <<f, i>> /\ RateRequest(f, i, a).arg = a
<1>1. Proper(RateRequest(f, i, a))
  BY PlainRequest, Words, SMT DEF RateRequest, Request, Special, Lenient
<1>2. RateRequest(f, i, a) \in Sources
  <2>1. <<f, i, a>> \in Nat \X Nat \X Asked
    OBVIOUS
  <2>2. RateRequest(f, i, a) \in RateRequests
    BY <2>1 DEF RateRequests
  <2> QED
    BY <2>2 DEF Sources
<1> QED
  BY <1>1, <1>2 DEF RateRequest, Request

(* The first request of hackrf_set_sample_rate(_manual).                   *)
LEMMA RateCallInv ==
  ASSUME NEW f \in Nat, NEW i \in Nat \ {0}, NEW a \in Asked,
         a # <<>> => Carries(f, i, a[1]), RateCall(f, i, a)
  PROVE  IInv'
<1> DEFINE r == RateRequest(f, i, a)
<1>1. /\ Proper(r) /\ r \in Sources /\ r.req = "SAMPLE_RATE_SET"
      /\ r.len = 8 /\ r.need = 8 /\ r.data = <<f, i>>
  BY RateProper
<1>2. PICK m \in Results(r.len) :
        /\ Transfer(r, m) /\ Outcome(r, m) /\ sent' = <<[request |-> r, n |-> m]>>
        /\ pc' = IF Accepts(r, m) THEN "filter" ELSE "returned"
  BY DEF RateCall
<1>3. call' = r
  BY DEF RateCall
<1>4. RateCalled'
  BY <1>3 DEF RateCalled
<1> HIDE DEF r
<1>5. /\ sent' \in Seq(Transferred) /\ DOMAIN sent' = {1}
      /\ sent'[1].request = r /\ sent'[1].n = m
  BY <1>1, <1>2, OneTransfer
<1>6. CASE Accepts(r, m)
  <2>1. m = 8
    BY <1>1, <1>6, SMT DEF Results, Accepts
  <2>2. rate' = r.data
    BY <1>1, <1>2, <2>1 DEF Transfer, Apply
  <2> QED
    BY <1>1, <1>2, <1>3, <1>4, <1>5, <1>6, <2>1, <2>2
       DEF IInv, Succeeded, Complete, FilterFollowsRate, CpldImageSent
<1>7. CASE ~Accepts(r, m)
  <2>1. ret' # "SUCCESS" /\ pc' = "returned"
    BY <1>1, <1>2, <1>7 DEF Outcome, Gain
  <2> QED
    BY <1>5, <2>1 DEF IInv, Succeeded, FilterFollowsRate, CpldImageSent
<1> QED
  BY <1>6, <1>7

(* Both ways to ask for a rate.                                            *)
LEMMA RatesInv ==
  ASSUME \/ \E r \in ManualRate : hackrf_set_sample_rate_manual(r[1], r[2])
         \/ \E freq \in Rate : hackrf_set_sample_rate(freq)
  PROVE  IInv'
<1>1. ASSUME NEW r \in ManualRate, hackrf_set_sample_rate_manual(r[1], r[2])
      PROVE  IInv'
  <2>1. r[1] \in Nat /\ r[2] \in Nat \ {0} /\ <<>> \in Asked
    BY BoardControlAssumption DEF Asked
  <2> QED
    BY <1>1, <2>1, RateCallInv DEF hackrf_set_sample_rate_manual
<1>2. ASSUME NEW freq \in Rate, hackrf_set_sample_rate(freq)
      PROVE  IInv'
  <2> DEFINE i == RateDivider(freq)
             f == RateHz(freq, i)
  <2>1. f \in Nat /\ i \in Nat \ {0} /\ Carries(f, i, freq)
    BY RateCarried
  <2>2. RateCall(f, i, <<freq>>)
    BY <1>2 DEF hackrf_set_sample_rate
  <2>3. <<freq>> \in Asked /\ <<freq>>[1] = freq
    BY DEF Asked
  <2> HIDE DEF f, i
  <2> QED
    BY <2>1, <2>2, <2>3, RateCallInv
<1> QED
  BY <1>1, <1>2

(* Three quarters of a supported rate lie between the ends of the table.   *)
LEMMA SupportedQuarters ==
  ASSUME NEW f \in Nat, NEW i \in Nat \ {0}
  PROVE  /\ ThreeQuarters(f, i) \in Nat
         /\ SupportedRate(<<f, i>>) => InTable(ThreeQuarters(f, i))
<1> DEFINE a == 3 * f
           b == 4 * i
           q == a \div b
<1>1. a \in Nat /\ b \in Nat \ {0}
  BY SMT
<1>2. q \in Nat /\ a % b \in Nat /\ a % b < b /\ a = q * b + (a % b)
  BY <1>1, Division
<1>3. ASSUME SupportedRate(<<f, i>>) PROVE InTable(q)
  <2>1. f >= 8000000 * i /\ f <= 20000000 * i
    BY <1>3, SMT DEF SupportedRate
  <2> HIDE DEF q
  <2>2. 6000000 * b <= a /\ a <= 15000000 * b
    BY <2>1, SMT
  <2>3. a < (q + 1) * b /\ q * b <= a
    BY <1>1, <1>2, SMT
  <2> HIDE DEF a, b
  <2>4. 6000000 * b < (q + 1) * b /\ q * b <= 15000000 * b
    BY <1>1, <1>2, <2>2, <2>3, SMT
  <2>5. 6000000 < q + 1 /\ q <= 15000000
    BY <1>1, <1>2, <2>4, SMT
  <2> QED
    BY <1>2, <2>5, SMT DEF InTable
<1> QED
  BY <1>2, <1>3 DEF ThreeQuarters

(* The filter request of hackrf_set_sample_rate_manual: the board decodes  *)
(* the bandwidth that was computed.                                        *)
LEMMA FilterInv ==
  ASSUME IInv, FilterStep
  PROVE  IInv'
<1>1. PICK f \in Nat, i \in Nat \ {0}, a \in Asked : call = RateRequest(f, i, a)
  BY DEF IInv, RateCalled, FilterStep
<1>2. /\ call.data = <<f, i>> /\ call.data[1] = f /\ call.data[2] = i
      /\ rate = <<f, i>> /\ call.req = "SAMPLE_RATE_SET"
  BY <1>1 DEF IInv, FilterStep, RateRequest, Request
<1> DEFINE t == ThreeQuarters(f, i)
           bw == hackrf_compute_baseband_filter_bw(t)
           r == hackrf_set_baseband_filter_bandwidth(bw)
<1>3. t \in Nat
  BY SupportedQuarters
<1>4. bw \in Nat /\ bw \div WORD < WORD
  BY <1>3, ComputedBandwidth, Table
<1>5. PICK m \in Results(r.len) :
        /\ Transfer(r, m) /\ Outcome(r, m)
        /\ sent' = Append(sent, [request |-> r, n |-> m])
  BY <1>2 DEF FilterStep
<1>6. pc' = "returned" /\ call' = call
  BY DEF FilterStep
<1> HIDE DEF bw
<1>7. Proper(r) /\ r \in Sources
  <2>1. r \in FilterRequests
    BY <1>4 DEF FilterRequests
  <2> QED
    BY <1>4, <2>1, SplitProper DEF Sources
<1>8. r.req = "FILTER_SET" /\ r.value + WORD * r.index = bw
  <2>1. r.req = "FILTER_SET" /\ r.value = low16(bw) /\ r.index = high16(bw)
    BY DEF hackrf_set_baseband_filter_bandwidth, Command, Request
  <2> QED
    BY <1>4, <2>1, Halves
<1> HIDE DEF r
<1>9. /\ sent \in Seq(Transferred) /\ m \in Int
      /\ \A k \in DOMAIN sent : Complete(sent[k])
  BY <1>5, <1>7, ResultType DEF IInv, FilterStep
<1>10. /\ sent' \in Seq(Transferred) /\ Len(sent) \in Nat
       /\ DOMAIN sent' = 1 .. Len(sent) + 1 /\ DOMAIN sent = 1 .. Len(sent)
       /\ \A k \in 1 .. Len(sent) : sent'[k] = sent[k]
       /\ sent'[Len(sent) + 1].request = r /\ sent'[Len(sent) + 1].n = m
  BY <1>5, <1>7, <1>9, MoreTransfers
<1>11. rate' = rate
  BY <1>5, <1>8 DEF Transfer, Apply
<1>12. RateCalled'
  <2>1. RateCalled
    BY DEF IInv, FilterStep
  <2> QED
    BY <1>6, <2>1 DEF RateCalled
<1>13. CASE ret' = "SUCCESS"
  <2>1. m = r.len
    BY <1>5, <1>7, <1>8, <1>13, SuccessComplete DEF Lenient
  <2>2. \A k \in DOMAIN sent' : Complete(sent'[k])
    <3> SUFFICES ASSUME NEW k \in 1 .. Len(sent) + 1 PROVE Complete(sent'[k])
      BY <1>10
    <3>1. CASE k \in 1 .. Len(sent)
      BY <3>1, <1>9, <1>10
    <3>2. CASE k = Len(sent) + 1
      BY <3>2, <1>10, <2>1 DEF Complete
    <3> QED
      BY <3>1, <3>2, <1>10
  <2>3. filter' = bw
    BY <1>5, <1>8, <2>1 DEF Transfer, Apply
  <2>4. SupportedRate(rate') => bw = Widest(t)
    BY <1>2, <1>3, <1>11, SupportedQuarters, ComputesWidest DEF bw
  <2>5. rate'[1] = f /\ rate'[2] = i /\ rate' = call'.data
    BY <1>2, <1>6, <1>11
  <2>6. FilterFollowsRate'
    BY <2>3, <2>4, <2>5 DEF FilterFollowsRate
  <2> QED
    BY <1>2, <1>6, <1>10, <1>12, <2>2, <2>6 DEF IInv, CpldImageSent
<1>14. CASE ret' # "SUCCESS"
  BY <1>6, <1>10, <1>14 DEF IInv, Succeeded, FilterFollowsRate, CpldImageSent
<1> QED
  BY <1>13, <1>14

(* The mode request of hackrf_cpld_write.                                  *)
LEMMA CpldCallInv ==
  ASSUME NEW total \in ImageLength, CpldCall(total)
  PROVE  IInv'
<1> DEFINE r == hackrf_set_transceiver_mode(CPLD_UPDATE)
<1>1. /\ r.req = "SET_TRANSCEIVER_MODE" /\ r.len = 0 /\ r.need = 0
      /\ [r EXCEPT !.req = "CPLD_WRITE", !.arg = <<total>>].req = "CPLD_WRITE"
      /\ [r EXCEPT !.req = "CPLD_WRITE", !.arg = <<total>>].arg = <<total>>
  BY DEF hackrf_set_transceiver_mode, Command, Request
<1>2. PICK m \in Results(r.len) :
        /\ Outcome(r, m) /\ sent' = <<[request |-> r, n |-> m]>>
        /\ pc' = IF Accepts(r, m) THEN "chunk" ELSE "returned"
  BY DEF CpldCall
<1>3. call'.req = "CPLD_WRITE" /\ call'.arg = <<total>> /\ chunk' = 0 /\ total \in Nat
  BY <1>1, BoardControlAssumption DEF CpldCall
<1>4. Proper(r) /\ r \in Sources
  <2>1. CPLD_UPDATE \in 0 .. 4 /\ 0 \in {0, 1} /\ 0 \in Nat
    BY DEF CPLD_UPDATE
  <2>2. Proper(r)
    BY <2>1, PlainProper
  <2> QED
    BY <2>2 DEF Sources, ModeRequests
<1> HIDE DEF r
<1>5. /\ sent' \in Seq(Transferred) /\ Len(sent') = 1 /\ DOMAIN sent' = {1}
      /\ sent'[1].request = r /\ sent'[1].n = m
  BY <1>2, <1>4, OneTransfer
<1>6. CASE Accepts(r, m)
  <2>1. m = 0
    BY <1>1, <1>6, SMT DEF Results, Accepts
  <2>2. CpldProgress'
    BY <1>3, <1>5, SMT DEF CpldProgress, CHUNK_SIZE
  <2> QED
    BY <1>1, <1>2, <1>5, <1>6, <2>1, <2>2
       DEF IInv, Succeeded, Complete, FilterFollowsRate, CpldImageSent
<1>7. CASE ~Accepts(r, m)
  <2>1. ret' # "SUCCESS" /\ pc' = "returned"
    BY <1>1, <1>2, <1>7 DEF Outcome, Gain
  <2> QED
    BY <1>5, <2>1 DEF IInv, Succeeded, FilterFollowsRate, CpldImageSent
<1> QED
  BY <1>6, <1>7

(* A chunk, or its failure.                                                *)
LEMMA ChunkInv ==
  ASSUME IInv, CpldChunk
  PROVE  IInv'
<1>1. CpldProgress /\ pc = "chunk" /\ call' = call /\ chunk < call.arg[1]
  BY DEF IInv, CpldChunk, ChunkLeft
<1>2. sent \in Seq(Transferred) /\ \A k \in DOMAIN sent : Complete(sent[k])
  BY <1>1 DEF IInv
<1>3. CASE /\ chunk' = chunk + CHUNK_SIZE /\ pc' = "chunk"
           /\ sent' = Append(sent, [request |-> ChunkRequest, n |-> CHUNK_SIZE])
  <2> DEFINE r == ChunkRequest
  <2>1. chunk \in Nat /\ CHUNK_SIZE \in Nat /\ CHUNK_SIZE \in Int
    BY <1>1 DEF CpldProgress, CHUNK_SIZE
  <2>2. r.len = CHUNK_SIZE /\ r.data = <<chunk>> /\ r.req = "CPLD_CHUNK"
    BY DEF ChunkRequest, Request
  <2>3. r \in Sources
    BY <2>1 DEF ChunkRequest, Sources, ChunkRequests
  <2>4. Proper(r)
    BY <2>1, PlainRequest, Words, SMT DEF ChunkRequest, Request, Special, Lenient
  <2> HIDE DEF r
  <2>5. /\ sent' \in Seq(Transferred) /\ Len(sent') = Len(sent) + 1 /\ Len(sent) \in Nat
        /\ DOMAIN sent' = 1 .. Len(sent) + 1 /\ DOMAIN sent = 1 .. Len(sent)
        /\ \A k \in 1 .. Len(sent) : sent'[k] = sent[k]
        /\ sent'[Len(sent) + 1].request = r /\ sent'[Len(sent) + 1].n = CHUNK_SIZE
    BY <1>2, <1>3, <2>1, <2>3, <2>4, MoreTransfers DEF r
  <2>6. \A k \in DOMAIN sent' : Complete(sent'[k])
    <3> SUFFICES ASSUME NEW k \in 1 .. Len(sent) + 1 PROVE Complete(sent'[k])
      BY <2>5
    <3>1. CASE k \in 1 .. Len(sent)
      BY <3>1, <1>2, <2>5
    <3>2. CASE k = Len(sent) + 1
      BY <3>2, <2>2, <2>5 DEF Complete
    <3> QED
      BY <3>1, <3>2, <2>5
  <2>7. ASSUME NEW k \in 2 .. Len(sent) + 1
        PROVE  sent'[k].request.data = <<CHUNK_SIZE * (k - 2)>>
    <3>1. CASE k \in 2 .. Len(sent)
      BY <3>1, <1>1, <2>5, SMT DEF CpldProgress
    <3>2. CASE k = Len(sent) + 1
      <4>1. chunk = CHUNK_SIZE * (k - 2)
        BY <3>2, <1>1, <2>5, SMT DEF CpldProgress
      <4> QED
        BY <3>2, <4>1, <2>2, <2>5
    <3> QED
      BY <3>1, <3>2, <2>5, SMT
  <2>8. CpldProgress'
    <3>1. call.arg[1] \in Nat /\ chunk = CHUNK_SIZE * (Len(sent) - 1) /\ Len(sent) >= 1
      BY <1>1 DEF CpldProgress
    <3>2. /\ chunk' \in Nat /\ chunk' < call.arg[1] + CHUNK_SIZE /\ Len(sent') >= 1
      BY <1>1, <1>3, <2>1, <2>5, <3>1, SMT
    <3>3. chunk' = CHUNK_SIZE * (Len(sent') - 1)
      BY <1>3, <2>1, <2>5, <3>1, SMT DEF CHUNK_SIZE
    <3> QED
      BY <1>1, <2>5, <2>7, <3>2, <3>3 DEF CpldProgress
  <2> QED
    BY <1>3, <2>5, <2>6, <2>8 DEF IInv, Succeeded, FilterFollowsRate, CpldImageSent
<1>4. CASE pc' = "returned" /\ ret' = "LIBUSB" /\ sent' = sent
  BY <1>2, <1>4 DEF IInv, Succeeded, FilterFollowsRate, CpldImageSent
<1> QED
  BY <1>1, <1>3, <1>4 DEF CpldChunk

(* The image has been sent; the caller takes a result.                     *)
LEMMA DoneInv ==
  ASSUME IInv, CpldDone \/ Resume
  PROVE  IInv'
<1>1. CASE CpldDone
  <2>1. /\ CpldProgress /\ call' = call /\ sent' = sent /\ pc' = "returned"
        /\ ~(chunk < call.arg[1]) /\ \A k \in DOMAIN sent : Complete(sent[k])
        /\ sent \in Seq(Transferred)
    BY <1>1 DEF IInv, CpldDone, ChunkLeft
  <2>2. CHUNK_SIZE * (Len(sent) - 1) \in call.arg[1] .. call.arg[1] + CHUNK_SIZE - 1
    <3>1. CHUNK_SIZE \in Nat
      BY DEF CHUNK_SIZE
    <3>2. chunk \in call.arg[1] .. call.arg[1] + CHUNK_SIZE - 1
      BY <2>1, <3>1, SMT DEF CpldProgress
    <3> QED
      BY <2>1, <3>2 DEF CpldProgress
  <2>3. CpldImageSent'
    BY <2>1, <2>2 DEF CpldImageSent, CpldProgress
  <2> QED
    BY <2>1, <2>3 DEF IInv, Succeeded, FilterFollowsRate, CpldProgress
<1>2. CASE Resume
  BY <1>2 DEF Resume, IInv, Succeeded, FilterFollowsRate, CpldImageSent
<1> QED
  BY <1>1, <1>2

(* Every step of a call keeps the invariant.                               *)
LEMMA NextInv == IInv /\ [Next]_vars => IInv'
<1> SUFFICES ASSUME IInv, [Next]_vars PROVE IInv'
  OBVIOUS
<1>1. CASE UNCHANGED vars
  BY <1>1 DEF vars, host_vars, board_vars, IInv, Succeeded, RateCalled, FilterFollowsRate,
              CpldProgress, CpldImageSent
<1>2. CASE Next
  BY <1>2, CallInv, RatesInv, FilterInv, CpldCallInv, ChunkInv, DoneInv DEF Next
<1> QED
  BY <1>1, <1>2

(* What has been sent is proper, complete if the call succeeded, and the   *)
(* calls of several requests are where their transfers say they are.       *)
THEOREM InvHolds == Spec => []IInv
BY InitInv, NextInv, PTL DEF Spec

-----------------------------------------------------------------------------
(* A request that was sent is proper.                                      *)
LEMMA SentProper ==
  ASSUME IInv, NEW s \in Sent
  PROVE  Proper(s.request)
<1>1. PICK k \in DOMAIN sent : s = sent[k]
  BY DEF Sent
<1>2. s \in Transferred
  BY <1>1 DEF IInv
<1> QED
  BY <1>2 DEF Transferred

(***************************************************************************)
(* For every argument of every control function, the parameter tests of    *)
(* hackrf.c let only requests through that are within the ranges of the    *)
(* chips, the gain steps, the flash and data[] of hackrf_init_sweep.       *)
(***************************************************************************)
THEOREM BoardRangesHolds == Spec => []BoardRanges
<1>1. IInv => BoardRanges
  BY SentProper DEF BoardRanges, Requests, Proper
<1> QED
  BY <1>1, InvHolds, PTL

(***************************************************************************)
(* For every bandwidth and block size of 32 bits, every flash address and  *)
(* every frequency below 2^32 MHz, what the board puts together from the   *)
(* fields of a request is what the caller passed.                          *)
(***************************************************************************)
THEOREM BoardDecodesHolds == Spec => []BoardDecodes
<1>1. IInv => BoardDecodes
  BY SentProper DEF BoardDecodes, Requests, Proper
<1> QED
  BY <1>1, InvHolds, PTL

(***************************************************************************)
(* However transfers fail or fall short, HACKRF_SUCCESS is returned only   *)
(* if every transfer of the call moved all of its data, three replies      *)
(* excepted.                                                               *)
(***************************************************************************)
THEOREM SuccessIsCompleteHolds == Spec => []SuccessIsComplete
<1>1. IInv => SuccessIsComplete
  BY DEF IInv, SuccessIsComplete, Succeeded, Sent, Complete
<1> QED
  BY <1>1, InvHolds, PTL

(***************************************************************************)
(* For every sample rate, supported or not, a successful                   *)
(* hackrf_set_sample_rate leaves the board at the rate it was sent and,    *)
(* for 8 to 20 MHz, with the widest filter of at most 75% of it.           *)
(***************************************************************************)
THEOREM FilterFollowsRateHolds == Spec => []FilterFollowsRate
<1>1. IInv => FilterFollowsRate
  BY DEF IInv
<1> QED
  BY <1>1, InvHolds, PTL

(***************************************************************************)
(* For every double from 1 Hz to 2^27 Hz that is nearest to a fraction     *)
(* with a denominator below MAX_N (10 or less in the last Hz below a power *)
(* of two), the search in the mantissa and the rounding of                 *)
(* hackrf_set_sample_rate give the board exactly that fraction.            *)
(***************************************************************************)
THEOREM RateIsAsAskedHolds == Spec => []RateIsAsAsked
<1>1. IInv => RateIsAsAsked
  <2> SUFFICES ASSUME IInv, Succeeded, call.req = "SAMPLE_RATE_SET", call.arg # <<>>
               PROVE  Carries(rate[1], rate[2], call.arg[1])
    BY DEF RateIsAsAsked, Succeeded
  <2>1. PICK f \in Nat, i \in Nat \ {0}, a \in Asked :
          call = RateRequest(f, i, a) /\ (a # <<>> => Carries(f, i, a[1]))
    BY DEF IInv, RateCalled
  <2>2. call.data = <<f, i>> /\ call.arg = a
    BY <2>1 DEF RateRequest, Request
  <2>3. rate = <<f, i>>
    BY <2>2 DEF IInv, FilterFollowsRate, Succeeded
  <2>4. rate[1] = f /\ rate[2] = i
    BY <2>3
  <2> QED
    BY <2>1, <2>2, <2>4
<1> QED
  BY <1>1, InvHolds, PTL

(***************************************************************************)
(* For an image of any length, a successful hackrf_cpld_write has sent all *)
(* of it in order, and less than a chunk beyond its end.                   *)
(***************************************************************************)
THEOREM CpldImageSentHolds == Spec => []CpldImageSent
<1>1. IInv => CpldImageSent
  BY DEF IInv
<1> QED
  BY <1>1, InvHolds, PTL

=============================================================================
