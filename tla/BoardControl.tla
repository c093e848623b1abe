---------------------------- MODULE BoardControl ----------------------------
(***************************************************************************)
(* The control requests of libhackrf (src/src/lib/hackrf/hackrf.c): every  *)
(* function that configures or queries a board through                     *)
(* libusb_control_transfer, and hackrf_cpld_write's bulk transfers.        *)
(*                                                                         *)
(* All these functions share one shape: test the firmware's USB API        *)
(* version, test the parameters, encode them into the two 16-bit fields    *)
(* (wValue, wIndex) and the data stage of a vendor request, send it, and   *)
(* compare the number of bytes transferred with the number they insist on. *)
(* Each C function is an operator that yields such a request; the action   *)
(* Call carries out any of them.  Two functions send several requests and  *)
(* have actions of their own: hackrf_set_sample_rate(_manual) and          *)
(* hackrf_cpld_write.                                                      *)
(***************************************************************************)
EXTENDS Integers, Sequences, FiniteSets

CONSTANTS
  Api,         \* USB API versions (bcdDevice) a board may have
  Number,      \* integers tried for registers, values, gains, ports, counts
  Length,      \* lengths tried for data stages whose length the caller gives
  Address,     \* flash addresses tried
  Bandwidth,   \* filter bandwidths tried, in Hz
  Rate,        \* sample rates tried in hackrf_set_sample_rate: doubles
  ManualRate,  \* <<freq_hz, divider>> tried in hackrf_set_sample_rate_manual
               \* (divider 0 is undefined behaviour, at hackrf.c:1235)
  Frequency,   \* tuning frequencies tried
  SweepBytes,  \* num_bytes tried in hackrf_init_sweep
  ImageLength, \* CPLD image lengths tried
  FREQ_ONE_MHZ, IF_MIN, IF_MAX, LO_MIN, LO_MAX,  \* frequency constants, in the
                                                 \* unit of Frequency
  DWORD,       \* 2^32, the modulus of a uint32_t (the runs scale it down, as
               \* they do the frequencies)
  Env          \* what may go wrong with a transfer

WORD   == 65536   \* 2^16
UINT8  == 0 .. 255
UINT16 == 0 .. WORD - 1

ASSUME BoardControlAssumption ==
  /\ Api \subseteq Nat /\ Number \subseteq Nat /\ Length \subseteq Nat
  /\ Address \subseteq Nat /\ Bandwidth \subseteq Nat
  /\ Frequency \subseteq Nat /\ SweepBytes \subseteq Nat /\ ImageLength \subseteq Nat
  /\ ManualRate \subseteq Nat \X (Nat \ {0})
  /\ \A n \in Bandwidth \cup SweepBytes : n \div WORD < WORD   \* uint32_t
  /\ FREQ_ONE_MHZ \in Nat \ {0} /\ DWORD \in Nat /\ FREQ_ONE_MHZ < DWORD
  /\ Env \subseteq {"error", "short", "refused", "descriptor_error"}

(* A double freq of at least 1 and below 2^27 is [hz, part, e]: its binary *)
(* exponent e, its whole number of Hz, and the rest of its mantissa in     *)
(* units of the last place, 2^(52 - e) to a Hz.  (The shift at             *)
(* hackrf.c:1266 is undefined from 2^27 on, and below 2^-4.)               *)
ulps(freq) == 2^(52 - freq.e)

ASSUME RateAssumption ==
  \A freq \in Rate :
    /\ freq.e \in 0 .. 26 /\ freq.hz \in 2^freq.e .. 2^(freq.e + 1) - 1
    /\ ulps(freq) \in Nat /\ ulps(freq) >= 67108864
    /\ freq.hz \in Nat /\ freq.part \in 0 .. ulps(freq) - 1

VARIABLES
  pc,      \* idle; inside a function that sends several requests; or
           \* returned, with the result not yet taken by the caller
  call,    \* the (first) request of the call
  sent,    \* transfers of that call, in order, each with its result
  ret,     \* what the call returned
  last_libusb_error,
  chunk,   \* hackrf_cpld_write: offset of the next chunk
  (* the board *)
  api,     \* its bcdDevice
  mode,    \* its transceiver mode
  rate,    \* its sample rate: frequency and divider
  filter   \* its baseband filter bandwidth

host_vars  == <<pc, call, sent, ret, last_libusb_error, chunk>>
board_vars == <<api, mode, rate, filter>>
vars       == <<host_vars, board_vars>>

-----------------------------------------------------------------------------
(***************************************************************************)
(* A request: the name, the API version and the parameter test it is       *)
(* behind, wValue, wIndex, the data stage, its length, the bytes that must *)
(* have moved for the call to succeed, and the caller's arguments.         *)
(***************************************************************************)
Request(req, version, valid, value, index, data, len, need, arg) ==
  [req |-> req, version |-> version, valid |-> valid, value |-> value,
   index |-> index, data |-> data, len |-> len, need |-> need, arg |-> arg]

NoCall == Request("NONE", 0, TRUE, 0, 0, <<>>, 0, 0, <<>>)

(* No data stage.                                                          *)
Command(req, version, valid, value, index, arg) ==
  Request(req, version, valid, value, index, <<>>, 0, 0, arg)

(* A fixed-size reply, or a fixed-size data stage, all of it required.     *)
Exchange(req, version, valid, value, index, len) ==
  Request(req, version, valid, value, index, <<>>, len, len, <<>>)

low16(n)  == n % WORD
high16(n) == (n \div WORD) % WORD

hackrf_set_transceiver_mode(m) ==
  Command("SET_TRANSCEIVER_MODE", 0, TRUE, m, 0, <<m>>)

hackrf_max2837_read(r) == Exchange("MAX2837_READ", 0, r < 32, 0, r, 2)

(* Mutant of hackrf_max2837_write: the value is not tested.                *)
max2837_write_any_value(r, v) ==
  Command("MAX2837_WRITE", 0, r < 32, v, r, <<v>>)

hackrf_max2837_write(r, v) ==
  Command("MAX2837_WRITE", 0, r < 32 /\ v < 1024, v, r, <<v>>)

hackrf_si5351c_read(r) == Exchange("SI5351C_READ", 0, r < 256, 0, r, 1)

hackrf_si5351c_write(r, v) ==
  Command("SI5351C_WRITE", 0, r < 256 /\ v < 256, v, r, <<v>>)

hackrf_set_baseband_filter_bandwidth(bw) ==
  Command("FILTER_SET", 0, TRUE, low16(bw), high16(bw), <<bw>>)

hackrf_rffc5071_read(r) == Exchange("RFFC5071_READ", 0, r < 31, 0, r, 2)

hackrf_rffc5071_write(r, v) == Command("RFFC5071_WRITE", 0, r < 31, v, r, <<v>>)

hackrf_spiflash_erase == Command("SPIFLASH_ERASE", 0, TRUE, 0, 0, <<>>)

MAX_FLASH_ADDRESS == 1048575   \* 0x0FFFFF

(* Mutant of FlashRange: the halves of the address are swapped.            *)
FlashRange_swapped(req, a, n) ==
  Request(req, 0, a <= MAX_FLASH_ADDRESS, low16(a), high16(a), <<>>, n, n, <<a>>)

FlashRange(req, a, n) ==
  Request(req, 0, a <= MAX_FLASH_ADDRESS, high16(a), low16(a), <<>>, n, n, <<a>>)

hackrf_spiflash_write(a, n) == FlashRange("SPIFLASH_WRITE", a, n)

hackrf_spiflash_read(a, n) == FlashRange("SPIFLASH_READ", a, n)

(* Two bytes are asked for, one is enough.                                 *)
hackrf_spiflash_status ==
  Request("SPIFLASH_STATUS", 259, TRUE, 0, 0, <<>>, 2, 1, <<>>)

hackrf_spiflash_clear_status == Command("SPIFLASH_CLEAR", 259, TRUE, 0, 0, <<>>)

hackrf_board_id_read == Exchange("BOARD_ID_READ", 0, TRUE, 0, 0, 1)

(* Any number of bytes will do: the string is terminated after them.       *)
hackrf_version_string_read(n) ==
  Request("VERSION_STRING", 0, TRUE, 0, 0, <<>>, n, 0, <<>>)

(* The frequency in whole MHz, and the rest, each cut to 32 bits.          *)
hackrf_set_freq(f) ==
  LET mhz == (f \div FREQ_ONE_MHZ) % DWORD
      hz  == (f - mhz * FREQ_ONE_MHZ) % DWORD
  IN  Request("SET_FREQ", 0, TRUE, 0, 0, <<mhz, hz>>, 8, 8, <<f>>)

hackrf_set_freq_explicit(if_freq, lo_freq, path) ==
  Request("SET_FREQ_EXPLICIT", 0,
          /\ if_freq >= IF_MIN /\ if_freq <= IF_MAX
          /\ path # 0 => lo_freq >= LO_MIN /\ lo_freq <= LO_MAX
          /\ path <= 2,
          0, 0, <<if_freq, lo_freq, path>>, 24, 24, <<>>)

hackrf_set_amp_enable(v) == Command("AMP_ENABLE", 0, TRUE, v, 0, <<v>>)

hackrf_board_partid_serialno_read ==
  Exchange("PARTID_SERIALNO", 0, TRUE, 0, 0, 24)

(* The gains go out in wIndex; the one byte of the reply tells whether the *)
(* board accepted them.                                                    *)
hackrf_set_lna_gain(v) == Exchange("LNA_GAIN", 0, v <= 40, 0, v - (v % 8), 1)

hackrf_set_vga_gain(v) == Exchange("VGA_GAIN", 0, v <= 62, 0, v - (v % 2), 1)

hackrf_set_txvga_gain(v) == Exchange("TXVGA_GAIN", 0, v <= 47, 0, v, 1)

hackrf_set_antenna_enable(v) == Command("ANTENNA_ENABLE", 0, TRUE, v, 0, <<v>>)

hackrf_set_hw_sync_mode(v) == Command("HW_SYNC", 258, TRUE, v, 0, <<v>>)

BYTES_PER_BLOCK  == 16384
MAX_SWEEP_RANGES == 10

(* step_width, offset, style and the frequency pairs go into data[].       *)
hackrf_init_sweep(ranges, bytes, step, style) ==
  LET size == 9 + ranges * 4 IN
  Request("INIT_SWEEP", 258,
          /\ ranges >= 1 /\ ranges <= MAX_SWEEP_RANGES
          /\ bytes % BYTES_PER_BLOCK = 0
          /\ bytes >= BYTES_PER_BLOCK
          /\ step >= 1
          /\ style <= 1,
          low16(bytes), high16(bytes), <<step, style>>, size, size, <<bytes>>)

hackrf_get_operacake_boards == Exchange("OPERACAKE_BOARDS", 258, TRUE, 0, 0, 8)

PA4 == 3
PB4 == 7

hackrf_set_operacake_ports(address, a, b) ==
  Command("OPERACAKE_PORTS", 258,
          /\ a <= PB4 /\ b <= PB4
          /\ ~(a <= PA4 /\ b <= PA4) /\ ~(a > PA4 /\ b > PA4),
          address, a + 256 * b, <<a, b>>)

hackrf_reset == Command("RESET", 258, TRUE, 0, 0, <<>>)

hackrf_set_operacake_ranges(n) == Exchange("OPERACAKE_RANGES", 259, TRUE, 0, 0, n)

hackrf_set_clkout_enable(v) == Command("CLKOUT_ENABLE", 259, TRUE, v, 0, <<v>>)

(* Two bytes are asked for, one is enough.                                 *)
hackrf_operacake_gpio_test(address) ==
  Request("OPERACAKE_GPIO", 259, TRUE, address, 0, <<>>, 2, 1, <<>>)

hackrf_cpld_checksum == Exchange("CPLD_CHECKSUM", 259, TRUE, 0, 0, 4)

Gain == {"LNA_GAIN", "VGA_GAIN", "TXVGA_GAIN"}

-----------------------------------------------------------------------------
(* The baseband filter                                                     *)

max2837_ft == <<1750000, 2500000, 3500000, 5000000, 5500000, 6000000, 7000000,
                8000000, 9000000, 10000000, 12000000, 14000000, 15000000,
                20000000, 24000000, 28000000, 0>>

(* Where the loop over the table stops: at the first bandwidth that is not *)
(* below bw, or at the terminator.                                         *)
Stop(bw) ==
  CHOOSE p \in DOMAIN max2837_ft :
    /\ max2837_ft[p] = 0 \/ max2837_ft[p] >= bw
    /\ \A q \in 1 .. p - 1 : max2837_ft[q] # 0 /\ max2837_ft[q] < bw

hackrf_compute_baseband_filter_bw_round_down_lt(bw) ==
  LET p == Stop(bw) IN max2837_ft[IF p # 1 THEN p - 1 ELSE p]

(* Mutant of hackrf_compute_baseband_filter_bw: not rounded down.          *)
filter_bw_rounded_up(bw) == max2837_ft[Stop(bw)]

hackrf_compute_baseband_filter_bw(bw) ==
  LET p == Stop(bw)
  IN  max2837_ft[IF p # 1 /\ max2837_ft[p] > bw THEN p - 1 ELSE p]

(* (uint32_t)(0.75*freq_hz/divider)                                        *)
ThreeQuarters(freq_hz, divider) == (3 * freq_hz) \div (4 * divider)

-----------------------------------------------------------------------------
(* Sending a request                                                       *)

(* What libusb_control_transfer returns: an error (any negative number) or *)
(* the number of bytes moved.                                              *)
Results(len) ==
  {len} \cup (IF "error" \in Env THEN {-1} ELSE {})
        \cup (IF "short" \in Env THEN {0, len - 1} \cap (0 .. len) ELSE {})

(* Mutant of Accepts: only negative results are errors.                    *)
Accepts_any_length(r, n) == n >= 0

(* The test of the result, for functions other than the gains.             *)
Accepts(r, n) == n >= r.need

(* The outcome for the caller.  The gain functions take any trouble for an *)
(* invalid parameter and store no error.                                   *)
Outcome(r, n) ==
  IF r.req \in Gain
    THEN /\ \/ n = 1 /\ ret' = "SUCCESS"
            \/ (n # 1 \/ "refused" \in Env) /\ ret' = "INVALID_PARAM"
         /\ UNCHANGED last_libusb_error
    ELSE IF Accepts(r, n)
      THEN ret' = "SUCCESS" /\ UNCHANGED last_libusb_error
      ELSE ret' = "LIBUSB" /\ last_libusb_error' = n

(* What the board does with a request it has received in full.             *)
Apply(r) ==
  /\ mode'   = CASE r.req = "SET_TRANSCEIVER_MODE" -> r.value
                 [] r.req = "RESET" -> 0
                 [] OTHER -> mode
  /\ filter' = CASE r.req = "FILTER_SET" -> r.value + WORD * r.index
                 [] r.req = "RESET" -> 0
                 [] OTHER -> filter
  /\ rate'   = CASE r.req = "SAMPLE_RATE_SET" -> r.data
                 [] r.req = "RESET" -> <<>>
                 [] OTHER -> rate

(* A transfer with result n: one that fell short may have been carried     *)
(* out, or not.                                                            *)
Transfer(r, n) ==
  /\ n \in Results(r.len)
  /\ \/ Apply(r)
     \/ n # r.len /\ UNCHANGED <<mode, filter, rate>>

-----------------------------------------------------------------------------
(* Every call that sends one request.                                      *)
Calls ==
  {hackrf_set_transceiver_mode(m) : m \in 0 .. 2}
  \cup {hackrf_max2837_read(r) : r \in Number \cap UINT8}
  \cup {hackrf_max2837_write(r, v) : r \in Number \cap UINT8, v \in Number \cap UINT16}
  \cup {hackrf_si5351c_read(r) : r \in Number \cap UINT16}
  \cup {hackrf_si5351c_write(r, v) : r \in Number \cap UINT16, v \in Number \cap UINT16}
  \cup {hackrf_rffc5071_read(r) : r \in Number \cap UINT8}
  \cup {hackrf_rffc5071_write(r, v) : r \in Number \cap UINT8, v \in Number \cap UINT16}
  \cup {hackrf_set_baseband_filter_bandwidth(bw) : bw \in Bandwidth}
  \cup {hackrf_set_baseband_filter_bandwidth(
          hackrf_compute_baseband_filter_bw_round_down_lt(bw)) : bw \in Bandwidth}
  \cup {hackrf_spiflash_write(a, n) : a \in Address, n \in Length}
  \cup {hackrf_spiflash_read(a, n) : a \in Address, n \in Length}
  \cup {hackrf_version_string_read(n) : n \in Length \cap UINT8}
  \cup {hackrf_set_freq(f) : f \in Frequency}
  \cup {hackrf_set_freq_explicit(f, g, p) : f \in Frequency, g \in Frequency, p \in 0 .. 3}
  \cup {hackrf_set_amp_enable(v) : v \in {0, 1}}
  \cup {hackrf_set_lna_gain(v) : v \in Number}
  \cup {hackrf_set_vga_gain(v) : v \in Number}
  \cup {hackrf_set_txvga_gain(v) : v \in Number}
  \cup {hackrf_set_antenna_enable(v) : v \in {0, 1}}
  \cup {hackrf_set_hw_sync_mode(v) : v \in {0, 1}}
  \cup {hackrf_init_sweep(k, b, w, y) : k \in 0 .. MAX_SWEEP_RANGES + 1, b \in SweepBytes,
                                        w \in {0, 1}, y \in 0 .. 2}
  \cup {hackrf_set_operacake_ports(0, a, b) : a \in 0 .. PB4 + 1, b \in 0 .. PB4 + 1}
  \cup {hackrf_set_operacake_ranges(n) : n \in Length \cap UINT8}
  \cup {hackrf_set_clkout_enable(v) : v \in {0, 1}}
  \cup {hackrf_operacake_gpio_test(0), hackrf_get_operacake_boards, hackrf_reset,
        hackrf_cpld_checksum, hackrf_spiflash_erase, hackrf_spiflash_status,
        hackrf_spiflash_clear_status, hackrf_board_id_read,
        hackrf_board_partid_serialno_read}

(* USB_API_REQUIRED: the board is too old, or its descriptor cannot be read *)
(* and the version stays 0.                                                *)
ApiTooOld(r) ==
  /\ \/ api < r.version /\ UNCHANGED last_libusb_error
     \/ /\ "descriptor_error" \in Env
        /\ r.version > 0
        /\ last_libusb_error' = -1
  /\ ret' = "USB_API_VERSION"

(* The call is refused before anything is sent.                            *)
Refuse(r) ==
  /\ \/ ApiTooOld(r)
     \/ /\ api >= r.version
        /\ ~r.valid
        /\ ret' = "INVALID_PARAM"
        /\ UNCHANGED last_libusb_error
  /\ sent' = <<>>
  /\ UNCHANGED <<mode, filter, rate>>

Call(r) ==
  /\ pc = "idle"
  /\ call' = r
  /\ \/ Refuse(r)
     \/ /\ api >= r.version
        /\ r.valid
        /\ \E n \in Results(r.len) :
             /\ Transfer(r, n)
             /\ Outcome(r, n)
             /\ sent' = <<[request |-> r, n |-> n]>>
  /\ pc' = "returned"
  /\ UNCHANGED <<chunk, api>>

-----------------------------------------------------------------------------
(* hackrf_set_sample_rate_manual: the rate, then the filter.               *)

(* asked is empty, or holds the double the caller asked for.               *)
RateRequest(freq_hz, divider, asked) ==
  Request("SAMPLE_RATE_SET", 0, TRUE, 0, 0, <<freq_hz, divider>>, 8, 8, asked)

RateCall(freq_hz, divider, asked) ==
  LET r == RateRequest(freq_hz, divider, asked) IN
  /\ pc = "idle"
  /\ call' = r
  /\ \E n \in Results(r.len) :
       /\ Transfer(r, n)
       /\ Outcome(r, n)
       /\ sent' = <<[request |-> r, n |-> n]>>
       /\ pc' = IF Accepts(r, n) THEN "filter" ELSE "returned"
  /\ UNCHANGED <<chunk, api>>

FilterStep ==
  LET bw == hackrf_compute_baseband_filter_bw(ThreeQuarters(call.data[1], call.data[2]))
      r  == hackrf_set_baseband_filter_bandwidth(bw) IN
  /\ pc = "filter"
  /\ \E n \in Results(r.len) :
       /\ Transfer(r, n)
       /\ Outcome(r, n)
       /\ sent' = Append(sent, [request |-> r, n |-> n])
  /\ pc' = "returned"
  /\ UNCHANGED <<call, chunk, api>>

hackrf_set_sample_rate_manual(freq_hz, divider) ==
  RateCall(freq_hz, divider, <<>>)

MAX_N == 32

(* 1.0 + freq reaches a power of two: its mantissa has one bit less for    *)
(* the fraction than that of freq.                                         *)
Crosses(freq) == freq.hz + 1 = 2^(freq.e + 1)

(* The part of freq_frac = 1.0 + freq - (int)freq beyond 1, in ulps: the   *)
(* sum is rounded to even where it loses a bit.                            *)
freq_frac(freq) ==
  IF ~Crosses(freq) \/ freq.part % 2 = 0 THEN freq.part
  ELSE IF freq.part % 4 = 1 THEN freq.part - 1 ELSE freq.part + 1

(* The multiples of hz + part/n, each as the whole number and the number   *)
(* of n-ths above it: the loop's accumulator, and freq * i.                *)
Multiples(hz, part, n) ==
  LET m[i \in 0 .. MAX_N - 1] ==
        IF i = 0 THEN <<0, 0>>
        ELSE LET a == m[i - 1]
             IN  <<a[1] + hz + ((a[2] + part) \div n), (a[2] + part) % n>>
  IN m

(* Mutant of NearWhole: a multiple that falls short is not taken.          *)
NearWhole_above(a, n) == a < 16

(* !(a & m) || !(~a & m): m leaves out the e + 4 low bits, the e bits      *)
(* below the last place of freq and 16 of its ulps.                        *)
NearWhole(a, n) == a < 16 \/ a >= n - 16

(* The first i whose multiple of the fractional part is whole, up to 16    *)
(* ulps, or 1 if no i below MAX_N will do.                                 *)
RateDivider(freq) ==
  LET a     == Multiples(0, freq_frac(freq), ulps(freq))
      whole == {i \in 1 .. MAX_N - 1 : NearWhole(a[i][2], ulps(freq))}
  IN  IF whole = {} THEN 1
      ELSE CHOOSE i \in whole : \A k \in whole : i <= k

(* (uint32_t)(freq * i + 0.5), which fits: 31 * 2^27 < 2^32.  The rounding *)
(* of the product and the sum is far too small to change the whole part.   *)
RateHz(freq, i) ==
  LET m == Multiples(freq.hz, freq.part, ulps(freq))[i]
  IN  m[1] + (IF 2 * m[2] >= ulps(freq) THEN 1 ELSE 0)

hackrf_set_sample_rate(freq) ==
  LET i == RateDivider(freq) IN RateCall(RateHz(freq, i), i, <<freq>>)

-----------------------------------------------------------------------------
(* hackrf_cpld_write: update mode, then the image in chunks.               *)

CHUNK_SIZE == 512
CPLD_UPDATE == 4

CpldCall(total_length) ==
  LET r == hackrf_set_transceiver_mode(CPLD_UPDATE) IN
  /\ pc = "idle"
  /\ call' = [r EXCEPT !.req = "CPLD_WRITE", !.arg = <<total_length>>]
  /\ \E n \in Results(r.len) :
       /\ Transfer(r, n)
       /\ Outcome(r, n)
       /\ sent' = <<[request |-> r, n |-> n]>>
       /\ pc' = IF Accepts(r, n) THEN "chunk" ELSE "returned"
  /\ chunk' = 0
  /\ UNCHANGED api

(* Mutant of ChunkLeft: one chunk too many for a whole number of chunks.   *)
ChunkLeft_inclusive(i, total_length) == i <= total_length

ChunkLeft(i, total_length) == i < total_length

(* Every chunk has the full size, the last one too.                        *)
ChunkRequest ==
  Request("CPLD_CHUNK", 0, TRUE, 0, 0, <<chunk>>, CHUNK_SIZE, CHUNK_SIZE, <<>>)

CpldChunk ==
  /\ pc = "chunk"
  /\ ChunkLeft(chunk, call.arg[1])
  /\ \/ /\ chunk' = chunk + CHUNK_SIZE
        /\ sent' = Append(sent, [request |-> ChunkRequest, n |-> CHUNK_SIZE])
        /\ UNCHANGED <<pc, ret, last_libusb_error>>
     \/ /\ "error" \in Env
        /\ ret' = "LIBUSB" /\ last_libusb_error' = -1
        /\ pc' = "returned"
        /\ chunk' = 0
        /\ UNCHANGED sent
  /\ UNCHANGED <<call, board_vars>>

CpldDone ==
  /\ pc = "chunk"
  /\ ~ChunkLeft(chunk, call.arg[1])
  /\ pc' = "returned"
  /\ chunk' = 0
  /\ ret' = "SUCCESS"
  /\ UNCHANGED <<call, sent, last_libusb_error, board_vars>>

-----------------------------------------------------------------------------
(* The caller has the result; what stays is the board and the library's    *)
(* last_libusb_error.                                                      *)
Resume ==
  /\ pc = "returned"
  /\ pc' = "idle"
  /\ call' = NoCall
  /\ sent' = <<>>
  /\ ret' = "none"
  /\ UNCHANGED <<last_libusb_error, chunk, board_vars>>

-----------------------------------------------------------------------------
Init ==
  /\ pc = "idle"
  /\ call = NoCall
  /\ sent = <<>>
  /\ ret = "none"
  /\ last_libusb_error = 0
  /\ chunk = 0
  /\ api \in Api
  /\ mode = 0
  /\ rate = <<>>
  /\ filter = 0

Next ==
  \/ \E r \in Calls : Call(r)
  \/ \E r \in ManualRate : hackrf_set_sample_rate_manual(r[1], r[2])
  \/ \E freq \in Rate : hackrf_set_sample_rate(freq)
  \/ FilterStep
  \/ \E n \in ImageLength : CpldCall(n)
  \/ CpldChunk
  \/ CpldDone
  \/ Resume

Spec == Init /\ [][Next]_vars

-----------------------------------------------------------------------------
Sent == {sent[k] : k \in DOMAIN sent}
Requests == {s.request : s \in Sent}

(* The frequencies whose MHz have 32 bits.                                 *)
InMHz(f) == f < FREQ_ONE_MHZ * DWORD

InRange(r) ==
  /\ r.value \in UINT16 /\ r.index \in UINT16
  /\ r.req \in {"MAX2837_READ", "MAX2837_WRITE"} => r.index < 32 /\ r.value < 1024
  /\ r.req \in {"SI5351C_READ", "SI5351C_WRITE"} => r.index < 256 /\ r.value < 256
  /\ r.req \in {"RFFC5071_READ", "RFFC5071_WRITE"} => r.index < 31
  /\ r.req = "LNA_GAIN" => r.index \in {0, 8, 16, 24, 32, 40}
  /\ r.req = "VGA_GAIN" => \E k \in 0 .. 31 : r.index = 2 * k
  /\ r.req = "TXVGA_GAIN" => r.index \in 0 .. 47
  /\ r.req = "OPERACAKE_PORTS" =>
       LET a == r.index % 256  b == r.index \div 256
       IN  (a \in 0 .. 3 /\ b \in 4 .. 7) \/ (a \in 4 .. 7 /\ b \in 0 .. 3)
  /\ r.req \in {"SPIFLASH_READ", "SPIFLASH_WRITE"} => r.value < 16
  /\ r.req = "INIT_SWEEP" => r.len \in 13 .. 49
  /\ r.req = "SET_FREQ" =>
       /\ r.data[1] \in 0 .. DWORD - 1 /\ r.data[2] \in 0 .. DWORD - 1
       /\ InMHz(r.arg[1]) => r.data[2] < FREQ_ONE_MHZ

(***************************************************************************)
(* Whatever the caller passes, a request that leaves the host is within    *)
(* the ranges of the chips and of hackrf.h: registers and values of the    *)
(* MAX2837, SI5351C and RFFC5071, the gain steps ("range 0-40 step 8d",    *)
(* "range 0-62 step 2db", "range 0-47 step 1db"), one Opera Cake port on   *)
(* each side, a flash address of 20 bits, and a sweep whose data fits      *)
(* data[] of hackrf_init_sweep.  The two words of a tuning frequency have  *)
(* 32 bits, and below 2^32 MHz the second is less than a MHz ("From 0 to   *)
(* 999999Hz", hackrf.c:1103).                                              *)
(***************************************************************************)
BoardRanges == \A r \in Requests : InRange(r)

Decodes(r) ==
  /\ r.req \in {"FILTER_SET", "INIT_SWEEP"} => r.value + WORD * r.index = r.arg[1]
  /\ r.req \in {"SPIFLASH_READ", "SPIFLASH_WRITE"} => WORD * r.value + r.index = r.arg[1]
  /\ r.req = "SET_FREQ" /\ InMHz(r.arg[1]) =>
       r.data[1] * FREQ_ONE_MHZ + r.data[2] = r.arg[1]

(***************************************************************************)
(* What a board reads out of wValue, wIndex and the data stage is the      *)
(* number the caller passed: filter bandwidth, flash address, sweep block  *)
(* size and tuning frequency survive being split into fields.  A frequency *)
(* of 2^32 MHz or more does not: its MHz are cut to 32 bits without a      *)
(* word to the caller (hackrf.c:1117), and the property exempts it.        *)
(***************************************************************************)
BoardDecodes == \A r \in Requests : Decodes(r)

(* The replies that may be shorter than what was asked for.                *)
Lenient == {"SPIFLASH_STATUS", "OPERACAKE_GPIO", "VERSION_STRING"}

(***************************************************************************)
(* HACKRF_SUCCESS means that every transfer of the call was complete.      *)
(* Three replies are exempt by the code's own tests: the flash status, the *)
(* Opera Cake GPIO test (one byte of two is enough) and the version string.*)
(***************************************************************************)
SuccessIsComplete ==
  pc = "returned" /\ ret = "SUCCESS" =>
    \A s \in Sent : s.n = s.request.len \/ s.request.req \in Lenient

(* The widest bandwidth of the MAX2837 that is at most bw.                 *)
Widest(bw) ==
  CHOOSE b \in {max2837_ft[p] : p \in DOMAIN max2837_ft} :
    /\ b <= bw
    /\ \A p \in DOMAIN max2837_ft : max2837_ft[p] <= bw => max2837_ft[p] <= b

SupportedRate(r) == r[1] >= 8000000 * r[2] /\ r[1] <= 20000000 * r[2]

(***************************************************************************)
(* After a successful hackrf_set_sample_rate, for the rates hackrf.h:173   *)
(* supports (8 to 20 MHz), the board's filter is the widest one of at most *)
(* 75% of the board's rate, whatever divider carried the rate.             *)
(***************************************************************************)
FilterFollowsRate ==
  pc = "returned" /\ ret = "SUCCESS" /\ call.req = "SAMPLE_RATE_SET" =>
    /\ rate = call.data
    /\ SupportedRate(rate) => filter = Widest(ThreeQuarters(rate[1], rate[2]))

(* freq is p/q to half an ulp: the double a caller gets who writes p/q.    *)
Nearest(freq, p, q) ==
  LET m == Multiples(freq.hz, freq.part, ulps(freq))[q] IN
  \/ p = m[1] /\ m[2] <= q \div 2
  \/ p = m[1] + 1 /\ ulps(freq) - m[2] <= q \div 2

(* f/i is the fraction p/q.                                                *)
SameFraction(f, i, p, q) == f \div i = p \div q /\ (f % i) * q = (p % q) * i

(* f/i is the fraction that freq stands for, if freq stands for one.       *)
Carries(f, i, freq) ==
  \A q \in 1 .. MAX_N - 1 :
    LET whole == Multiples(freq.hz, freq.part, ulps(freq))[q][1] IN
    \A p \in {whole, whole + 1} :
      Nearest(freq, p, q) /\ (Crosses(freq) => q <= 10) => SameFraction(f, i, p, q)

(***************************************************************************)
(* hackrf_set_sample_rate is passed a double, and most fractions of a Hz   *)
(* are not doubles.  Whenever freq is the double nearest to a fraction     *)
(* p/q with q below MAX_N, and the call succeeds, the board runs at        *)
(* exactly p/q: the tolerance of the search makes up for the error of      *)
(* freq, and takes no divider that would change the rate.  In the last Hz  *)
(* below a power of two, where 1.0 + freq loses a bit, q must be 10 or     *)
(* less: beyond, the search may miss the divider.                          *)
(***************************************************************************)
RateIsAsAsked ==
  pc = "returned" /\ ret = "SUCCESS" /\ call.req = "SAMPLE_RATE_SET" /\ call.arg # <<>> =>
    Carries(rate[1], rate[2], call.arg[1])

(***************************************************************************)
(* A successful hackrf_cpld_write has sent the whole image, in order, and  *)
(* less than one chunk more.                                               *)
(***************************************************************************)
CpldImageSent ==
  pc = "returned" /\ ret = "SUCCESS" /\ call.req = "CPLD_WRITE" =>
    /\ CHUNK_SIZE * (Len(sent) - 1) \in call.arg[1] .. call.arg[1] + CHUNK_SIZE - 1
    /\ \A k \in 2 .. Len(sent) : sent[k].request.data = <<CHUNK_SIZE * (k - 2)>>

-----------------------------------------------------------------------------
(* What a comment says, and the code does not keep.                        *)

(***************************************************************************)
(* "the baseband filter bandwidth is automatically set ... This happens    *)
(* every time the sample rate is set" (hackrf.c:1240): between calls, a    *)
(* board at the rate a call asked for has the filter of that rate.         *)
(***************************************************************************)
FilterSetWithRate ==
  pc = "returned" /\ call.req = "SAMPLE_RATE_SET" /\ rate = call.data
    /\ SupportedRate(rate)
      => filter = Widest(ThreeQuarters(rate[1], rate[2]))

=============================================================================
