--------------------------- MODULE MCBoardControl ---------------------------
(***************************************************************************)
(* BoardControl for TLC: the constants are boundary values, the last that  *)
(* passes a test and the first that does not.                              *)
(***************************************************************************)
EXTENDS BoardControl

(* For the run that tries every request.                                   *)
AllApi      == {256, 258, 259, 4098}
AllNumber   == {0, 30, 31, 32, 40, 41, 47, 48, 62, 63, 255, 256, 1023, 1024}
AllLength   == {0, 1, 256}
AllAddress  == {0, 65535, 65536, 1048575, 1048576}
(* One MHz is 10, 2^32 is 64: 639 is the last frequency whose MHz fit.     *)
AllFrequency  == {9, 10, 214, 215, 275, 276, 540, 541, 639, 640, 1285}
AllSweepBytes == {0, 8192, 16384, 16385, 65536, 131072}

(* For the runs about sample rates, filters and the CPLD image.            *)
(* The doubles nearest to both ends of the supported range, to fractions   *)
(* with denominators 2, 3, 7 and 31, to one with denominator 64, which     *)
(* cannot be expressed, to 10000000.33333334, which is taken for a third,  *)
(* and to 3/10 and 1/31 of a Hz over 8388607 = 2^23 - 1 Hz, where 1.0 +    *)
(* freq loses a bit and the search misses the second.                      *)
AllBandwidth   == {0, 1750001, 28000001}
Double(hz, part, e) == [hz |-> hz, part |-> part, e |-> e]
AllRate        == {Double(8000000, 0, 22), Double(20000000, 0, 24),
                   Double(12500000, 2^28, 23), Double(13333333, 357913941, 23),
                   Double(5000000, 460175067, 22), Double(19999999, 259776248, 24),
                   Double(10000000, 276824064, 23), Double(10000000, 178956974, 23),
                   Double(8388607, 322122547, 22), Double(8388607, 34636833, 22)}
AllManualRate  == {<<1000000, 1>>, <<40000001, 3>>}
AllImageLength == {0, 1, 512, 1025}

Nothing == {}

=============================================================================
