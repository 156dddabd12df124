--------------------------------- MODULE Audio ---------------------------------
(***************************************************************************)
(* What the Voice PE satellite does with the audio of a reply before it    *)
(* plays it: audio_util.c, ovos_http.c, i2s_spk_push.  Samples are two     *)
(* bytes.  Positions and sizes are size_t and the 32-bit words of a WAV    *)
(* header; a sum of two of them wraps at W.                                *)
(*                                                                         *)
(* The walk over the chunks of a WAV is where it ends: at a chunk named    *)
(* "data" whose header is inside the body, or nowhere.  What that header   *)
(* announces may be any word.                                              *)
(***************************************************************************)
EXTENDS Integers, SequencesExt

CONSTANTS
  W,          \* 2^32
  MaxAlloc,   \* the largest block malloc gives
  MaxBody     \* the longest body the client hands over

(* MaxAlloc is megabytes where W is gigabytes.                             *)
ASSUME AudioAssumption ==
  /\ W \in Nat /\ MaxAlloc \in Nat /\ MaxBody \in Nat
  /\ MaxAlloc + MaxBody + 1 < W

SampleType == (-32768)..32767

(* riff: it starts like a WAV; data: the walk finds the chunk, whose       *)
(* samples begin at offset and which announces size bytes.                 *)
BodyType ==
  {b \in [riff : BOOLEAN, data : BOOLEAN, offset : 0..MaxBody, size : 0..(W - 1),
          len : 0..MaxBody, sample : SampleType] : b.offset <= b.len}

MinOf(a, b) == IF a < b THEN a ELSE b

-----------------------------------------------------------------------------
(* audio_is_wav and audio_wav_extract_pcm.                                 *)

IsWav(b)  == b.riff /\ b.len >= 12
HasPcm(b) == IsWav(b) /\ b.data

DataBytes_Unclipped(b) == b.size

DataBytes(b) ==
  IF (b.offset + b.size) % W > b.len THEN b.len - b.offset ELSE b.size

(* Of a WAV, or of raw PCM.                                                *)
Samples(b) == (IF IsWav(b) THEN DataBytes(b) ELSE b.len) \div 2

(* malloc(samples * sizeof(int16_t)) may succeed.                          *)
Allocates(n) == 2 * n <= MaxAlloc

(* One past the last byte memcpy reads of the body.                        *)
CopyEnd(b) == IF IsWav(b) THEN b.offset + 2 * Samples(b) ELSE b.len

-----------------------------------------------------------------------------
(* audio_apply_volume.  The shift of a negative number rounds down.        *)

Scale_Of64(volume) == (volume * 256) \div 64
Scale(volume)      == (volume * 256) \div 100

Scaled(sample, volume) ==
  IF volume >= 100 THEN sample
  ELSE IF volume = 0 THEN 0 ELSE (sample * Scale(volume)) \div 256

-----------------------------------------------------------------------------
(* ovos_http.c: the pieces of a response that fit into the buffer, and     *)
(* the samples taken from what it then holds.  No WAV is shorter than 44.  *)

Collected(pieces, cap) ==
  FoldLeft(LAMBDA n, p : IF n + p <= cap THEN n + p ELSE n, 0, pieces)

Fetched(b, max_samples) ==
  IF b.riff /\ b.data /\ b.len >= 44 THEN MinOf(b.size \div 2, max_samples) ELSE 0
=============================================================================
