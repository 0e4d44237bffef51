----------------------------- MODULE VoiceStream -----------------------------
(***************************************************************************)
(* The stages a chunk of a live session goes through (realtime.py           *)
(* ChunkProcessor, dsp.py, denoise.py), by the lengths they hold back and   *)
(* the state they keep from one chunk to the next: the DTLN denoiser cuts   *)
(* its input into hops, the processor cuts what is left into blocks, slides *)
(* a context window and the latent noise under it, and the squelch decides  *)
(* whether a block is converted or silent. Requests change the settings     *)
(* between any two blocks, also of one chunk.                               *)
(***************************************************************************)
EXTENDS Naturals, Sequences

CONSTANTS Hop, Frame,          \* DTLN: the step, and the window it is primed with
          FeatureHop, Quantum, \* a synthesizer frame, and what blocks are multiples of
          ChunkLength,         \* samples of a chunk, at the analysis rate
          Pieces,              \* what the input resampler may make of a chunk
          Tunings,             \* the settings a session may be given
          FlushBlocks,         \* POST_SPEECH_FLUSH_MS, in blocks
          SolaSearch,          \* SOLA_SEARCH_MS, in samples
          RateUp, RateDown,    \* stream rate / analysis rate
          MaxBlocks            \* bound: blocks of a session

ASSUME VoiceStreamAssumption ==
  /\ {Hop, Frame, FeatureHop, Quantum, RateUp, RateDown, FlushBlocks} \subseteq Nat \ {0}
  /\ Frame % Hop = 0 /\ Quantum % FeatureHop = 0
  /\ {ChunkLength, SolaSearch, MaxBlocks} \cup Pieces \subseteq Nat
  /\ Tunings # {}
  /\ Tunings \subseteq [denoise : BOOLEAN, cutoff : Nat, formant : Nat \ {0}, extra : Nat,
                        fade : Nat, off : BOOLEAN, hold : Nat]

VARIABLES tuning,   \* the engine's attributes the processor reads
          denoiser, \* mode: _denoise_mode = "dtln"; _primed, _pending_input, _stream_drop
          kept,     \* history: samples the denoiser took since its reset and has not given back
          filter,   \* StreamingHighpass: cutoff_hz, and whether there is a _zi
          formant,  \* the factor of _formant_rs (1: there is none)
          fifo,     \* _fifo_16k, in samples
          context,  \* _context_16k: the number of each frame in it, 0 for padding
          noise,    \* _noise_ring: the draw each column comes from
          draws,    \* columns drawn so far
          blocks,   \* blocks cut so far
          gate,     \* SquelchGate: _open, _below_ms (in blocks), _disabled
          flush,    \* _tail_flush_remaining
          calm,     \* history: quiet blocks in a row; blocks since the gate was open
          seam,     \* length of _sola_buf (0: None)
          emitted,  \* what the last block put out
          owed,     \* _silence_acc, in 1/RateDown samples
          silence   \* history: samples squelched, and samples of silence put out

voiceStreamVars == <<tuning, denoiser, kept, filter, formant, fifo, context, noise, draws, blocks,
                     gate, flush, calm, seam, emitted, owed, silence>>

AtMost(a, b) == IF a < b THEN a ELSE b
AtLeast(a, b) == IF a > b THEN a ELSE b
Quanta(n) == ((2 * n + Quantum) \div (2 * Quantum)) * Quantum

\* _ensure_block: the chunk to the nearest multiple of the quantum, but never 0.
Block == AtLeast(Quantum, Quanta(ChunkLength))
BlockFrames == Block \div FeatureHop

\* _context_len_16k
ContextFrames == (AtLeast(Quantum, Quanta(tuning.extra)) + Block) \div FeatureHop

StreamInit ==
  /\ tuning \in Tunings
  /\ denoiser = [mode |-> tuning.denoise, primed |-> FALSE, pending |-> 0, drop |-> 0]
  /\ filter = [cutoff |-> tuning.cutoff, zi |-> tuning.cutoff > 0]
  /\ formant = 1 /\ kept = 0 /\ fifo = 0
  /\ context = <<>> /\ noise = <<>> /\ draws = 0 /\ blocks = 0
  /\ gate = [open |-> FALSE, below |-> 0, off |-> tuning.off]
  /\ flush = 0 /\ seam = 0 /\ owed = 0
  /\ calm = [quiet |-> 0, closed |-> FlushBlocks]
  /\ emitted = [length |-> 0, silent |-> FALSE] /\ silence = [taken |-> 0, given |-> 0]

------------------------------------------------------------------------------
(* DtlnDenoiser *)

\* Mutant: the warm-up is not dropped.
StreamedWarm(d, n) ==
  LET all == d.pending + n + IF d.primed THEN 0 ELSE Frame
  IN [state |-> [d EXCEPT !.primed = TRUE, !.pending = all % Hop], out |-> (all \div Hop) * Hop]

\* process_stream: the first piece is preceded by a window of warm-up, which is
\* dropped from the output again; whole hops come out.
Streamed(d, n) ==
  LET warm == IF d.primed THEN 0 ELSE Frame
      all  == d.pending + warm + n
      out  == (all \div Hop) * Hop
      owe  == IF d.primed THEN d.drop ELSE warm
      drop == AtMost(owe, out)
  IN [state |-> [d EXCEPT !.primed = TRUE, !.pending = all % Hop, !.drop = owe - drop],
      out   |-> out - drop]

\* process, on a denoiser just reset: what of a file comes out, and the zeros that
\* make it as long as it was.
FileDenoised(n) ==
  LET out == ((Frame + n) \div Hop) * Hop - Frame IN [audio |-> out, zeros |-> n - out]

\* _active_denoiser: reset when denoising is switched on, after a chunk without it.
ActiveDenoiser ==
  IF ~tuning.denoise THEN [denoiser EXCEPT !.mode = FALSE]
  ELSE IF denoiser.mode THEN denoiser
  ELSE [mode |-> TRUE, primed |-> FALSE, pending |-> 0, drop |-> 0]

------------------------------------------------------------------------------
(* process, up to the loop: a piece joins the queue of samples for blocks. *)

\* StreamingHighpass.configure: the state survives a change of the cutoff.
Filtered == [cutoff |-> tuning.cutoff, zi |-> tuning.cutoff > 0]

\* _apply_formant: no resampler at factor 1; an empty piece makes none.
Formed(n) == IF tuning.formant = 1 THEN 1 ELSE IF n = 0 THEN formant ELSE tuning.formant

Feed(n) ==
  LET d     == ActiveDenoiser
      s     == Streamed(d, n)
      runs  == d.mode /\ n > 0
      piece == IF runs THEN s.out ELSE n
      held  == IF d.mode /\ ~denoiser.mode THEN 0 ELSE kept
  IN /\ fifo < Block /\ blocks < MaxBlocks
     /\ denoiser' = IF runs THEN s.state ELSE d
     /\ kept' = IF runs THEN held + n - s.out ELSE held
     /\ filter' = Filtered
     /\ formant' = Formed(piece)
     /\ fifo' = fifo + piece \div Formed(piece)
     /\ UNCHANGED <<tuning, context, noise, draws, blocks, gate, flush, calm, seam, emitted, owed, silence>>

------------------------------------------------------------------------------
(* Context and noise *)

Zeros(n) == [i \in 1..n |-> 0]
Drawn(n, from) == [i \in 1..n |-> from + i]
Newest(s, n) == SubSeq(s, Len(s) - n + 1, Len(s))

\* _resize_state: padded or cut at the old end; the newest columns keep their noise.
ResizedContext ==
  IF Len(context) < ContextFrames THEN Zeros(ContextFrames - Len(context)) \o context
  ELSE Newest(context, ContextFrames)
ResizedNoise ==
  LET stay == AtMost(Len(noise), ContextFrames)
  IN Drawn(ContextFrames - stay, draws) \o Newest(noise, stay)

\* The window slides by one block, and the noise with it.
SlidContext ==
  SubSeq(ResizedContext, BlockFrames + 1, ContextFrames) \o Drawn(BlockFrames, blocks * BlockFrames)
\* Mutant: the noise is left where it is.
StillNoise == ResizedNoise

SlidNoise ==
  SubSeq(ResizedNoise, BlockFrames + 1, ContextFrames) \o Drawn(BlockFrames, draws + ContextFrames)

------------------------------------------------------------------------------
(* SquelchGate.update *)

\* The level of a block: at the threshold or above, within 6 dB below it, or quiet.
Levels == {"loud", "near", "quiet"}

\* configure: to switch the squelch off opens it, to switch it on closes it.
Configured == IF tuning.off = gate.off THEN gate ELSE [open |-> tuning.off, below |-> 0, off |-> tuning.off]

Updated(g, level) ==
  CASE g.off \/ level = "loud" -> [g EXCEPT !.open = TRUE, !.below = 0]
    [] ~g.off /\ level = "near" -> [g EXCEPT !.below = IF g.open THEN 0 ELSE g.below]
    [] ~g.off /\ level = "quiet" ->
         IF ~g.open THEN g
         ELSE IF g.below + 1 >= tuning.hold THEN [g EXCEPT !.open = FALSE, !.below = 0]
         ELSE [g EXCEPT !.below = g.below + 1]

------------------------------------------------------------------------------
(* _process_block *)

\* _stitch: what was converted is aligned within the search range and crossfaded
\* with the seam; the new seam starts where the emitted audio stops.
Faded == AtMost(tuning.fade, Block \div 2)
Stitched(offset) == Faded + (AtMost(Block + Faded + SolaSearch - offset, Block) - Faded)
SeamAfter(offset) == AtMost(Block + Faded + SolaSearch - offset, Block + Faded) - Block

\* The gate, and the tail of speech it has to let through.
Flushed(g) == IF g.open THEN FlushBlocks ELSE IF flush > 0 THEN flush - 1 ELSE 0
Squelched(g) == ~g.open /\ flush = 0

Silenced ==
  LET due == owed + Block * formant * RateUp
  IN /\ seam' = 0
     /\ owed' = due % RateDown
     /\ emitted' = [length |-> due \div RateDown, silent |-> TRUE]
     /\ silence' = [taken |-> silence.taken + Block * formant, given |-> silence.given + due \div RateDown]

Converted ==
  \E offset \in 0..SolaSearch :
    /\ seam' = IF Faded = 0 THEN 0 ELSE SeamAfter(IF seam = Faded THEN offset ELSE 0)
    /\ emitted' = [length |-> IF Faded = 0 THEN Block ELSE Stitched(IF seam = Faded THEN offset ELSE 0),
                   silent |-> FALSE]
    /\ UNCHANGED <<owed, silence>>

Cut(level) ==
  LET g == Updated(Configured, level)
  IN /\ fifo >= Block
     /\ fifo' = fifo - Block /\ blocks' = blocks + 1
     /\ context' = SlidContext /\ noise' = SlidNoise
     /\ draws' = draws + ContextFrames + BlockFrames
     /\ gate' = g
     /\ flush' = Flushed(g)
     /\ calm' = [quiet  |-> IF level = "quiet" THEN calm.quiet + 1 ELSE 0,
                 closed |-> IF g.open THEN 0 ELSE AtMost(calm.closed + 1, FlushBlocks + 1)]
     /\ IF Squelched(g) THEN Silenced ELSE Converted
     /\ UNCHANGED <<tuning, denoiser, kept, filter, formant>>

\* A settings request, at any time.
Tune ==
  /\ tuning' \in Tunings
  /\ UNCHANGED <<denoiser, kept, filter, formant, fifo, context, noise, draws, blocks, gate, flush,
                 calm, seam, emitted, owed, silence>>

StreamNext == (\E n \in Pieces : Feed(n)) \/ (\E level \in Levels : Cut(level)) \/ Tune

StreamSpec == StreamInit /\ [][StreamNext]_voiceStreamVars

------------------------------------------------------------------------------
(* Properties *)

StreamTypeOK ==
  /\ tuning \in Tunings
  /\ {fifo, draws, blocks, kept, seam} \subseteq Nat
  /\ owed \in 0..(RateDown - 1) /\ flush \in 0..FlushBlocks
  /\ gate \in [open : BOOLEAN, below : Nat, off : BOOLEAN]

\* The denoiser loses and invents no sample of a stream: what has not come out
\* waits for its hop, and the warm-up never comes out. A file keeps its length, and
\* less than a hop at its end is zeros.
DenoiserKeepsSamples ==
  /\ denoiser.primed => kept = denoiser.pending /\ kept < Hop /\ denoiser.drop = 0
  /\ \A n \in Pieces : FileDenoised(n).audio >= 0 /\ FileDenoised(n).zeros \in 0..(Hop - 1)

\* A block never comes without its context, which ends with the block; every frame
\* of it has a column of noise; a filter that is to run has its state.
ContextIsWhole ==
  /\ Len(context) = Len(noise)
  /\ blocks > 0 => Len(context) > BlockFrames /\ context[Len(context)] = blocks * BlockFrames
  /\ filter.zi = (filter.cutoff > 0)

\* realtime.py:43 and 292-298: a block is silent if and only if the tail after the
\* last one the gate was open for has been converted; silence lasts as long as what
\* it stands for, to the sample; a converted block is exactly one block long.
SilenceIsExact ==
  /\ emitted.silent => calm.closed > FlushBlocks
  /\ blocks > 0 /\ ~emitted.silent => calm.closed <= FlushBlocks /\ emitted.length = Block
  /\ silence.given * RateDown + owed = silence.taken * RateUp
  /\ seam <= Block \div 2

StreamIsSound == StreamTypeOK /\ DenoiserKeepsSamples /\ ContextIsWhole /\ SilenceIsExact

\* realtime.py:108-128: context that is synthesized again comes from the same noise,
\* through every resize; and the gate closes on no fewer quiet blocks in a row than
\* the hold.
NoiseIsPinned ==
  [][/\ \A i \in DOMAIN context, j \in DOMAIN context' :
          context[i] # 0 /\ context[i] = context'[j] => noise[i] = noise'[j]
     /\ gate.open /\ ~gate'.open /\ ~gate.off => calm'.quiet >= tuning.hold]_voiceStreamVars
==============================================================================
