------------------------------ MODULE AudioWindows ------------------------------
(***************************************************************************)
(* The windows AudioPreprocessorMiniAudio cuts its input into               *)
(* (components/preprocessor/audio_preprocessor_miniaudio.{h,cc}): what is   *)
(* left of one input begins the windows of the next, until Reset.           *)
(*                                                                          *)
(* A sample is its number since Reset, 0 is padding.  Decoding, scaling,    *)
(* the transform of a window and the spectrogram are left out.              *)
(***************************************************************************)
EXTENDS Integers, Sequences

CONSTANTS
    Shapes,      \* of the configuration: frame_length_, hop_length_, semicausal_padding_
    MaxSamples,  \* bound on the samples since Reset
    MaxChunk     \* bound on the samples of one input

\* Windows have samples and advance; the padding is not longer than a window.
ASSUME ShapesAreWindows ==
    \A s \in Shapes :
      /\ s.frame \in Nat \ {0} /\ s.hop \in Nat \ {0} /\ s.semicausal \in BOOLEAN
      /\ s.semicausal => s.hop <= s.frame

VARIABLES
    shape,          \* config_
    heard,          \* samples given since Reset
    unread,         \* samples of the input behind input_start
    reading,        \* the loop of PcmFramesToSpectrogram runs
    inputQueue,     \* input_queue_
    samplesToNext,  \* samples_to_next_step_
    windows         \* the windows since Reset

windowVars == <<shape, heard, unread, reading, inputQueue, samplesToNext, windows>>

Padding == IF shape.semicausal THEN shape.hop ELSE 0

\* Reset: the queue begins with the padding, which counts towards a window.
Initial(s) ==
    [queue  |-> IF s.semicausal THEN [i \in 1..s.hop |-> 0] ELSE <<>>,
     toNext |-> s.frame - (IF s.semicausal THEN s.hop ELSE 0)]

WindowInit ==
    /\ shape \in Shapes
    /\ inputQueue = Initial(shape).queue /\ samplesToNext = Initial(shape).toNext
    /\ heard = 0 /\ unread = 0 /\ reading = FALSE /\ windows = <<>>

\* Preprocess of an input of n samples.
Preprocess(n) ==
    /\ ~reading /\ heard + n <= MaxSamples
    /\ heard' = heard + n /\ unread' = n /\ reading' = TRUE
    /\ UNCHANGED <<shape, inputQueue, samplesToNext, windows>>

\* The next n samples of the input.
Samples(n) == [i \in 1..n |-> heard - unread + i]

Suffix(s, n) == SubSeq(s, Len(s) - n + 1, Len(s))

\* Mutant of Kept: as if a window always began with the rest of the last one.
KeptOfWindow == Suffix(inputQueue, shape.frame - shape.hop)

\* What is not erased from the queue: the window's samples but for the new ones.
Kept == Suffix(inputQueue, shape.frame - samplesToNext)

\* GetNextWindowOfSamples: too few samples for a window go to the queue.
NoNextWindow ==
    /\ reading /\ samplesToNext > unread
    /\ inputQueue' = inputQueue \o Samples(unread)
    /\ samplesToNext' = samplesToNext - unread
    /\ unread' = 0 /\ reading' = FALSE
    /\ UNCHANGED <<shape, heard, windows>>

\* Otherwise the queue is made the next window.
NextWindow ==
    /\ reading /\ samplesToNext <= unread
    /\ inputQueue' = IF samplesToNext < shape.frame
                     THEN Kept \o Samples(samplesToNext)
                     ELSE Suffix(Samples(samplesToNext), shape.frame)
    /\ windows' = Append(windows, inputQueue')
    /\ unread' = unread - samplesToNext
    /\ samplesToNext' = shape.hop
    /\ UNCHANGED <<shape, heard, reading>>

Reset ==
    /\ ~reading
    /\ inputQueue' = Initial(shape).queue /\ samplesToNext' = Initial(shape).toNext
    /\ heard' = 0 /\ windows' = <<>>
    /\ UNCHANGED <<shape, unread, reading>>

WindowNext ==
    \/ \E n \in 0..MaxChunk : Preprocess(n)
    \/ NoNextWindow \/ NextWindow \/ Reset

WindowSpec == WindowInit /\ [][WindowNext]_windowVars

(***************************************************************************)
(* Properties.                                                              *)
(***************************************************************************)
\* The sample at position p of the stream behind its padding.
SampleAt(p, padding) == IF p <= padding THEN 0 ELSE p - padding

\* How many windows a stream has.
WindowsIn(length, frame, hop) ==
    IF length < frame THEN 0 ELSE 1 + (length - frame) \div hop

\* The windows do not depend on how the sound is cut into inputs: the i-th has
\* the samples from hop * (i - 1) on, also where windows do not overlap, and
\* when an input has been used up none is missing; the queue always has what
\* is kept of it.
WindowsOfStream ==
    /\ \A i \in DOMAIN windows :
         windows[i] = [j \in 1..shape.frame |-> SampleAt((i - 1) * shape.hop + j, Padding)]
    /\ ~reading /\ heard > 0 =>
         Len(windows) = WindowsIn(Padding + heard, shape.frame, shape.hop)
    /\ Len(inputQueue) >= shape.frame - samplesToNext
=============================================================================
