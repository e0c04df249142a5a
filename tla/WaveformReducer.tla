---------------------------- MODULE WaveformReducer ----------------------------
(***************************************************************************)
(* The class StreamingWaveformReducer and the function resample_waveform   *)
(* (src/core/waveform.cpp): a stream of PCM chunks of unknown length is    *)
(* reduced to at most requested_bins bins while it is decoded, within a    *)
(* bounded number of aggregates, and the bins are resampled to the columns *)
(* of a view.                                                              *)
(*                                                                         *)
(* WaveformAnalysis::decode calls append for each decoded chunk and finish *)
(* once; the panel calls resample_waveform for each view it draws.         *)
(*                                                                         *)
(* Samples are whole numbers of some unit of which FullScale is 1.0F, and  *)
(* the chunks are chosen so that the mean over channels is whole.  Of the  *)
(* root mean square of a bin its two ingredients are kept, the sum of      *)
(* squares and the number of frames.  A bound of a view is one of          *)
(* 0 .. ViewSteps, of which ViewSteps is 1.0.                              *)
(***************************************************************************)
EXTENDS Integers, Sequences, SequencesExt

CONSTANTS FullScale,
          Chunks,           \* what a decoder may yield: [pcm, channels]
          RequestedBins,    \* the choices of the constructor's argument
          MaxFrames,        \* bound on the length of the stream
          ViewSteps, DrawnViews,  \* the views drawn, as pairs of bounds
          DrawnColumns      \* the widths a view may be resampled to

ReducerAssumption ==
  /\ FullScale \in Nat \ {0} /\ ViewSteps \in Nat \ {0} /\ MaxFrames \in Nat
  /\ RequestedBins \subseteq Nat /\ DrawnColumns \subseteq Nat
  /\ DrawnViews \subseteq Int \X Int
  /\ \A chunk \in Chunks : chunk.pcm \in Seq(Int) /\ chunk.channels \in Nat

Total(numbers) == FoldLeft(LAMBDA sum, number : sum + number, 0, numbers)

Lesser(a, b)  == IF b < a THEN b ELSE a
Greater(a, b) == IF a < b THEN b ELSE a

------------------------------------------------------------------------------
(* struct Aggregate, with its default values. *)
Aggregate == [minimum : Int, maximum : Int, square_sum : Nat, frame_count : Nat]

Empty == [minimum |-> FullScale, maximum |-> -FullScale, square_sum |-> 0, frame_count |-> 0]

Mono(chunk, frame) ==
  Total([channel \in 1 .. chunk.channels |-> chunk.pcm[(frame - 1) * chunk.channels + channel]])
    \div chunk.channels

WithFrame(aggregate, mono) ==
  [minimum     |-> Lesser(aggregate.minimum, mono),
   maximum     |-> Greater(aggregate.maximum, mono),
   square_sum  |-> aggregate.square_sum + mono * mono,
   frame_count |-> aggregate.frame_count + 1]

Combine(a, b) ==
  [minimum     |-> Lesser(a.minimum, b.minimum),
   maximum     |-> Greater(a.maximum, b.maximum),
   square_sum  |-> a.square_sum + b.square_sum,
   frame_count |-> a.frame_count + b.frame_count]

(* Element k of length elements spread over the elements of a sequence:    *)
(* for all k, they partition it.                                           *)
Share(sequence, k, length) ==
  SubSeq(sequence, ((k - 1) * Len(sequence)) \div length + 1, (k * Len(sequence)) \div length)

PairsOfEven(length) == length \div 2   \* mutant: the odd one out is lost

Pairs(length) == (length + 1) \div 2

(* compact: neighbours are paired; an odd last aggregate stays alone. *)
Compacted(aggregates) ==
  [i \in 1 .. Pairs(Len(aggregates)) |->
     IF 2 * i <= Len(aggregates) THEN Combine(aggregates[2 * i - 1], aggregates[2 * i])
     ELSE aggregates[2 * i - 1]]

TooMany(aggregates, requested) == Len(aggregates) > 2 * requested

NextBlock(block_frames) == 2 * block_frames

(* flush_pending, with the compaction it may cause. *)
FlushPending(reducer) ==
  LET longer == Append(reducer.aggregates, reducer.pending)
      flushed == [reducer EXCEPT !.aggregates = longer, !.pending = Empty]
  IN  IF reducer.pending.frame_count = 0 THEN reducer
      ELSE IF TooMany(longer, reducer.requested_bins)
        THEN [flushed EXCEPT !.aggregates = Compacted(longer), !.block_frames = NextBlock(@)]
        ELSE flushed

AddFrame(reducer, mono) ==
  LET longer == [reducer EXCEPT !.pending = WithFrame(@, mono), !.total_frames = @ + 1]
  IN  IF longer.pending.frame_count = longer.block_frames THEN FlushPending(longer) ELSE longer

(* finish: the bins made of the flushed aggregates. *)
Finished(reducer) ==
  LET aggregates == FlushPending(reducer).aggregates
      count == Lesser(reducer.requested_bins, Len(aggregates))
  IN  [bin \in 1 .. count |-> FoldLeft(Combine, Empty, Share(aggregates, bin, count))]

(* reduce_waveform, which has the whole stream at hand (mono, as a         *)
(* sequence): the program does not use it, it is what the bins are         *)
(* compared with.                                                          *)
ReduceWaveform(stream, requested) ==
  LET count == Lesser(requested, Len(stream))
  IN  [bin \in 1 .. count |-> FoldLeft(WithFrame, Empty, Share(stream, bin, count))]

------------------------------------------------------------------------------
Ceiling(a, b) == (a + b - 1) \div b

ValidView(bins, begin, end, requested) ==
  bins # <<>> /\ requested # 0 /\ 0 <= begin /\ begin < end /\ end <= ViewSteps

LastFloored(scaled, requested) == scaled \div (ViewSteps * requested)   \* mutant

LastOf(scaled, requested) == Ceiling(scaled, ViewSteps * requested)

(* Which bins column k shows, as indices from 0 up to the first one that   *)
(* is not shown: range_begin rounded down, range_end rounded up, both      *)
(* multiplied by ViewSteps * requested.                                    *)
ColumnSource(size, begin, end, requested, k) ==
  LET range_begin == size * (begin * requested + (end - begin) * (k - 1))
      range_end   == size * (begin * requested + (end - begin) * k)
      first == Lesser(range_begin \div (ViewSteps * requested), size - 1)
      last  == Lesser(LastOf(range_end, requested), size)
  IN  first .. Greater(first + 1, last) - 1

(* resample_waveform.  A column has the extremes of its bins; their        *)
(* number stands for its RMS.                                              *)
ResampleWaveform(bins, begin, end, requested) ==
  IF ~ ValidView(bins, begin, end, requested) THEN <<>>
  ELSE [k \in 1 .. requested |->
          LET shown == {bins[i + 1] : i \in ColumnSource(Len(bins), begin, end, requested, k)}
          IN  [minimum |-> CHOOSE low \in {bin.minimum : bin \in shown} :
                             \A bin \in shown : low <= bin.minimum,
               maximum |-> CHOOSE high \in {bin.maximum : bin \in shown} :
                             \A bin \in shown : bin.maximum <= high]]

------------------------------------------------------------------------------
VARIABLES reducer,    \* the StreamingWaveformReducer of one decode
          phase,      \* of decode: "decoding", "finished", "failed"
          bins,       \* what finish returned
          bin_view,   \* the last view drawn: [begin, end, requested], and
          columns,    \*   what resample_waveform returned for it
          stream      \* history: the mono frames appended

wave_vars == <<reducer, phase, bins, bin_view, columns, stream>>

NoView == [begin |-> 0, end |-> 0, requested |-> 0]

DecodeInit ==
  /\ \E requested \in RequestedBins :
       reducer = [requested_bins |-> requested, block_frames |-> 1, total_frames |-> 0,
                  pending |-> Empty, aggregates |-> <<>>]
  /\ phase = "decoding" /\ bins = <<>>
  /\ bin_view = NoView /\ columns = <<>> /\ stream = <<>>

WellFormed(chunk) == chunk.channels # 0 /\ Len(chunk.pcm) % chunk.channels = 0

Frames(chunk) ==
  [frame \in 1 .. Len(chunk.pcm) \div chunk.channels |-> Mono(chunk, frame)]

(* append.  An empty chunk, which decode skips, changes nothing either. *)
AppendChunk(chunk) ==
  /\ phase = "decoding" /\ WellFormed(chunk)
  /\ Len(stream) + Len(Frames(chunk)) <= MaxFrames
  /\ reducer' = IF reducer.requested_bins = 0 THEN reducer
                ELSE FoldLeft(AddFrame, reducer, Frames(chunk))
  /\ stream' = stream \o Frames(chunk)
  /\ UNCHANGED <<phase, bins, bin_view, columns>>

(* append throws before it changes anything, and decode does not go on. *)
AppendThrows(chunk) ==
  /\ phase = "decoding" /\ ~ WellFormed(chunk)
  /\ phase' = "failed"
  /\ UNCHANGED <<reducer, bins, bin_view, columns, stream>>

(* The end of decode, which throws when there are no bins. *)
Finish ==
  /\ phase = "decoding"
  /\ reducer' = FlushPending(reducer)
  /\ bins' = Finished(reducer)
  /\ phase' = IF bins' = <<>> THEN "failed" ELSE "finished"
  /\ UNCHANGED <<bin_view, columns, stream>>

(* The panel draws a view of the snapshot.  What it draws depends on the   *)
(* snapshot only, so one view of each is enough.                           *)
Draw(begin, end, requested) ==
  /\ phase = "finished" /\ bin_view = NoView
  /\ bin_view' = [begin |-> begin, end |-> end, requested |-> requested]
  /\ columns' = ResampleWaveform(bins, begin, end, requested)
  /\ UNCHANGED <<reducer, phase, bins, stream>>

DecodeNext ==
  \/ \E chunk \in Chunks : AppendChunk(chunk) \/ AppendThrows(chunk)
  \/ Finish
  \/ \E bounds \in DrawnViews, requested \in DrawnColumns : Draw(bounds[1], bounds[2], requested)

DecodeSpec == DecodeInit /\ [][DecodeNext]_wave_vars

------------------------------------------------------------------------------
(* Types, and the bound on the memory of a decode: however long the stream *)
(* is, there are at most twice as many aggregates as bins asked for.       *)
DecodeTypeOK ==
  /\ reducer \in [requested_bins : Nat, block_frames : Nat \ {0}, total_frames : Nat,
                  pending : Aggregate, aggregates : Seq(Aggregate)]
  /\ Len(reducer.aggregates) <= 2 * reducer.requested_bins
  /\ phase \in {"decoding", "finished", "failed"}
  /\ bins \in Seq(Aggregate) /\ stream \in Seq(Int)

FramesIn(aggregates) == Total([i \in DOMAIN aggregates |-> aggregates[i].frame_count])

(* Where the i-th of consecutive aggregates or bins begins in the stream.  *)
StartOf(aggregates, i) == FramesIn(SubSeq(aggregates, 1, i - 1))

Describes(aggregates, i) ==
  LET start == StartOf(aggregates, i)
  IN  aggregates[i] = FoldLeft(WithFrame, Empty,
                        SubSeq(stream, start + 1, start + aggregates[i].frame_count))

(* Whatever the chunks, and however often the aggregates were halved: they *)
(* and the pending one describe consecutive pieces of the stream, each its *)
(* own piece, and together all of it.                                      *)
AggregatesDescribeStream ==
  phase = "decoding" /\ reducer.requested_bins # 0 =>
    LET all == Append(reducer.aggregates, reducer.pending)
    IN  /\ \A i \in DOMAIN all : Describes(all, i)
        /\ FramesIn(all) = Len(stream) /\ reducer.total_frames = Len(stream)

(* "The final bins describe the full decoded stream" (waveform.hpp:21): in *)
(* order, without a gap, none empty, and in their place.  A bin is drawn   *)
(* as if all bins were equally long.  The aggregates are not (one that had *)
(* no neighbour when they were halved is shorter, and so may the last be), *)
(* but no bin begins as much as one bin before the place where it is drawn *)
(* or one bin and a half after it, however many bins are asked for.        *)
BinsInPlace ==
  phase = "finished" =>
    /\ \A i \in DOMAIN bins :
         LET off == StartOf(bins, i) * Len(bins) - (i - 1) * Len(stream)
         IN  /\ bins[i].frame_count > 0 /\ Describes(bins, i)
             /\ -off < Len(stream) /\ 2 * off < 3 * Len(stream)
    /\ FramesIn(bins) = Len(stream)

(* A stream that needed no halving is reduced as reduce_waveform does with *)
(* the whole of it.                                                        *)
ShortStreamsExact ==
  phase = "finished" /\ Len(stream) <= 2 * reducer.requested_bins =>
    bins = ReduceWaveform(stream, reducer.requested_bins)

BinInView(i) ==
  i * ViewSteps > bin_view.begin * Len(bins) /\ (i - 1) * ViewSteps < bin_view.end * Len(bins)

(* Every view of the track has exactly the columns asked for, "including   *)
(* when the display is wider than the cached analysis" (waveform.hpp:50),  *)
(* and no peak is lost or invented: the extremes of the columns together   *)
(* are those of the bins in view.                                          *)
NoPeakLost ==
  /\ 0 <= bin_view.begin /\ bin_view.begin < bin_view.end /\ bin_view.end <= ViewSteps
  /\ bin_view.requested > 0
  =>
    LET inside == {bins[i] : i \in {j \in DOMAIN bins : BinInView(j)}}
    IN  /\ Len(columns) = bin_view.requested
        /\ \A bin \in inside :
             /\ \E k \in DOMAIN columns : columns[k].minimum <= bin.minimum
             /\ \E k \in DOMAIN columns : bin.maximum <= columns[k].maximum
        /\ \A k \in DOMAIN columns :
             /\ \E bin \in inside : bin.minimum = columns[k].minimum
             /\ \E bin \in inside : bin.maximum = columns[k].maximum

(* While it is decoded and when it is done, the reduction stands for the   *)
(* whole stream, each piece at its place, in bounded memory.               *)
WaveformIsFaithful ==
  DecodeTypeOK /\ AggregatesDescribeStream /\ ShortStreamsExact /\ BinsInPlace
==============================================================================
