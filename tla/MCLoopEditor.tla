---------------------------- MODULE MCLoopEditor ----------------------------
EXTENDS LoopEditor, TLC

CONSTANTS long, odd   \* model values: tracks

BothTracks == {long, odd}
MCLength == (long :> 800) @@ (odd :> 360)
MCDecodedLength == (long :> 720) @@ (odd :> 400)

MCTempi == {60, 120, 301, NonFinite}
MCOffsets == {0, -30, NonFinite}
MCModes == {0, 1, 2, 3}
MCPlaces == {-80, 0, 200, 360, 690, 1200}

Good == [Encode(DefaultState) EXCEPT !.in_seconds = 480, !.out_seconds = 760]
Older == [Good EXCEPT !.schema = 0, !.snapping = 0, !.out_seconds = 640]
Inverted == [Good EXCEPT !.out_seconds = 120]
MCEarlierRecords == {NoRecord, Good, Older, Inverted}
==============================================================================
