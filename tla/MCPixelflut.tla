---------------------------- MODULE MCPixelflut ----------------------------
(* Instances of Pixelflut for TLC.                                         *)
EXTENDS Pixelflut

CONSTANTS red, blue

R(x1, x2, y1, y2) == [x1 |-> x1, x2 |-> x2, y1 |-> y1, y2 |-> y2]

Plain(color) == [p \in Pixels |-> color]
\* the two halves of the screen, red and blue
LeftRed == [p \in Pixels |-> IF p[1] < Width \div 2 THEN red ELSE blue]

ThreePictures == {Plain(red), Plain(blue), LeftRed}

FullUpdates == {<<Full>>}
LeftAndRight == {<<Full>>, <<R(0, Width \div 2, 0, Height), R(Width \div 2, Width, 0, Height)>>}
FullOrSide == {<<Full>>, <<R(0, Width \div 2, 0, Height)>>, <<R(Width \div 2, Width, 0, Height)>>}

=============================================================================
