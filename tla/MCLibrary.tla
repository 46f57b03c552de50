------------------------------- MODULE MCLibrary -------------------------------
(* Library on a small instance: two pictures a and b, each as the PNG it comes   *)
(* as and as the JPEG compressImages makes of it, and a file that is no image.   *)
EXTENDS Library

CONSTANTS a, b, aJpeg, bJpeg, broken, empty, red, newYork, new, york

MCContents == {a, b, aJpeg, bJpeg, broken, empty}
MCDecodable == {a, b, aJpeg, bJpeg}
MCHeaderFormat == [c \in MCContents |-> IF c \in {aJpeg, bJpeg} THEN "jpeg"
                                        ELSE IF c = empty THEN "none" ELSE "png"]
MCJpegOf == [c \in MCContents |-> IF c \in {a, aJpeg} THEN aJpeg
                                  ELSE IF c \in {b, bJpeg} THEN bJpeg ELSE empty]
StoreOfA == <<a>>
StoreOfBroken == <<broken>>

\* No tags, tags of one word, and a tag of two.
NoWords == [t \in {} |-> {}]
OneWord == [t \in {red} |-> {t}]
TwoWords == [t \in {newYork, new, york} |-> IF t = newYork THEN {new, york} ELSE {t}]

\* What the names of files say: nothing, red, red twice, or two words.
NoFileWords == {<<>>}
RedFiles == {<<>>, <<red>>, <<red, red>>}
NewYorkFiles == {<<>>, <<new, york>>}
================================================================================
