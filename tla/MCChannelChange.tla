--------------------------- MODULE MCChannelChange ---------------------------
(* Sets of configurations for TLC: small numbers stand for the samples per *)
(* second and the channels, the types for 16-bit (1) and 24-bit (4)        *)
(* converters.                                                             *)
EXTENDS ChannelChange

Config(s, n, t) == [sps |-> s, channels |-> n, type |-> t]

(* Two configurations that differ in everything, but have the same number  *)
(* of readings a second: a change must be noticed although they do.        *)
TwoConfigs == {Config(1, 2, 1), Config(2, 1, 4)}

(* Three, for a change during a change.                                    *)
ThreeConfigs == TwoConfigs \cup {Config(3, 1, 1)}
=============================================================================
