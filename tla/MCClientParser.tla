--------------------------- MODULE MCClientParser ---------------------------
(* Streams for TLC: two items of any kind and a sound one behind them.     *)
EXTENDS ClientParser, SequencesExt

CONSTANTS PacketLen,  (* length of an ordinary packet                      *)
          FatalLen    (* length of one whose length field has a byte of 0  *)

(* What the bytes from some place of an item on look like.                 *)
Plain == [info |-> "none", says |-> 0, fits |-> FALSE]
Info(text) == [Plain EXCEPT !.info = text]
Token(says, fits) == [Plain EXCEPT !.says = says, !.fits = fits]

(* An item with nothing but plain bytes, except at the places of marks.    *)
Item(kind, size, marks) ==
    [i \in 1 .. size |->
        [kind |-> kind, place |-> i, size |-> size] @@
        (IF i \in DOMAIN marks THEN marks[i] ELSE Plain)]

Channel == Item("channel", ChanInfoLen, 1 :> Info("valid"))
Packet(size) == Item("packet", size, 1 :> Token(size, TRUE))

(* A packet with bytes like a token at the beginning of its data.          *)
Nested(size, mark) ==
    Item("packet", size, 1 :> Token(size, TRUE) @@ PreHdrLen + 1 :> mark)

Ordinary == {Channel, Packet(PacketLen)}

Trouble ==
    {Item("invalid", ChanInfoLen, 1 :> Info("invalid")),
     Item("other", ChanInfoLen, 1 :> Info("garbled")),
     Item("other", PacketLen, << >>),
     Item("corrupt", PacketLen, 1 :> Token(PacketLen, FALSE)),
     Item("other", PacketLen - 1, 1 :> Token(PacketLen, FALSE)),
     Packet(Capacity + 1), Packet(FatalLen),
     Nested(PacketLen, Token(PacketLen, TRUE)),
     Nested(PacketLen, Token(Capacity + 1, FALSE)),
     Nested(PacketLen, Token(FatalLen, FALSE)),
     Nested(PreHdrLen + ChanInfoLen, Info("valid"))}
    \cup {Nested(PacketLen, Info(text)) : text \in {"valid", "invalid", "garbled"}}

MCStreams ==
    {FlattenSeq(items) : items \in (Ordinary \cup Trouble) \X (Ordinary \cup Trouble) \X Ordinary}
=============================================================================
