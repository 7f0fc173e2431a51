----------------------------- MODULE MCExchange -----------------------------
(* Two calls and a service with a method that can be called and one that    *)
(* cannot.                                                                  *)
EXTENDS Exchange, TLC

CONSTANTS a, b

Method(n, in, out) ==
    [name |-> n, exported |-> TRUE, ins |-> <<"context", "exported", in>>,
     outs |-> out]

MCServices ==
    <<65>> :> {Method(<<77>>, "pointer to exported", <<"error">>),
               Method(<<78>>, "exported", <<"error">>)}
    @@ <<66>> :> {Method(<<77>>, "pointer to exported", <<>>)}

Wish(path, method, args) ==
    [path |-> path, method |-> method, args |-> args, serialize |-> 2,
     compress |-> None, big |-> FALSE, meta |-> {}, returns |-> "nil",
     resMeta |-> {}]

Arith == Wish(<<65>>, <<77>>, <<1>>)

\* A call that succeeds, with metadata both ways; calls that fail in each of
\* the ways; and a client that compresses.
WishesOfA ==
    {[Arith EXCEPT !.meta = {<<<<107>>, <<118, 118>>>>, <<<<108>>, <<>>>>},
                   !.resMeta = {<<<<109>>, <<118>>>>}],
     [Arith EXCEPT !.returns = "error", !.resMeta = {<<<<109>>, <<118>>>>}],
     [Arith EXCEPT !.method = <<78>>],
     [Arith EXCEPT !.path = <<66>>],
     [Arith EXCEPT !.args = <<1, 1>>],
     [Arith EXCEPT !.compress = Gzip, !.serialize = 1, !.big = TRUE]}

WishesOfB ==
    {Wish(<<>>, <<>>, <<2>>),
     [Arith EXCEPT !.args = <<2>>, !.serialize = 0],
     [Arith EXCEPT !.args = <<2>>, !.returns = "panic", !.meta = {<<<<107>>, <<>>>>}],
     [Arith EXCEPT !.args = <<2>>, !.returns = "misfit"]}

MCWishes == a :> WishesOfA @@ b :> WishesOfB
=============================================================================
