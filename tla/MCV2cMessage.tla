---------------------------- MODULE MCV2cMessage ----------------------------
(* A small instance of V2cMessage for TLC. *)
EXTENDS V2cMessage

Some(n) == [i \in 1..n |-> 7]

\* One value of each type, strings that end the layers around them on either side of
\* 127 and 255 octets, and a name that cannot be written.
MCValues ==
    {<<2, -129>>, <<65, 200>>, <<70, 70000>>, <<6, <<1, 3, 300>>>>, <<64, Some(4)>>, <<5, <<>>>>,
     <<130, <<>>>>, <<68, Some(2)>>, <<6, <<3, 1>>>>}
        \union {<<4, Some(n)>> : n \in {0, 92, 101, 103, 105, 118, 120, 122, 232, 244}}

MCNames == {<<1, 3, 6, 200>>, <<2, 5>>, <<1, 40>>}

MCVarbinds == [name: MCNames, val: MCValues]

MCMessages ==
    [version: {1}, community: {<<>>, <<112, 117>>}, type: {162, 165}, requestId: {300},
     errorStatus: {0}, errorIndex: {-1},
     varbinds: {<<>>} \union {<<v>> : v \in MCVarbinds}
                 \union {<<[name |-> <<1, 3, 6>>, val |-> <<5, <<>>>>], v>> : v \in MCVarbinds}]
      \union [version: {0, 3}, community: {<<>>}, type: {160}, requestId: {1}, errorStatus: {0},
              errorIndex: {0}, varbinds: {<<>>}]
=============================================================================
