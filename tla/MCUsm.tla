------------------------------- MODULE MCUsm --------------------------------
(* A small instance of Usm for TLC. *)
EXTENDS Usm

Text(word) == <<Chunk(word, <<>>, 8)>>

User(auth, authPassword, priv, privPassword, level) ==
    [auth |-> auth, authPassword |-> authPassword, priv |-> priv, privPassword |-> privPassword,
     level |-> level]

\* One password for everything, so that tuples meet; a hash that is long enough, and one
\* that has to be extended, either way; and a password that is missing.
MCUsers ==
    {User("Md5", Text("one"), priv, Text("one"), "authPriv") :
        priv \in {"None", "Des", "Aes192", "Aes192C"}}
      \union {User("Md5", Text("one"), "Aes256", <<>>, "authPriv"),
              User("Md5", Text("one"), "None", <<>>, "authNoPriv")}

MCEngines == {Text("engine")}

MCStamps == {[boots |-> 1, time |-> 9], [boots |-> 2, time |-> 9]}
=============================================================================
