----------------------------- MODULE MCKeyStore -----------------------------
(* Instances of KeyStore for TLC.                                          *)
EXTENDS KeyStore, TLC

With(owner, null, entries) ==
  [kind |-> "regular", owner |-> owner, nullDacl |-> null, entries |-> entries]

Allowing(type, who, right) == [type |-> type, who |-> who, right |-> right]

\* Private; a link; open to others; an owner who is trusted only on Windows;
\* no list at all; an entry the check cannot read and one it skips.
SomeSettings ==
  { Private,
    [Private EXCEPT !.kind = "link"],
    With("self", FALSE, {Allowing("allow", "stranger", "write")}),
    With("administrators", FALSE, {Allowing("allow", "administrators", "read")}),
    With("self", TRUE, {}),
    With("self", FALSE, {Allowing("allowObject", "stranger", "read"),
                         Allowing("deny", "stranger", "write")}) }

SomeInherited == {With("self", FALSE, {Allowing("allow", "stranger", "read")})}
OnlyPrivate == {Private}
=============================================================================
