---------------------------- MODULE MCLazyFlags -----------------------------
(* Bytes at the edges of the signed and unsigned ranges and of the low      *)
(* nibble, a few words of two bytes, counts around the width.  Every        *)
(* instruction may follow every other, so each finds every stash pending.   *)
EXTENDS LazyFlags

I(op, a, b) == [op |-> op, size |-> 1, a |-> a, b |-> b, n |-> 0,
                mem |-> FALSE, f |-> {}]
InMemory(i) == [i EXCEPT !.mem = TRUE]
Wide(i) == [i EXCEPT !.size = 2]
Third(i, n) == [i EXCEPT !.n = n]
Load(i, f) == [i EXCEPT !.f = f]

MCInsns ==
  {I("add", 127, 1), I("add", 128, 255), I("adc", 127, 0), I("adc", 0, 255),
   I("sub", 128, 255), I("sbb", 0, 255), I("sbb", 127, 1), I("cmp", 128, 127),
   I("cmp", 16, 16), I("cmp", 255, 1), I("cmp", 127, 255), I("or", 128, 1),
   I("and", 127, 1), I("test", 165, 129), InMemory(I("xor", 165, 129)),
   InMemory(Wide(I("adc", 32768, 32767))), InMemory(Wide(I("sub", 32768, 1)))}
  \cup {I("inc", 127, 0), InMemory(I("inc", 255, 0)), I("dec", 0, 0),
        I("dec", 128, 0), I("neg", 128, 0), InMemory(I("not", 90, 0))}
  \cup {I("mul", 255, 255), I("imul", 3, 5), I("imul1", 255, 128)}
  \cup {I("div", 7, 0), Third(I("div", 7, 2), 2), Third(I("div", 7, 2), 1),
        Third(I("idiv", 249, 2), 255), Third(I("idiv", 0, 255), 128)}
  \cup {I("shl", 129, 0), I("shl", 129, 1), I("shl", 129, 8), I("shr", 129, 1),
        I("shr", 129, 9), I("sar", 129, 34), I("sar", 129, 9)}
  \cup {I("rol", 129, 1), I("rol", 129, 8), I("ror", 130, 1), I("ror", 129, 10)}
  \cup {I("rcl", 129, 1), I("rcl", 129, 9), InMemory(I("rcr", 129, 1)),
        I("rcr", 129, 10)}
  \cup {Third(I("shld", 129, 192), 1), Third(I("shld", 129, 192), 8),
        Third(I("shrd", 129, 192), 3), I("shrd", 129, 192)}
  \cup {I("bt", 129, 15), InMemory(I("bts", 1, 15)), I("btr", 129, 7),
        I("btc", 129, 0)}
  \cup {I("bsf", 0, 0), I("bsf", 0, 160), I("bsr", 0, 160), I("popcnt", 0, 160),
        I("lzcnt", 0, 1), I("tzcnt", 0, 0)}
  \cup {I("lahf", 0, 0), I("jcc", 0, 0), InMemory(I("pushf", 0, 0)),
        Load(I("sahf", 0, 0), {"CF", "ZF"}),
        InMemory(Load(I("popf", 0, 0), {"DF", "CF", "OF", "AF"}))}

\* Two states are the same when they differ only in bits of rflags_ that the
\* pending stash replaces: no handler reads those before the sync drops them.
View == <<last, fault, Visible(rflags, cc), cc, out, saved>>

=============================================================================
