---------------------------- MODULE MCRenderCommand ----------------------------
EXTENDS RenderCommand

MCFlags ==
  <<Flag("aa", FALSE, FALSE, "2"), Flag("count", TRUE, FALSE, "40"), Flag("deep", FALSE, TRUE, "false"),
    Flag("palette", FALSE, FALSE, "kandinsky"), Flag("seed", FALSE, FALSE, "42")>>
MCValues == [aa |-> {"3"}, count |-> {"80"}, deep |-> {"true"}, palette |-> {"klee"}, seed |-> {"7"}]
===============================================================================
