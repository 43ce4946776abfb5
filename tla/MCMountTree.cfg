\* Paths of up to three parts over two names, four mounts.
SPECIFICATION Spec
CONSTANTS
  Names = {a, b}
  MaxDepth = 3
  MaxId = 5
INVARIANTS TreeShape MountsAlive LookupsAgree
