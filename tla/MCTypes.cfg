SPECIFICATION Spec
CONSTANT Programs <- MCPrograms
INVARIANTS
  TypeOK
  AcceptedIsSound
  AliasesAreTransparent
