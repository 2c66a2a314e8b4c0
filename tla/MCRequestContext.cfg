SPECIFICATION Spec
CONSTANTS
  Names = {sid, theme}
  Contents = {v1, v2}
  Headers = {h1, h2}
  Bad = Bad
  None = None
  Unchanged = Unchanged
SYMMETRY CookieSymmetry
INVARIANTS
  TypeOK
PROPERTY
  Effects
