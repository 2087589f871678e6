SPECIFICATION Spec
CONSTANTS
  Keys = {1, 2, 3, 4, 5, 6, 7}
  Values = {v1, v2}
  Null = Null
  Order = 3
VIEW View
INVARIANTS Consistent LookupsAgree
