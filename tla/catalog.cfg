SPECIFICATION Spec
CONSTANTS
  r1 = r1
  r2 = r2
  q1 = q1
  k1 = k1
  k2 = k2
  Nowhere = Nowhere
  MaxHidden = 1
  Categories = {k1, k2}
  chicken = chicken
  chickenSpaced = chickenSpaced
  pizza = pizza
  None = None
  Names = {chicken, chickenSpaced, pizza}
  SlugOf <- MCSlugOf
  Rows = {1, 2, 3}
  Limits = {2}
  Requests = {r1, r2}
  Readers = {q1}
SYMMETRY Alike
INVARIANTS
  IInv
  OneCategoryPerSlug
  NothingSkipped
  QuietListingExact
