\* Every certificate of one chain, and of one split of each kind. And nine pairs, of functions
\* that leave poison, are undefined, call, loop or choose: split twice at most, in every order,
\* with an input reported at any time.
SPECIFICATION EitherSpec
CONSTANTS
  lo = lo
  hi = hi
  eq = eq
  with = with
  given = given
  callee = callee
  itself = itself
  nofn = nofn
  opt = opt
  param = param
  attr = attr
  before = before
  return = return
  when = when
  in = in
  out = out
  none = none
  Programs <- FivePrograms
  Refines <- FiveRefines
  Manifests <- SmallManifests
  Inputs <- BothInputs
  NoInput <- none
  Diverges <- DivergeAt
  Looping <- LoopingHi
  FnNames <- BothFns
  NoFn = nofn
  Ways <- OneWay
  Rules <- OneRule
  ParamFacts <- OneParam
  FnFacts <- OneAttr
  Predicates <- OneBefore
  RetFacts <- OneReturn
  Splitters <- OneSplitter
  Rewritten <- Optimised
  Unfolded <- Unrolled
  WithAttrs <- Stated
  AssumedAtStart <- Supposing
  AssumedBeforeCalls <- Supposing
  Inlined <- Joined
  Rebuilt <- PutBack
  CaseOf <- Halved
  Signature <- Saying
  Naming <- NamingOnes
  Bare <- BareOnes
  BodyAttrs <- HavingBodyAttrs
  Covered <- CoveredAt
  Splittable <- SplitAt
  fst = fst
  snd = snd
  result = result
  Poison = Poison
  UB = UB
  Params <- TwoParams
  Half = 1
  Seen <- OneSeen
  Fns <- AllFns
  Callees <- Called
  Posed <- AllPosed
  Compared <- SomeCompared
  MaxMade = 5
INVARIANTS AcceptedTrue StackSound PartsShow RuledRight
\* The kernel says its word and ends, and so does a run with every goal shown.
CHECK_DEADLOCK FALSE
