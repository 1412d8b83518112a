SPECIFICATION Spec
CONSTANTS
  r1 = r1
  r2 = r2
  exact = exact
  flex = flex
  None = None
  Requests = {r1, r2}
  Routes = {"cheap", "dear"}
  Price <- MCPrice
  Configs <- MCConfigs
  HandlerSeq <- MCHandlerSeq
  KindOf <- MCKindOf
  HasCapabilities = {exact, flex}
  MPPHandlers <- MCMPPHandlers
  Bodies = {"body"}
  Unsolicited <- MCUnsolicited
  Faltering = {exact}
  Capacity = 1
  MaxAge = 2
  MaxFlight = 1
  MaxTime = 3
  MaxArrivals = 3
INVARIANT TypeOK
INVARIANT OfferedIsTaken
INVARIANT ServedForItsPayment
INVARIANT RefusedIsUnpaid
PROPERTY MissingOnlyIfFailed
SYMMETRY Symmetric
CHECK_DEADLOCK FALSE
