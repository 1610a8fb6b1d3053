SPECIFICATION PartsSpec
CONSTANTS
  Bookings = {b1}
  Requests = {r1, r2}
  MaxTime = 3
  None = None
  Conversations = {c1, c2}
  ClientIds = {i1, i2}
  MaxMessages = 2
  Nothing = Nothing
  customer = customer
  photographer = photographer
  Users = {customer, photographer, stranger}
  Messages = {m1}
  Participants <- TheTwo
  Home <- TheHome
  Sockets = {k1}
  Nobody = Nobody
  Roles = {o1, o2}
  MaxLocations = 2
INVARIANTS
  TypeOK
  HistoryIsChain
  ScheduleOrdered
  ReviewAfterCompletion
  PartsTypeOK
  MessagesAreInOrder
  EventsAreTrue
  ListedAtLocation
PROPERTY
  FollowsLifecycle
SYMMETRY Symmetry
CHECK_DEADLOCK FALSE
