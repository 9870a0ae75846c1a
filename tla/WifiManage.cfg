SPECIFICATION WifiFairSpec
CONSTANTS
  robot = robot
  home = home
  phone = phone
  office = office
  hotel = hotel
  cafe = cafe
  Networks = {robot, home, phone, office, hotel, cafe}
  Nothing = Nothing
  Default = robot
  MAX_WIFI_NUM = 5
  Worlds <- MCWorlds
  MaxEvents = 1
INVARIANTS SlotsAreKept ConnectedIsTrue
PROPERTIES NothingIsSkipped Connects
CHECK_DEADLOCK FALSE
