SPECIFICATION Spec
CONSTANTS
  ra = ra
  rb = rb
  near = near
  far = far
  city = city
  code = code
  Restaurants = {ra, rb}
  Places = {near, far}
  Cities = {city}
  CityOf <- MCCityOf
  Km <- MCKm
  Zones = {1, 2}
  ZoneRow <- MCZoneRow
  Prices = {25, 30}
  Codes = {code}
  Servers <- MCServers
  MaxQty <- MCMaxQty
  Calls = {k1, k2}
SYMMETRY Symmetry
INVARIANTS TypeOK ChargedAsShown AmountsAddUp
PROPERTIES OneOrderPerCart CityZonesGiveWay
